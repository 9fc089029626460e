----------------------------- MODULE LimitsProofs ------------------------------
(* Proofs about the limits for every set of connections and of sessions and    *)
(* all thresholds: the connection limiter, the throttle, the lockout and      *)
(* greylisting.  Each part has an inductive invariant of its own, of which    *)
(* every step of the part is shown to keep it.                                *)
EXTENDS Limits, Sequences, FiniteSetTheorems, TLAPS

-------------------------------------------------------------------------------
(* Finite sets.                                                               *)

(* A finite set with one more element.                                        *)
LEMMA CardAdd ==
    ASSUME NEW S, IsFiniteSet(S), NEW c, NEW T, T = S \union {c}
    PROVE  /\ IsFiniteSet(T)
           /\ Cardinality(S) \in Nat /\ Cardinality(T) \in Nat
           /\ Cardinality(T) <= Cardinality(S) + 1
<1>1. IsFiniteSet(T) /\ Cardinality(T) = IF c \in S THEN Cardinality(S) ELSE Cardinality(S) + 1
  BY FS_AddElement
<1>2. Cardinality(S) \in Nat
  BY FS_CardinalityType
<1>3. QED
  BY <1>1, <1>2

(* A subset of a finite set, and one that lacks an element.                   *)
LEMMA CardSub ==
    ASSUME NEW S, IsFiniteSet(S), NEW T, T \subseteq S
    PROVE  /\ IsFiniteSet(T)
           /\ Cardinality(T) \in Nat /\ Cardinality(S) \in Nat
           /\ Cardinality(T) <= Cardinality(S)
           /\ \A c \in S : c \notin T => Cardinality(T) <= Cardinality(S) - 1
<1>1. T \in SUBSET S
  OBVIOUS
<1>2. IsFiniteSet(T) /\ Cardinality(T) <= Cardinality(S)
      /\ (Cardinality(S) = Cardinality(T) => S = T)
  BY <1>1, FS_Subset
<1>3. Cardinality(T) \in Nat /\ Cardinality(S) \in Nat
  BY <1>2, FS_CardinalityType
<1>4. ASSUME NEW c \in S, c \notin T PROVE Cardinality(T) <= Cardinality(S) - 1
  BY <1>2, <1>3, <1>4
<1>5. QED
  BY <1>2, <1>3, <1>4

(* The positions in a finite sequence.                                        *)
LEMMA PositionsFinite ==
    ASSUME NEW s \in Seq(Nat), NEW S, S \subseteq DOMAIN s
    PROVE  IsFiniteSet(S)
<1>1. DOMAIN s = 1 .. Len(s) /\ Len(s) \in Int
  OBVIOUS
<1>2. IsFiniteSet(DOMAIN s)
  BY <1>1, FS_Interval
<1>3. QED
  BY <1>2, CardSub

(* A sequence with one more element.                                          *)
LEMMA Appended ==
    \A s \in Seq(Nat), x \in Nat :
        /\ Append(s, x) \in Seq(Nat) /\ Len(s) + 1 \in Nat
        /\ DOMAIN Append(s, x) = DOMAIN s \union {Len(s) + 1} /\ Len(s) + 1 \notin DOMAIN s
        /\ Append(s, x)[Len(s) + 1] = x
        /\ \A j \in DOMAIN s : Append(s, x)[j] = s[j]
        /\ DOMAIN Append(s, x) \subseteq Nat
OBVIOUS

(* The parts count with an instance of FiniteSets each.                       *)
LEMMA OutboundCounts ==
    \A S : Outbound!Cardinality(S) = Cardinality(S)
           /\ Outbound!IsFiniteSet(S) = IsFiniteSet(S)
BY DEF Cardinality, Outbound!Cardinality, IsFiniteSet, Outbound!IsFiniteSet

(* The lockout counts as everybody else does.                                 *)
LEMMA AuthCounts ==
    \A S : Auth!Cardinality(S) = Cardinality(S) /\ Auth!IsFiniteSet(S) = IsFiniteSet(S)
BY DEF Cardinality, Auth!Cardinality, IsFiniteSet, Auth!IsFiniteSet

-------------------------------------------------------------------------------
(* The connection limiter.                                                   *)

\* A set of connections changes by at most the one that takes the step.
LEMMA CardGrows ==
    ASSUME NEW S, IsFiniteSet(S), NEW T, NEW c, c \notin S, T = S \union {c}
    PROVE  Cardinality(T) = Cardinality(S) + 1
BY FS_AddElement

LEMMA CardShrinks ==
    ASSUME NEW S, IsFiniteSet(S), NEW T, NEW c, c \in S, T = S \ {c}
    PROVE  Cardinality(T) = Cardinality(S) - 1 /\ Cardinality(S) > 0
<1>1. Cardinality(T) = Cardinality(S) - 1
  BY FS_RemoveElement
<1>2. Cardinality(S) \in Nat /\ Cardinality(S) # 0
  BY FS_CardinalityType, FS_EmptySet
<1>3. QED
  BY <1>1, <1>2

LEMMA StagesFinite ==
    ASSUME NEW stages, NEW i
    PROVE  IsFiniteSet(At(stages)) /\ IsFiniteSet(AtIp(i, stages))
BY ConnAssumption, FS_Subset DEF At, AtIp

\* The connections counted globally, and those counted for an address.
Counted == At({"counted", "over", "serving"})
Mapped(i) == AtIp(i, {"serving", "dropped"})

LEMMA InitInv == Init => IndInv
<1> SUFFICES ASSUME Init PROVE IndInv
  OBVIOUS
<1>1. Counted = {} /\ \A i \in Ip : Mapped(i) = {}
  BY DEF Init, Counted, Mapped, At, AtIp
<1>2. CountersExact
  BY <1>1, FS_EmptySet DEF Init, CountersExact, Counted, Mapped
<1>3. TypeOK /\ LockInv /\ BoundInv
  BY ConnAssumption, LimitAssumption
     DEF Init, TypeOK, Stage, LockInv, BoundInv
<1>4. QED
  BY <1>2, <1>3 DEF IndInv

LEMMA TypeStep == TypeOK /\ CountersExact /\ [Next]_vars => TypeOK'
<1> SUFFICES ASSUME TypeOK, CountersExact, [Next]_vars PROVE TypeOK'
  OBVIOUS
<1> USE DEF TypeOK, Stage, Goto
<1>1. ASSUME NEW c \in Conn, pc[c] \in {"over", "serving"}
      PROVE  global - 1 \in Nat
  <2>1. c \in Counted
    BY <1>1 DEF Counted, At
  <2>2. global > 0
    BY <2>1, CardShrinks, StagesFinite DEF Counted, CountersExact
  <2>3. QED
    BY <2>2
<1>2. ASSUME NEW c \in Conn,
             Accept(c) \/ RefuseIp(c) \/ CheckIp(c) \/ CountGlobal(c)
      PROVE  TypeOK'
  BY <1>2 DEF Accept, RefuseIp, CheckIp, CountGlobal
<1>3. ASSUME NEW c \in Conn, RefuseGlobal(c) \/ Drop(c) PROVE TypeOK'
  BY <1>1, <1>3 DEF RefuseGlobal, Drop
<1>4. ASSUME NEW c \in Conn, Admit(c) \/ ReleaseIp(c) PROVE TypeOK'
  BY <1>4, IpAssumption DEF Admit, ReleaseIp
<1>5. CASE UNCHANGED vars
  BY <1>5 DEF vars
<1>6. QED
  BY <1>2, <1>3, <1>4, <1>5 DEF Next

LEMMA LockStep == TypeOK /\ LockInv /\ [Next]_vars => LockInv'
<1> SUFFICES ASSUME TypeOK, LockInv, [Next]_vars PROVE LockInv'
  OBVIOUS
<1> USE ConnAssumption, IpAssumption DEF TypeOK, LockInv, Goto
<1>1. ASSUME NEW c \in Conn, Accept(c) \/ RefuseIp(c) PROVE LockInv'
  BY <1>1 DEF Accept, RefuseIp
<1>2. ASSUME NEW c \in Conn, CheckIp(c) \/ CountGlobal(c) PROVE LockInv'
  BY <1>2 DEF CheckIp, CountGlobal
<1>3. ASSUME NEW c \in Conn, RefuseGlobal(c) \/ Drop(c) PROVE LockInv'
  BY <1>3 DEF RefuseGlobal, Drop
<1>4. ASSUME NEW c \in Conn, Admit(c) PROVE LockInv'
  <2>1. \A d \in Conn : pc'[d] \in {"checked", "counted", "over"} <=> lock' = d
    BY <1>4 DEF Admit
  <2>2. \A d \in Conn : pc'[d] \notin {"checked", "counted"}
    BY <1>4, <2>1 DEF Admit
  <2>3. QED
    BY <2>1, <2>2
<1>5. ASSUME NEW c \in Conn, ReleaseIp(c) PROVE LockInv'
  BY <1>5 DEF ReleaseIp
<1>6. CASE UNCHANGED vars
  BY <1>6 DEF vars
<1>7. QED
  BY <1>1, <1>2, <1>3, <1>4, <1>5, <1>6 DEF Next

\* Each counter follows the set of connections it counts.
LEMMA ExactStep ==
    TypeOK /\ CountersExact /\ [Next]_vars => CountersExact'
<1> SUFFICES ASSUME TypeOK, CountersExact, [Next]_vars PROVE CountersExact'
  OBVIOUS
<1> USE DEF TypeOK, Goto
<1>1. global = Cardinality(Counted) /\ \A i \in Ip : perIp[i] = Cardinality(Mapped(i))
  BY DEF CountersExact, Counted, Mapped
<1>2. SUFFICES /\ global' = Cardinality(Counted')
               /\ \A i \in Ip : perIp'[i] = Cardinality(Mapped(i)')
  BY DEF CountersExact, Counted, Mapped
<1>3. IsFiniteSet(Counted) /\ \A i \in Ip : IsFiniteSet(Mapped(i))
  BY StagesFinite DEF Counted, Mapped
<1>4. ASSUME NEW c \in Conn, Accept(c) \/ RefuseIp(c) \/ CheckIp(c)
      PROVE  /\ Counted' = Counted /\ global' = global
             /\ \A i \in Ip : Mapped(i)' = Mapped(i) /\ perIp'[i] = perIp[i]
  BY <1>4 DEF Accept, RefuseIp, CheckIp, Counted, Mapped, At, AtIp
<1>5. ASSUME NEW c \in Conn, CountGlobal(c)
      PROVE  /\ global' = Cardinality(Counted')
             /\ \A i \in Ip : Mapped(i)' = Mapped(i) /\ perIp'[i] = perIp[i]
  <2>1. c \notin Counted /\ Counted' = Counted \union {c}
    BY <1>5 DEF CountGlobal, Counted, At
  <2>2. Cardinality(Counted') = Cardinality(Counted) + 1
    BY <1>3, <2>1, CardGrows
  <2>3. QED
    BY <1>1, <1>5, <2>2 DEF CountGlobal, Mapped, At, AtIp
<1>6. ASSUME NEW c \in Conn, RefuseGlobal(c)
      PROVE  /\ global' = Cardinality(Counted')
             /\ \A i \in Ip : Mapped(i)' = Mapped(i) /\ perIp'[i] = perIp[i]
  <2>1. c \in Counted /\ Counted' = Counted \ {c}
    BY <1>6 DEF RefuseGlobal, Counted, At
  <2>2. Cardinality(Counted') = Cardinality(Counted) - 1
    BY <1>3, <2>1, CardShrinks
  <2>3. QED
    BY <1>1, <1>6, <2>2 DEF RefuseGlobal, Mapped, At, AtIp
<1>7. ASSUME NEW c \in Conn, Drop(c)
      PROVE  /\ global' = Cardinality(Counted')
             /\ \A i \in Ip : Mapped(i)' = Mapped(i) /\ perIp'[i] = perIp[i]
  <2>1. c \in Counted /\ Counted' = Counted \ {c}
    BY <1>7 DEF Drop, Counted, At
  <2>2. Cardinality(Counted') = Cardinality(Counted) - 1
    BY <1>3, <2>1, CardShrinks
  <2>3. QED
    BY <1>1, <1>7, <2>2 DEF Drop, Mapped, At, AtIp
<1>8. ASSUME NEW c \in Conn, Admit(c)
      PROVE  /\ Counted' = Counted /\ global' = global
             /\ \A i \in Ip : perIp'[i] = Cardinality(Mapped(i)')
  <2>1. Counted' = Counted /\ global' = global
    BY <1>8 DEF Admit, Counted, At
  <2>2. ASSUME NEW i \in Ip, i = IpOf[c]
        PROVE  perIp'[i] = Cardinality(Mapped(i)')
    <3>1. c \notin Mapped(i) /\ Mapped(i)' = Mapped(i) \union {c}
      BY <1>8, <2>2 DEF Admit, Mapped, At, AtIp
    <3>2. Cardinality(Mapped(i)') = Cardinality(Mapped(i)) + 1
      BY <1>3, <3>1, CardGrows
    <3>3. QED
      BY <1>1, <1>8, <2>2, <3>2 DEF Admit
  <2>3. ASSUME NEW i \in Ip, i # IpOf[c]
        PROVE  perIp'[i] = Cardinality(Mapped(i)')
    <3>1. Mapped(i)' = Mapped(i) /\ perIp'[i] = perIp[i]
      BY <1>8, <2>3 DEF Admit, Mapped, At, AtIp
    <3>2. QED
      BY <1>1, <3>1
  <2>4. QED
    BY <2>1, <2>2, <2>3
<1>9. ASSUME NEW c \in Conn, ReleaseIp(c)
      PROVE  /\ Counted' = Counted /\ global' = global
             /\ \A i \in Ip : perIp'[i] = Cardinality(Mapped(i)')
  <2>1. Counted' = Counted /\ global' = global
    BY <1>9 DEF ReleaseIp, Counted, At
  <2>2. ASSUME NEW i \in Ip, i = IpOf[c]
        PROVE  perIp'[i] = Cardinality(Mapped(i)')
    <3>1. c \in Mapped(i) /\ Mapped(i)' = Mapped(i) \ {c}
      BY <1>9, <2>2 DEF ReleaseIp, Mapped, At, AtIp
    <3>2. /\ Cardinality(Mapped(i)') = Cardinality(Mapped(i)) - 1
          /\ Cardinality(Mapped(i)) > 0
      BY <1>3, <3>1, CardShrinks
    <3>3. QED
      BY <1>1, <1>9, <2>2, <3>2 DEF ReleaseIp
  <2>3. ASSUME NEW i \in Ip, i # IpOf[c]
        PROVE  perIp'[i] = Cardinality(Mapped(i)')
    <3>1. Mapped(i)' = Mapped(i) /\ perIp'[i] = perIp[i]
      BY <1>9, <2>3 DEF ReleaseIp, Mapped, At, AtIp
    <3>2. QED
      BY <1>1, <3>1
  <2>4. QED
    BY <2>1, <2>2, <2>3
<1>10. CASE UNCHANGED vars
  BY <1>1, <1>10 DEF vars, Counted, Mapped, At, AtIp
<1>11. QED
  BY <1>1, <1>4, <1>5, <1>6, <1>7, <1>8, <1>9, <1>10 DEF Next

LEMMA BoundStep ==
    TypeOK /\ LockInv /\ CountersExact /\ BoundInv /\ [Next]_vars => BoundInv'
<1> SUFFICES ASSUME TypeOK, LockInv, CountersExact, BoundInv, [Next]_vars
             PROVE  BoundInv'
  OBVIOUS
<1> USE LimitAssumption, IpAssumption, ConnAssumption
    DEF TypeOK, LockInv, BoundInv, Goto
<1>1. ASSUME NEW c \in Conn, Accept(c) \/ RefuseIp(c) \/ CheckIp(c)
      PROVE  BoundInv'
  BY <1>1 DEF Accept, RefuseIp, CheckIp
<1>2. ASSUME NEW c \in Conn, CountGlobal(c) PROVE BoundInv'
  <2>1. \A d \in Conn : pc[d] # "over"
    BY <1>2 DEF CountGlobal
  <2>2. QED
    BY <1>2, <2>1 DEF CountGlobal
<1>3. ASSUME NEW c \in Conn, RefuseGlobal(c) PROVE BoundInv'
  BY <1>3 DEF RefuseGlobal
<1>4. ASSUME NEW c \in Conn, Admit(c) PROVE BoundInv'
  BY <1>4 DEF Admit
<1>5. ASSUME NEW c \in Conn, Drop(c) PROVE BoundInv'
  BY <1>5 DEF Drop
<1>6. ASSUME NEW c \in Conn, ReleaseIp(c) PROVE BoundInv'
  BY <1>6 DEF ReleaseIp
<1>7. CASE UNCHANGED vars
  BY <1>7 DEF vars
<1>8. QED
  BY <1>1, <1>2, <1>3, <1>4, <1>5, <1>6, <1>7 DEF Next

-----------------------------------------------------------------------------
\* The counters, the mutex and the limits together are inductive.
THEOREM Invariance == Spec => []IndInv
<1>1. IndInv /\ [Next]_vars => IndInv'
  BY TypeStep, LockStep, ExactStep, BoundStep DEF IndInv
<1>2. QED
  BY InitInv, <1>1, PTL DEF Spec

\* No slot leaks and none is released twice, for any number of connections.
THEOREM NoDrift == Spec => []CountersExact
<1>1. IndInv => CountersExact
  BY DEF IndInv
<1>2. QED
  BY <1>1, Invariance, PTL

\* The configured maxima are never exceeded.
THEOREM Limits == Spec => []LimitsHold
<1>1. IndInv => LimitsHold
  <2> SUFFICES ASSUME IndInv PROVE LimitsHold
    OBVIOUS
  <2> USE DEF IndInv, TypeOK
  <2>1. Cardinality(At({"counted", "serving"})) <= MaxGlobal
    <3>1. At({"counted", "serving"}) \subseteq Counted /\ IsFiniteSet(Counted)
      BY StagesFinite DEF At, Counted
    <3>2. /\ Cardinality(At({"counted", "serving"})) <= Cardinality(Counted)
          /\ Cardinality(Counted) = Cardinality(At({"counted", "serving"})) =>
               Counted = At({"counted", "serving"})
      BY <3>1, FS_Subset
    <3>3. (\E c \in Conn : pc[c] = "over") => At({"counted", "serving"}) # Counted
      BY DEF At, Counted
    <3>4. global = Cardinality(Counted)
      BY DEF CountersExact, Counted
    <3>5. Cardinality(At({"counted", "serving"})) \in Nat
      BY StagesFinite, FS_CardinalityType
    <3>6. QED
      BY <3>2, <3>3, <3>4, <3>5, LimitAssumption DEF BoundInv
  <2>2. ASSUME NEW i \in Ip PROVE Cardinality(AtIp(i, {"serving"})) <= MaxPerIp
    <3>1. AtIp(i, {"serving"}) \subseteq Mapped(i) /\ IsFiniteSet(Mapped(i))
      BY StagesFinite DEF At, AtIp, Mapped
    <3>2. Cardinality(AtIp(i, {"serving"})) <= Cardinality(Mapped(i))
      BY <3>1, FS_Subset
    <3>3. perIp[i] = Cardinality(Mapped(i))
      BY DEF CountersExact, Mapped
    <3>4. Cardinality(AtIp(i, {"serving"})) \in Nat
      BY StagesFinite, FS_CardinalityType
    <3>5. QED
      BY <3>2, <3>3, <3>4, LimitAssumption DEF BoundInv
  <2>3. QED
    BY <2>1, <2>2 DEF LimitsHold
<1>2. QED
  BY <1>1, Invariance, PTL

\* Whoever holds the mutex between the two checks is the only one there, so
\* that the total it reads is the number of connections in service.
LEMMA AloneAtTheTotal ==
    ASSUME IndInv, NEW c \in Conn, pc[c] = "checked"
    PROVE  /\ Counted = At({"serving"})
           /\ \A d \in Conn : pc[d] # "over"
<1>1. \A d \in Conn : pc[d] \in {"checked", "counted", "over"} => d = c
  BY DEF IndInv, LockInv
<1>2. \A d \in Conn : pc[d] \notin {"counted", "over"}
  BY <1>1
<1>3. QED
  BY <1>2 DEF Counted, At

\* A connection is refused for the total (try_acquire, fetch_add and the
\* comparison) only with as many in service as are allowed: the count that a
\* refused one adds for a moment never refuses another.
THEOREM RefusedForFull == Spec => RefusedOnlyWhenFull
<1>1. ASSUME IndInv, [Next]_vars, NEW c \in Conn, pc[c] = "checked", pc'[c] = "over"
      PROVE  Cardinality(At({"serving"})) = MaxGlobal
  <2>1. CountGlobal(c)
    BY <1>1 DEF IndInv, TypeOK, Next, vars, Goto, Accept, RefuseIp, CheckIp, CountGlobal,
                RefuseGlobal, Admit, Drop, ReleaseIp
  <2>2. global >= MaxGlobal
    BY <1>1, <2>1 DEF CountGlobal, Goto, IndInv, TypeOK
  <2>3. Counted = At({"serving"}) /\ \A d \in Conn : pc[d] # "over"
    BY <1>1, AloneAtTheTotal
  <2>4. global <= MaxGlobal /\ global = Cardinality(Counted) /\ global \in Nat
    BY <1>1, <2>3 DEF IndInv, BoundInv, CountersExact, Counted, TypeOK
  <2>5. QED
    BY <2>2, <2>3, <2>4, LimitAssumption
<1>2. IndInv /\ [Next]_vars =>
          [\A c \in Conn : pc[c] = "checked" /\ pc'[c] = "over" =>
               Cardinality(At({"serving"})) = MaxGlobal]_vars
  BY <1>1
<1>3. QED
  BY <1>2, Invariance, PTL DEF Spec, RefusedOnlyWhenFull

-------------------------------------------------------------------------------
(* The throttle.                                                              *)

OutLocal ==
    /\ oClock \in Nat
    /\ oPc \in [Session -> {"idle", "checking", "passed", "recording"}]
    /\ oStamp \in [Session -> Nat]
    /\ \A s \in Session : oStamp[s] <= oClock

OutLogs ==
    /\ oLog \in [Spelling -> Seq(Nat)]
    /\ \A n \in Spelling : \A k \in DOMAIN oLog[n] :
           oLog[n][k] \in Nat /\ oLog[n][k] <= oClock
    /\ oEvents \in [Spelling -> SUBSET Nat]
    /\ \A n \in Spelling : oEvents[n] \subseteq DOMAIN oLog[n]

OutType == OutLocal /\ OutLogs

(* What was accepted under a name in the window up to now is on its list.     *)
OutKept == \A n \in Spelling : \A k \in DOMAIN oLog[n] :
    oLog[n][k] >= Outbound!WindowStart(oClock) => k \in oEvents[n]

(* What was accepted under a name in the window that starts at a, and who of  *)
(* that name is past the check and may still be accepted in that window.      *)
OutHour(n, a) == Outbound!AcceptedIn(n, a, a + OutWindow)
OutComing(n, a) ==
    {s \in Outbound!Sessions(n) :
        \/ oPc[s] = "passed" /\ oClock <= a + OutWindow
        \/ oPc[s] = "recording" /\ oStamp[s] \in a .. a + OutWindow}

(* Together they are never more than the cap and its slack: whoever passes    *)
(* the check counts all of the former, and is one of the latter from then on. *)
OutSlack == \A n \in Spelling, a \in Nat :
    Cardinality(OutHour(n, a)) + Cardinality(OutComing(n, a))
        <= OutMax + Cardinality(Outbound!Sessions(n)) - 1

OutInv == OutType /\ OutKept /\ OutSlack

(* What the assumptions on the throttle's constants come to.                  *)
LEMMA OutConstants ==
    /\ OutMax \in Nat /\ OutMax > 0 /\ OutWindow \in Nat /\ OutWindow > 0
    /\ NameOf \in [Session -> Spelling]
    /\ \A n \in Spelling : /\ IsFiniteSet(Outbound!Sessions(n))
                            /\ Cardinality(Outbound!Sessions(n)) \in Nat
<1>1. /\ {OutMax, OutWindow} \subseteq Nat \ {0} /\ IsFiniteSet(Session)
      /\ NameOf \in [Session -> Spelling]
  BY OutboundAssumption, OutboundCounts DEF Outbound!SessionAssumption, Outbound!LimitAssumption
<1>2. OutMax \in Nat \ {0} /\ OutWindow \in Nat \ {0}
  BY <1>1
<1>3. ASSUME NEW n \in Spelling
      PROVE  IsFiniteSet(Outbound!Sessions(n)) /\ Cardinality(Outbound!Sessions(n)) \in Nat
  <2>1. Outbound!Sessions(n) \subseteq Session
    BY DEF Outbound!Sessions
  <2>2. QED
    BY <1>1, <2>1, CardSub
<1>4. QED
  BY <1>1, <1>2, <1>3

(* At the start nobody has sent anything.                                     *)
LEMMA OutInit == Outbound!Init => OutInv
<1> SUFFICES ASSUME Outbound!Init PROVE OutInv
  OBVIOUS
<1> USE OutConstants DEF Outbound!Init
<1>1. OutType
  BY DEF OutType, OutLocal, OutLogs
<1>2. OutKept
  BY DEF OutKept
<1>3. ASSUME NEW n \in Spelling, NEW a \in Nat
      PROVE  OutHour(n, a) = {} /\ OutComing(n, a) = {}
  BY DEF OutHour, Outbound!AcceptedIn, OutComing, Outbound!Sessions
<1>4. Cardinality({}) = 0
  BY FS_EmptySet
<1>5. ASSUME NEW n \in Spelling, NEW a \in Nat
      PROVE  Cardinality(OutHour(n, a)) + Cardinality(OutComing(n, a)) = 0
  <2>1. Cardinality(OutHour(n, a)) = 0 /\ Cardinality(OutComing(n, a)) = 0
    BY <1>3, <1>4
  <2>2. QED
    BY <2>1
<1>6. OutSlack
  BY <1>5 DEF OutSlack
<1>7. QED
  BY <1>1, <1>2, <1>6 DEF OutInv

(* Every step of the throttle (ratelimit.rs, check_outbound and               *)
(* record_outbound) keeps the types.                                          *)
LEMMA OutTypeStep == OutType /\ [Outbound!Next]_oVars => OutType'
<1> SUFFICES ASSUME OutType, [Outbound!Next]_oVars PROVE OutType'
  OBVIOUS
<1>1. OutLocal'
  <2> USE DEF OutType, OutLocal
  <2>1. CASE Outbound!Tick
    BY <2>1 DEF Outbound!Tick
  <2>2. ASSUME NEW s \in Session, Outbound!StartRcpt(s) \/ Outbound!StartRecord(s)
        PROVE  OutLocal'
    BY <2>2 DEF Outbound!StartRcpt, Outbound!StartRecord
  <2>3. ASSUME NEW s \in Session, Outbound!Refuse(s) \/ Outbound!Pass(s) \/ Outbound!Record(s)
        PROVE  OutLocal'
    BY <2>3 DEF Outbound!Refuse, Outbound!Pass, Outbound!Record
  <2>4. CASE UNCHANGED oVars
    BY <2>4 DEF oVars
  <2>5. QED
    BY <2>1, <2>2, <2>3, <2>4 DEF Outbound!Next
<1>2. CASE oLog' = oLog /\ oEvents' = oEvents
  <2>1. oClock \in Nat /\ (oClock' = oClock \/ oClock' = oClock + 1)
    BY DEF OutType, OutLocal, Outbound!Next, Outbound!Tick, Outbound!StartRcpt, Outbound!Refuse,
           Outbound!Pass, Outbound!StartRecord, Outbound!Record, oVars
  <2>2. OutLogs'
    BY <1>2, <2>1 DEF OutType, OutLogs
  <2>3. QED
    BY <1>1, <2>2 DEF OutType
<1>3. ASSUME NEW s \in Session, Outbound!Record(s) PROVE OutType'
  <2> DEFINE n == NameOf[s]
             pos == Len(oLog[n]) + 1
  <2>1. n \in Spelling /\ oLog[n] \in Seq(Nat) /\ oStamp[s] \in Nat /\ oStamp[s] <= oClock
    BY OutConstants DEF OutType, OutLocal, OutLogs
  <2>2. /\ Append(oLog[n], oStamp[s]) \in Seq(Nat) /\ pos \in Nat
        /\ DOMAIN Append(oLog[n], oStamp[s]) = DOMAIN oLog[n] \union {pos}
        /\ Append(oLog[n], oStamp[s])[pos] = oStamp[s]
        /\ \A k \in DOMAIN oLog[n] : Append(oLog[n], oStamp[s])[k] = oLog[n][k]
    BY <2>1, Appended
  <2>3. /\ oLog' = [oLog EXCEPT ![n] = Append(oLog[n], oStamp[s])]
        /\ oEvents' = [oEvents EXCEPT ![n] = Outbound!Recent(n, oStamp[s]) \union {pos}]
        /\ oClock' = oClock
    BY <1>3 DEF Outbound!Record
  <2>4. Outbound!Recent(n, oStamp[s]) \subseteq oEvents[n]
    BY DEF Outbound!Recent
  <2> HIDE DEF n, pos
  <2>5. OutLogs'
    BY <2>1, <2>2, <2>3, <2>4 DEF OutType, OutLogs
  <2>6. QED
    BY <1>1, <2>5 DEF OutType
<1>4. QED
  BY <1>2, <1>3 DEF Outbound!Next, Outbound!Tick, Outbound!StartRcpt, Outbound!Refuse,
                    Outbound!Pass, Outbound!StartRecord, oVars

(* What is pruned from a user's list is older than the window, whichever      *)
(* reading of the clock the call that prunes has taken.                       *)
LEMMA OutKeptStep == OutType /\ OutKept /\ [Outbound!Next]_oVars => OutKept'
<1> SUFFICES ASSUME OutType, OutKept, [Outbound!Next]_oVars PROVE OutKept'
  OBVIOUS
<1> USE OutConstants DEF OutType, OutLocal, OutLogs, OutKept, Outbound!WindowStart
<1>1. CASE Outbound!Tick
  BY <1>1 DEF Outbound!Tick
<1>2. ASSUME NEW s \in Session, Outbound!StartRcpt(s) \/ Outbound!StartRecord(s) PROVE OutKept'
  BY <1>2 DEF Outbound!StartRcpt, Outbound!StartRecord
<1>3. ASSUME NEW s \in Session, Outbound!Refuse(s) \/ Outbound!Pass(s) PROVE OutKept'
  BY <1>3 DEF Outbound!Refuse, Outbound!Pass
<1>4. ASSUME NEW s \in Session, Outbound!Record(s) PROVE OutKept'
  BY <1>4 DEF Outbound!Record, Outbound!Recent
<1>5. CASE UNCHANGED oVars
  BY <1>5 DEF oVars
<1>6. QED
  BY <1>1, <1>2, <1>3, <1>4, <1>5 DEF Outbound!Next

(* No step of the throttle lets an hour and what is coming exceed the cap by  *)
(* more than one recipient for each further session.                          *)
LEMMA OutSlackStep ==
    OutInv /\ OutType' /\ [Outbound!Next]_oVars => OutSlack'
<1> SUFFICES ASSUME OutInv, OutType', [Outbound!Next]_oVars,
                    NEW n \in Spelling, NEW a \in Nat
             PROVE  Cardinality(OutHour(n, a)') + Cardinality(OutComing(n, a)')
                        <= OutMax + Cardinality(Outbound!Sessions(n)) - 1
  BY DEF OutSlack
<1> USE OutConstants
<1> DEFINE Before == Cardinality(OutHour(n, a)) + Cardinality(OutComing(n, a))
           After  == Cardinality(OutHour(n, a)') + Cardinality(OutComing(n, a)')
<1>1. IsFiniteSet(OutHour(n, a)) /\ IsFiniteSet(OutHour(n, a)')
  BY PositionsFinite DEF OutInv, OutType, OutLocal, OutLogs, OutHour, Outbound!AcceptedIn
<1>2. /\ OutComing(n, a) \subseteq Outbound!Sessions(n)
      /\ OutComing(n, a)' \subseteq Outbound!Sessions(n)
  BY DEF OutComing
<1>3. /\ IsFiniteSet(OutComing(n, a)) /\ IsFiniteSet(OutComing(n, a)')
      /\ Cardinality(OutComing(n, a)') <= Cardinality(Outbound!Sessions(n))
      /\ Cardinality(OutComing(n, a)) \in Nat /\ Cardinality(OutComing(n, a)') \in Nat
  BY <1>2, CardSub
<1>4. Cardinality(OutHour(n, a)) \in Nat /\ Cardinality(OutHour(n, a)') \in Nat
  BY <1>1, FS_CardinalityType
<1>5. Before <= OutMax + Cardinality(Outbound!Sessions(n)) - 1
  BY DEF OutInv, OutSlack
(* Most steps add to neither set. *)
<1>6. ASSUME OutHour(n, a)' \subseteq OutHour(n, a), OutComing(n, a)' \subseteq OutComing(n, a)
      PROVE  After <= Before
  <2>1. Cardinality(OutHour(n, a)') <= Cardinality(OutHour(n, a))
    BY <1>1, <1>6, CardSub
  <2>2. Cardinality(OutComing(n, a)') <= Cardinality(OutComing(n, a))
    BY <1>3, <1>6, CardSub
  <2>3. QED
    BY <1>3, <1>4, <2>1, <2>2
<1> USE DEF OutInv, OutType, OutLocal, OutLogs
<1>7. ASSUME Outbound!Tick PROVE After <= Before
  <2>1. OutHour(n, a)' = OutHour(n, a) /\ OutComing(n, a)' \subseteq OutComing(n, a)
    BY <1>7 DEF Outbound!Tick, OutHour, Outbound!AcceptedIn, OutComing
  <2>2. QED
    BY <1>6, <2>1
<1>8. ASSUME NEW s \in Session,
             Outbound!StartRcpt(s) \/ Outbound!Refuse(s) \/ Outbound!StartRecord(s)
      PROVE  After <= Before
  <2>1. OutHour(n, a)' = OutHour(n, a)
    BY <1>8 DEF Outbound!StartRcpt, Outbound!Refuse, Outbound!StartRecord,
                OutHour, Outbound!AcceptedIn
  <2>2. ASSUME NEW t \in OutComing(n, a)' PROVE t \in OutComing(n, a)
    <3>1. t = s => Outbound!StartRecord(s)
      BY <1>8 DEF Outbound!StartRcpt, Outbound!Refuse, OutComing, Outbound!Sessions
    <3>2. CASE t # s
      BY <1>8, <3>2 DEF Outbound!StartRcpt, Outbound!Refuse, Outbound!StartRecord, OutComing,
                        Outbound!Sessions
    <3>3. CASE t = s
      BY <3>1, <3>3 DEF Outbound!StartRecord, OutComing, Outbound!Sessions
    <3>4. QED
      BY <3>2, <3>3
  <2>3. QED
    BY <1>6, <2>1, <2>2
(* Who passes the check within the window has counted what is in it. *)
<1>9. ASSUME NEW s \in Session, Outbound!Pass(s)
      PROVE  After <= OutMax + Cardinality(Outbound!Sessions(n)) - 1
  <2>1. OutHour(n, a)' = OutHour(n, a)
    BY <1>9 DEF Outbound!Pass, OutHour, Outbound!AcceptedIn
  <2>2. CASE oClock > a + OutWindow \/ NameOf[s] # n
    <3>1. OutComing(n, a)' \subseteq OutComing(n, a)
      BY <1>9, <2>2 DEF Outbound!Pass, OutComing, Outbound!Sessions
    <3>2. After <= Before
      BY <1>6, <2>1, <3>1
    <3> HIDE DEF OutInv, OutType, OutLocal, OutLogs
    <3>3. QED
      BY <1>3, <1>4, <1>5, <3>2
  <2>3. CASE oClock <= a + OutWindow /\ NameOf[s] = n
    <3>1. OutHour(n, a) \subseteq Outbound!Recent(n, oStamp[s])
      <4> SUFFICES ASSUME NEW k \in OutHour(n, a) PROVE k \in Outbound!Recent(n, oStamp[s])
        OBVIOUS
      <4>1. k \in DOMAIN oLog[n] /\ oLog[n][k] \in Nat /\ oLog[n][k] >= a
        BY DEF OutHour, Outbound!AcceptedIn
      <4>2. oStamp[s] \in Nat /\ oStamp[s] <= oClock /\ oClock \in Nat
        OBVIOUS
      <4> HIDE DEF OutInv, OutType, OutLocal, OutLogs
      <4>3. oLog[n][k] >= Outbound!WindowStart(oClock)
        BY <2>3, <4>1, <4>2 DEF Outbound!WindowStart
      <4>4. oLog[n][k] >= Outbound!WindowStart(oStamp[s])
        BY <2>3, <4>1, <4>2 DEF Outbound!WindowStart
      <4>5. OutKept
        BY DEF OutInv
      <4>6. k \in oEvents[n]
        BY <4>1, <4>3, <4>5 DEF OutKept
      <4>7. QED
        BY <4>4, <4>6 DEF Outbound!Recent
    <3>2. IsFiniteSet(Outbound!Recent(n, oStamp[s]))
      BY PositionsFinite DEF Outbound!Recent
    <3>3. /\ Cardinality(OutHour(n, a)) <= Cardinality(Outbound!Recent(n, oStamp[s]))
          /\ Cardinality(Outbound!Recent(n, oStamp[s])) \in Nat
      BY <3>1, <3>2, CardSub
    <3>4. Cardinality(Outbound!Recent(n, oStamp[s])) + 1 <= OutMax
      BY <1>9, <2>3, OutboundCounts DEF Outbound!Pass, Outbound!UnderCap
    <3>5. QED
      <4> HIDE DEF OutInv, OutType, OutLocal, OutLogs
      <4>1. Cardinality(OutHour(n, a)') + 1 <= OutMax
        BY <1>4, <2>1, <3>3, <3>4
      <4>2. QED
        BY <1>3, <1>4, <4>1
  <2>4. QED
    BY <2>2, <2>3
(* Who records moves from the one set to the other. *)
<1>10. ASSUME NEW s \in Session, Outbound!Record(s)
       PROVE  After <= Before
  <2>1. CASE oStamp[s] \in a .. a + OutWindow /\ NameOf[s] = n
    <3>1. OutHour(n, a)' = OutHour(n, a) \union {Len(oLog[n]) + 1}
      BY <1>10, <2>1 DEF Outbound!Record, OutHour, Outbound!AcceptedIn
    <3>2. /\ OutComing(n, a)' \subseteq OutComing(n, a)
          /\ s \in OutComing(n, a) /\ s \notin OutComing(n, a)'
      <4>1. /\ oPc[s] = "recording" /\ oPc' = [oPc EXCEPT ![s] = "idle"]
            /\ oClock' = oClock /\ oStamp' = oStamp
            /\ oPc \in [Session -> {"idle", "checking", "passed", "recording"}]
        BY <1>10 DEF Outbound!Record
      <4> HIDE DEF OutInv, OutType, OutLocal, OutLogs
      <4>2. s \in OutComing(n, a)
        BY <2>1, <4>1 DEF OutComing, Outbound!Sessions
      <4>3. oPc'[s] = "idle" /\ \A t \in Session : t # s => oPc'[t] = oPc[t]
        BY <4>1
      <4>4. s \notin OutComing(n, a)'
        BY <4>3 DEF OutComing
      <4>5. OutComing(n, a)' \subseteq OutComing(n, a)
        BY <4>1, <4>3 DEF OutComing
      <4>6. QED
        BY <4>2, <4>4, <4>5
    <3>3. Cardinality(OutHour(n, a)') <= Cardinality(OutHour(n, a)) + 1
      BY <1>1, <3>1, CardAdd
    <3>4. Cardinality(OutComing(n, a)') <= Cardinality(OutComing(n, a)) - 1
      BY <1>3, <3>2, CardSub
    <3> HIDE DEF OutInv, OutType, OutLocal, OutLogs
    <3>5. QED
      BY <1>3, <1>4, <3>3, <3>4
  <2>2. CASE oStamp[s] \notin a .. a + OutWindow \/ NameOf[s] # n
    <3>1. OutHour(n, a)' \subseteq OutHour(n, a)
      BY <1>10, <2>2 DEF Outbound!Record, OutHour, Outbound!AcceptedIn
    <3>2. OutComing(n, a)' \subseteq OutComing(n, a)
      BY <1>10, <2>2 DEF Outbound!Record, OutComing
    <3>3. QED
      BY <1>6, <3>1, <3>2
  <2>3. QED
    BY <2>1, <2>2
<1>11. ASSUME UNCHANGED oVars PROVE After <= Before
  <2>1. OutHour(n, a)' = OutHour(n, a) /\ OutComing(n, a)' = OutComing(n, a)
    BY <1>11 DEF oVars, OutHour, Outbound!AcceptedIn, OutComing
  <2>2. QED
    BY <1>6, <2>1
<1>12. After <= Before \/ After <= OutMax + Cardinality(Outbound!Sessions(n)) - 1
  <2> HIDE DEF OutInv, OutType, OutLocal, OutLogs, Before, After
  <2>1. QED
    BY <1>5, <1>7, <1>8, <1>9, <1>10, <1>11 DEF Outbound!Next
<1>13. QED
  <2> HIDE DEF OutInv, OutType, OutLocal, OutLogs
  <2>1. QED
    BY <1>3, <1>4, <1>5, <1>12

(* The throttle as one of the limits: its own steps and nobody else's.        *)
LEMMA OutPart ==
    /\ LimitsInit => Outbound!Init
    /\ [LimitsNext]_<<part, vars, aVars, oVars, gVars, qVars>> => [Outbound!Next]_oVars
<1>1. LimitsInit => Outbound!Init
  BY DEF LimitsInit
<1>2. ASSUME [LimitsNext]_<<part, vars, aVars, oVars, gVars, qVars>> PROVE [Outbound!Next]_oVars
  BY <1>2 DEF LimitsNext
<1>3. QED
  BY <1>1, <1>2

(* The invariant of the throttle in every behaviour of the sum.               *)
LEMMA OutInvariant == LimitsSpec => []OutInv
<1>1. OutInv /\ [Outbound!Next]_oVars => OutInv'
  BY OutTypeStep, OutKeptStep, OutSlackStep DEF OutInv
<1>2. LimitsInit => OutInv
  BY OutInit, OutPart
<1>3. OutInv /\ [LimitsNext]_<<part, vars, aVars, oVars, gVars, qVars>> => OutInv'
  BY <1>1, OutPart
<1>4. QED
  BY <1>2, <1>3, PTL DEF LimitsSpec

(* CapWithSlack for any sessions and spellings and any cap: within any window *)
(* a name as typed gets at most the cap, and one more for each further        *)
(* session logged in with it.  (An account has a budget for every spelling.)  *)
THEOREM ThrottleCap == LimitsSpec => []CapWithSlack
<1>1. OutInv => CapWithSlack
  <2> SUFFICES ASSUME OutInv, NEW n \in Spelling, NEW k \in DOMAIN oLog[n]
               PROVE  Cardinality(OutHour(n, oLog[n][k]))
                          <= OutMax + Cardinality(Outbound!Sessions(n)) - 1
    BY OutboundCounts
       DEF CapWithSlack, Outbound!CapWithSlack, OutHour
  <2>1. oLog[n][k] \in Nat
    BY DEF OutInv, OutType, OutLocal, OutLogs
  <2>2. OutComing(n, oLog[n][k]) \subseteq Outbound!Sessions(n)
    BY DEF OutComing
  <2>3. Cardinality(OutComing(n, oLog[n][k])) \in Nat
    BY <2>2, OutConstants, CardSub
  <2>4. IsFiniteSet(OutHour(n, oLog[n][k]))
    BY PositionsFinite DEF OutInv, OutType, OutLocal, OutLogs, OutHour, Outbound!AcceptedIn
  <2>5. Cardinality(OutHour(n, oLog[n][k])) \in Nat
    BY <2>4, FS_CardinalityType
  <2>6. QED
    BY <2>1, <2>3, <2>5, OutConstants DEF OutInv, OutSlack
<1>2. QED
  BY <1>1, OutInvariant, PTL

(* NothingForgotten for any window: who passes the check finds fewer than the *)
(* cap accepted under that name in the window up to now.                      *)
THEOREM ThrottleCountsAll == LimitsSpec => NothingForgotten
<1> DEFINE Fewer == \A s \in Session : oPc[s] = "checking" /\ oPc'[s] = "passed" =>
                       Outbound!Cardinality(
                           Outbound!AcceptedIn(NameOf[s],
                               Outbound!WindowStart(oClock), oClock)) < OutMax
<1>1. OutInv /\ [Outbound!Next]_oVars => Fewer
  <2> SUFFICES ASSUME OutInv, [Outbound!Next]_oVars, NEW s \in Session,
                      oPc[s] = "checking", oPc'[s] = "passed"
               PROVE  Cardinality(Outbound!AcceptedIn(NameOf[s],
                                      Outbound!WindowStart(oClock), oClock)) < OutMax
    BY OutboundCounts
  <2> DEFINE Hour == Outbound!AcceptedIn(NameOf[s], Outbound!WindowStart(oClock), oClock)
  <2>1. Outbound!Pass(s)
    BY DEF OutInv, OutType, OutLocal, OutLogs, Outbound!Next, Outbound!Tick,
           Outbound!StartRcpt, Outbound!Refuse, Outbound!Pass, Outbound!StartRecord,
           Outbound!Record, oVars
  <2>2. ASSUME NEW k \in Hour PROVE k \in Outbound!Recent(NameOf[s], oStamp[s])
    <3>1. /\ NameOf[s] \in Spelling /\ k \in DOMAIN oLog[NameOf[s]]
          /\ oLog[NameOf[s]][k] \in Nat
          /\ oLog[NameOf[s]][k] >= Outbound!WindowStart(oClock)
      BY OutConstants DEF OutInv, OutType, OutLocal, OutLogs, Outbound!AcceptedIn,
                          Outbound!WindowStart
    <3>2. k \in oEvents[NameOf[s]]
      BY <3>1 DEF OutInv, OutKept
    <3>3. oStamp[s] \in Nat /\ oClock \in Nat /\ oStamp[s] <= oClock
      BY DEF OutInv, OutType, OutLocal, OutLogs
    <3>4. oLog[NameOf[s]][k] >= Outbound!WindowStart(oStamp[s])
      BY <3>1, <3>3, OutConstants DEF Outbound!WindowStart
    <3>5. QED
      BY <3>2, <3>4 DEF Outbound!Recent
  <2>3. IsFiniteSet(Outbound!Recent(NameOf[s], oStamp[s]))
    <3>1. /\ NameOf[s] \in Spelling /\ oLog[NameOf[s]] \in Seq(Nat)
          /\ oEvents[NameOf[s]] \subseteq DOMAIN oLog[NameOf[s]]
      BY OutConstants DEF OutInv, OutType, OutLogs
    <3>2. Outbound!Recent(NameOf[s], oStamp[s]) \subseteq DOMAIN oLog[NameOf[s]]
      BY <3>1 DEF Outbound!Recent
    <3>3. QED
      BY <3>1, <3>2, PositionsFinite
  <2>4. Cardinality(Outbound!Recent(NameOf[s], oStamp[s])) + 1 <= OutMax
    BY <2>1, OutboundCounts DEF Outbound!Pass, Outbound!UnderCap
  <2>5. /\ Cardinality(Hour) <= Cardinality(Outbound!Recent(NameOf[s], oStamp[s]))
        /\ Cardinality(Hour) \in Nat /\ Cardinality(Outbound!Recent(NameOf[s], oStamp[s])) \in Nat
    BY <2>2, <2>3, CardSub
  <2>6. QED
    BY <2>4, <2>5, OutConstants
<1>2. OutInv /\ [LimitsNext]_<<part, vars, aVars, oVars, gVars, qVars>> => [Fewer]_oVars
  BY <1>1, OutPart
<1>3. LimitsSpec => [][Fewer]_oVars
  BY <1>2, OutInvariant, PTL DEF LimitsSpec
<1>4. QED
  BY <1>3 DEF NothingForgotten, Outbound!NothingForgotten, Outbound!vars, oVars
-------------------------------------------------------------------------------
(* The lockout.                                                               *)

AuthType ==
    /\ aClock \in Nat
    /\ aLog \in [Ip -> Seq(Nat)]
    /\ aFailures \in [Ip -> SUBSET Nat]
    /\ aLockout \in [Ip -> Nat]
    /\ aPc \in [Session -> Auth!Stage]
    /\ aStamp \in [Session -> Nat]
    /\ \A i \in Ip : aFailures[i] \subseteq DOMAIN aLog[i]
    /\ \A i \in Ip : Cardinality(aFailures[i]) < AuthMax
    /\ \A i \in Ip : \A k \in DOMAIN aLog[i] : aLog[i][k] <= aClock
    /\ \A s \in Session : aStamp[s] <= aClock
    /\ \A s \in Session : aPc[s] \in {"checking", "failing", "succeeding"} =>
                               aClock <= aStamp[s] + AuthLag

(* The failures of i with a time in the span that starts at a, and the        *)
(* connections that may still add one: those let in while the span lasts, and *)
(* those that record one of that time.                                        *)
Within(i, a) == Auth!FailuresIn(i, a, a + Auth!Span)
Coming(i, a) ==
    {s \in Auth!Sessions(i) : \/ aPc[s] = "allowed" /\ aClock <= a + Auth!Span
                              \/ aPc[s] = "failing" /\ aStamp[s] \in a .. a + Auth!Span}

(* Either the list still holds all of them, and it is shorter than Max; or    *)
(* the address is locked out for the rest of the span, and what has been and  *)
(* may still be recorded is within the budget.                                *)
Open(i, a) == Within(i, a) \subseteq aFailures[i]
Closed(i, a) ==
    /\ aClock >= a
    /\ aClock <= a + Auth!Span => aLockout[i] > a + Auth!Span
    /\ Cardinality(Within(i, a)) + Cardinality(Coming(i, a))
           <= AuthMax + Cardinality(Auth!Sessions(i)) - 1
AuthBudget == \A i \in Ip, a \in Nat : Open(i, a) \/ Closed(i, a)

(* A lockout is due to Max failures within a window that ended when it began. *)
Cause(i, k) ==
    /\ aLockout[i] = aLog[i][k] + AuthLockout
    /\ Cardinality(Auth!WindowAt(i, k)) >= AuthMax
AuthCause == \A i \in Ip : aLockout[i] > 0 => \E k \in DOMAIN aLog[i] : Cause(i, k)

AuthInv == AuthType /\ AuthBudget /\ AuthCause

(* What the assumptions on the lockout's constants come to.                   *)
LEMMA AuthConstants ==
    /\ AuthMax \in Nat /\ AuthMax > 0 /\ AuthWindow \in Nat /\ AuthWindow > 0
    /\ AuthLockout \in Nat /\ AuthLockout > 0 /\ AuthLag \in Nat
    /\ PeerOf \in [Session -> Ip]
    /\ Auth!Span \in Int
    /\ Auth!Span <= AuthWindow - AuthLag /\ Auth!Span <= AuthLockout - 1 - AuthLag
<1>1. /\ {AuthMax, AuthWindow, AuthLockout} \subseteq Nat \ {0}
      /\ {AuthLag, AuthClock, AuthTries} \subseteq Nat
      /\ PeerOf \in [Session -> Ip]
  BY AuthAssumption DEF Auth!SessionAssumption, Auth!LimitAssumption, Auth!BoundAssumption
<1>2. /\ AuthMax \in Nat \ {0} /\ AuthWindow \in Nat \ {0} /\ AuthLockout \in Nat \ {0}
      /\ AuthLag \in Nat
  BY <1>1
<1>3. QED
  BY <1>1, <1>2 DEF Auth!Span

(* Only finitely many sessions come from an address.                          *)
LEMMA AuthSessionsFinite ==
    \A i : /\ IsFiniteSet(Auth!Sessions(i))
           /\ Cardinality(Auth!Sessions(i)) \in Nat
<1> SUFFICES ASSUME NEW i
             PROVE  IsFiniteSet(Auth!Sessions(i)) /\ Cardinality(Auth!Sessions(i)) \in Nat
  OBVIOUS
<1>1. IsFiniteSet(Session)
  BY AuthAssumption, AuthCounts DEF Auth!SessionAssumption
<1>2. Auth!Sessions(i) \subseteq Session
  BY DEF Auth!Sessions
<1>3. QED
  BY <1>1, <1>2, CardSub

(* At the start there are no failures.                                        *)
LEMMA AuthInit == Auth!Init => AuthInv
<1> SUFFICES ASSUME Auth!Init PROVE AuthInv
  OBVIOUS
<1> USE AuthConstants DEF Auth!Init
<1>1. Cardinality({}) = 0
  BY FS_EmptySet
<1>2. AuthType
  BY <1>1 DEF AuthType, Auth!Stage
<1>3. AuthBudget
  BY DEF AuthBudget, Open, Within, Auth!FailuresIn
<1>4. AuthCause
  BY DEF AuthCause
<1>5. QED
  BY <1>2, <1>3, <1>4 DEF AuthInv

(* Pruning only takes away, and nothing that is recent.                       *)
LEMMA AuthPruned ==
    ASSUME AuthType, NEW i \in Ip, NEW now \in Nat
    PROVE  /\ Auth!Pruned(i, now) \subseteq aFailures[i]
           /\ IsFiniteSet(Auth!Pruned(i, now))
           /\ Cardinality(Auth!Pruned(i, now)) < AuthMax
           /\ Auth!PrunedLockout(i, now) \in {0, aLockout[i]}
           /\ aLockout[i] > now => Auth!PrunedLockout(i, now) = aLockout[i]
<1>1. Auth!Pruned(i, now) \subseteq aFailures[i]
  BY DEF AuthType, Auth!Pruned, Auth!Recent
<1>2. IsFiniteSet(aFailures[i])
  BY PositionsFinite DEF AuthType
<1>3. IsFiniteSet(Auth!Pruned(i, now)) /\ Cardinality(Auth!Pruned(i, now)) < AuthMax
  <2>1. Cardinality(aFailures[i]) < AuthMax
    BY DEF AuthType
  <2>2. QED
    BY <1>1, <1>2, <2>1, CardSub, AuthConstants
<1>4. QED
  BY <1>1, <1>3 DEF AuthType, Auth!PrunedLockout

(* Every step of the lockout (ratelimit.rs, check_allowed, record_failure,    *)
(* record_success) keeps the types.                                           *)
LEMMA AuthTypeStep == AuthType /\ [Auth!Next]_aVars => AuthType'
<1> SUFFICES ASSUME AuthType, [Auth!Next]_aVars PROVE AuthType'
  OBVIOUS
<1> USE AuthConstants DEF Auth!Stage
<1>1. CASE Auth!Tick
  <2>1. /\ aClock' = aClock + 1 /\ aClock \in Nat
        /\ UNCHANGED <<aFailures, aLockout, aPc, aStamp, aLog>>
    BY <1>1 DEF AuthType, Auth!Tick
  <2>2. ASSUME NEW i \in Ip, NEW k \in DOMAIN aLog[i] PROVE aLog[i][k] <= aClock + 1
    <3>1. aLog[i] \in Seq(Nat)
      BY DEF AuthType
    <3>2. aLog[i][k] <= aClock
      BY DEF AuthType
    <3>3. aLog[i][k] \in Nat
      BY <3>1
    <3>4. QED
      BY <2>1, <3>2, <3>3
  <2>3. ASSUME NEW s \in Session PROVE aStamp[s] <= aClock + 1
    BY <2>1 DEF AuthType
  <2>4. ASSUME NEW s \in Session, aPc[s] \in {"checking", "failing", "succeeding"}
        PROVE  aClock + 1 <= aStamp[s] + AuthLag
    BY <1>1, <2>1, <2>4 DEF AuthType, Auth!Tick
  <2>5. QED
    BY <2>1, <2>2, <2>3, <2>4 DEF AuthType
<1>2. ASSUME NEW s \in Session, NEW to \in Auth!Stage, NEW from, Auth!Call(s, from, to)
      PROVE  AuthType'
  BY <1>2 DEF AuthType, Auth!Call
<1>3. ASSUME NEW s \in Session, Auth!Abandon(s) PROVE AuthType'
  BY <1>3 DEF AuthType, Auth!Abandon
<1>4. ASSUME NEW s \in Session, Auth!CheckAllowed(s) PROVE AuthType'
  <2>1. aStamp[s] \in Nat
    BY DEF AuthType
  <2>2. ASSUME NEW i \in Ip
        PROVE  /\ aFailures'[i] \subseteq aFailures[i]
               /\ Cardinality(aFailures'[i]) < AuthMax
               /\ aLockout'[i] \in Nat
    <3>1. /\ aFailures'[i] = Auth!Pruned(i, aStamp[s])
          /\ aLockout'[i] = Auth!PrunedLockout(i, aStamp[s])
      BY <1>4 DEF Auth!CheckAllowed
    <3>2. aLockout[i] \in Nat
      BY DEF AuthType
    <3>3. QED
      BY <2>1, <3>1, <3>2, AuthPruned
  <2>3. /\ aFailures' \in [Ip -> SUBSET Nat] /\ aLockout' \in [Ip -> Nat]
        /\ aPc' \in [Session -> Auth!Stage]
    <3>1. aFailures' = [i \in Ip |-> aFailures'[i]] /\ aLockout' = [i \in Ip |-> aLockout'[i]]
      BY <1>4 DEF Auth!CheckAllowed
    <3>2. QED
      BY <1>4, <2>2, <3>1 DEF AuthType, Auth!CheckAllowed
  <2>4. \A t \in Session : aPc'[t] \in {"checking", "failing", "succeeding"} => aPc[t] = aPc'[t]
    BY <1>4 DEF AuthType, Auth!CheckAllowed
  <2>5. UNCHANGED <<aClock, aStamp, aLog>>
    BY <1>4 DEF Auth!CheckAllowed
  <2>6. QED
    BY <2>2, <2>3, <2>4, <2>5 DEF AuthType
<1>5. ASSUME NEW s \in Session, Auth!RecordFailure(s) PROVE AuthType'
  <2> DEFINE ip == PeerOf[s]
             now == aStamp[s]
             kept == Auth!Recent(ip, Auth!Pruned(ip, now), now)
             times == kept \union {Len(aLog[ip]) + 1}
  <2>1. now \in Nat /\ now <= aClock /\ ip \in Ip
    BY DEF AuthType
  <2>2. /\ aLog' = [aLog EXCEPT ![ip] = Append(@, now)]
        /\ aPc' = [aPc EXCEPT ![s] = "idle"]
        /\ UNCHANGED <<aClock, aStamp>>
    BY <1>5 DEF Auth!RecordFailure
  <2>3. aLog[ip] \in Seq(Nat) /\ aLog'[ip] = Append(aLog[ip], now)
    BY <2>1, <2>2 DEF AuthType
  <2>4. DOMAIN aLog'[ip] = DOMAIN aLog[ip] \union {Len(aLog[ip]) + 1}
    <3> HIDE DEF ip, now, kept, times
    <3>1. QED
      BY <2>1, <2>3, Appended
  <2>5. times \subseteq DOMAIN aLog'[ip] /\ times \subseteq Nat
    <3>1. kept \subseteq Auth!Pruned(ip, now)
      BY DEF Auth!Recent
    <3>2. Auth!Pruned(ip, now) \subseteq aFailures[ip]
      BY <2>1, AuthPruned
    <3>3. aFailures[ip] \subseteq DOMAIN aLog[ip]
      BY <2>1 DEF AuthType
    <3>4. times \subseteq DOMAIN aLog'[ip]
      BY <2>4, <3>1, <3>2, <3>3
    <3>5. DOMAIN aLog'[ip] \subseteq Nat
      BY <2>1, <2>3, Appended
    <3>6. QED
      BY <3>4, <3>5
  <2>6. aFailures' = [i \in Ip |-> IF i # ip THEN Auth!Pruned(i, now)
                                   ELSE IF Auth!Cardinality(times) >= AuthMax THEN {} ELSE times]
    BY <1>5 DEF Auth!RecordFailure
  <2>7. IsFiniteSet(times) /\ Cardinality(times) \in Nat
    <3>1. kept \subseteq Auth!Pruned(ip, now) /\ IsFiniteSet(Auth!Pruned(ip, now))
      BY <2>1, AuthPruned DEF Auth!Recent
    <3>2. IsFiniteSet(kept)
      BY <3>1, CardSub
    <3>3. QED
      BY <3>2, CardAdd
  <2>8. ASSUME NEW i \in Ip
        PROVE  /\ aFailures'[i] \in SUBSET Nat /\ aFailures'[i] \subseteq DOMAIN aLog'[i]
               /\ Cardinality(aFailures'[i]) < AuthMax
    <3>1. CASE i # ip
      BY <2>1, <2>2, <2>6, <3>1, AuthPruned DEF AuthType
    <3>2. CASE i = ip /\ Auth!Cardinality(times) >= AuthMax
      <4>1. aFailures'[i] = {} /\ Cardinality({}) = 0
        BY <2>6, <3>2, FS_EmptySet
      <4>2. QED
        BY <4>1
    <3>3. CASE i = ip /\ ~(Auth!Cardinality(times) >= AuthMax)
      <4>1. aFailures'[i] = times
        BY <2>6, <3>3
      <4>2. Cardinality(times) < AuthMax
        BY <2>7, <3>3, AuthCounts
      <4>3. QED
        BY <2>5, <3>3, <4>1, <4>2
    <3>4. QED
      BY <3>1, <3>2, <3>3
  <2>9. aLockout' \in [Ip -> Nat]
    <3>1. \A i \in Ip : Auth!PrunedLockout(i, now) \in Nat
      BY <2>1, AuthPruned DEF AuthType
    <3>2. QED
      BY <1>5, <2>1, <3>1 DEF Auth!RecordFailure
  <2>10. /\ aLog' \in [Ip -> Seq(Nat)]
         /\ \A i \in Ip : \A k \in DOMAIN aLog'[i] : aLog'[i][k] <= aClock'
    BY <2>1, <2>2, <2>3, <2>4 DEF AuthType
  <2>11. aFailures' \in [Ip -> SUBSET Nat]
    BY <2>5, <2>6, <2>8
  <2>12. QED
    BY <2>2, <2>8, <2>9, <2>10, <2>11 DEF AuthType
<1>6. ASSUME NEW s \in Session, Auth!RecordSuccess(s) PROVE AuthType'
  <2>1. aStamp[s] \in Nat /\ PeerOf[s] \in Ip
    BY DEF AuthType
  <2>2. /\ \A i \in Ip : aFailures'[i] \in {{}, Auth!Pruned(i, aStamp[s])}
        /\ \A i \in Ip : aLockout'[i] \in {0, Auth!PrunedLockout(i, aStamp[s])}
        /\ aFailures'[PeerOf[s]] = {}
        /\ aFailures' = [i \in Ip |-> aFailures'[i]] /\ aLockout' = [i \in Ip |-> aLockout'[i]]
        /\ aLog' = [aLog EXCEPT ![PeerOf[s]] = << >>]
        /\ aPc' = [aPc EXCEPT ![s] = "idle"]
        /\ UNCHANGED <<aClock, aStamp>>
    BY <1>6, <2>1 DEF Auth!RecordSuccess
  <2>3. Cardinality({}) = 0
    BY FS_EmptySet
  <2>4. ASSUME NEW i \in Ip
        PROVE  /\ aFailures'[i] \subseteq aFailures[i] /\ aLockout'[i] \in Nat
               /\ Cardinality(aFailures'[i]) < AuthMax
    <3>1. /\ aFailures'[i] = {} \/ aFailures'[i] = Auth!Pruned(i, aStamp[s])
          /\ aLockout'[i] = 0 \/ aLockout'[i] = Auth!PrunedLockout(i, aStamp[s])
      BY <2>2
    <3>2. aLockout[i] \in Nat
      BY DEF AuthType
    <3>3. /\ Auth!Pruned(i, aStamp[s]) \subseteq aFailures[i]
          /\ Auth!PrunedLockout(i, aStamp[s]) \in Nat
          /\ Cardinality(Auth!Pruned(i, aStamp[s])) < AuthMax
      <4>1. /\ Auth!Pruned(i, aStamp[s]) \subseteq aFailures[i]
            /\ Cardinality(Auth!Pruned(i, aStamp[s])) < AuthMax
            /\ Auth!PrunedLockout(i, aStamp[s]) \in {0, aLockout[i]}
        BY <2>1, AuthPruned
      <4>2. QED
        BY <3>2, <4>1
    <3>4. /\ aFailures'[i] \subseteq aFailures[i]
          /\ Cardinality(aFailures'[i]) < AuthMax
      <4>1. CASE aFailures'[i] = {}
        BY <2>3, <4>1, AuthConstants
      <4>2. CASE aFailures'[i] = Auth!Pruned(i, aStamp[s])
        BY <3>3, <4>2
      <4>3. QED
        BY <3>1, <4>1, <4>2
    <3>5. QED
      BY <3>1, <3>3, <3>4
  <2>5. /\ aLog' \in [Ip -> Seq(Nat)]
        /\ \A i \in Ip : \A k \in DOMAIN aLog'[i] : aLog'[i][k] <= aClock'
        /\ \A i \in Ip : aFailures[i] \subseteq DOMAIN aLog[i]
    BY <2>2 DEF AuthType
  <2>6. \A i \in Ip : aFailures'[i] \subseteq DOMAIN aLog'[i]
    <3>1. \A i \in Ip : i # PeerOf[s] => aLog'[i] = aLog[i]
      BY <2>2 DEF AuthType
    <3>2. QED
      BY <2>2, <2>4, <2>5, <3>1
  <2>7. aFailures' \in [Ip -> SUBSET Nat] /\ aLockout' \in [Ip -> Nat]
    BY <2>2, <2>4 DEF AuthType
  <2>8. aPc' \in [Session -> Auth!Stage]
    BY <2>2 DEF AuthType
  <2>9. QED
    BY <2>2, <2>4, <2>5, <2>6, <2>7, <2>8 DEF AuthType
<1>7. CASE UNCHANGED aVars
  BY <1>7 DEF AuthType, aVars
<1>8. QED
  BY <1>1, <1>2, <1>3, <1>4, <1>5, <1>6, <1>7
     DEF Auth!Next, Auth!StartAttempt, Auth!WrongPassword, Auth!RightPassword

(* What the budget counts is finite.                                          *)
LEMMA AuthCounted ==
    ASSUME AuthType, NEW i \in Ip, NEW a \in Nat
    PROVE  /\ IsFiniteSet(Within(i, a)) /\ Cardinality(Within(i, a)) \in Nat
           /\ Within(i, a) \subseteq aFailures[i] => Cardinality(Within(i, a)) <= AuthMax - 1
           /\ IsFiniteSet(Coming(i, a)) /\ Cardinality(Coming(i, a)) \in Nat
           /\ Coming(i, a) \subseteq Auth!Sessions(i)
<1>1. Within(i, a) \subseteq DOMAIN aLog[i] /\ aLog[i] \in Seq(Nat)
  BY DEF AuthType, Within, Auth!FailuresIn
<1>2. IsFiniteSet(Within(i, a)) /\ Cardinality(Within(i, a)) \in Nat
  BY <1>1, PositionsFinite, FS_CardinalityType
<1>3. ASSUME Within(i, a) \subseteq aFailures[i] PROVE Cardinality(Within(i, a)) <= AuthMax - 1
  <2>1. IsFiniteSet(aFailures[i]) /\ Cardinality(aFailures[i]) < AuthMax
    BY <1>1, PositionsFinite DEF AuthType
  <2>2. Cardinality(Within(i, a)) <= Cardinality(aFailures[i]) /\ Cardinality(aFailures[i]) \in Nat
    BY <1>3, <2>1, CardSub
  <2>3. QED
    BY <1>2, <2>1, <2>2, AuthConstants
<1>4. Coming(i, a) \subseteq Auth!Sessions(i)
  BY DEF Coming
<1>5. QED
  BY <1>2, <1>3, <1>4, AuthSessionsFinite, CardSub

(* Steps that leave the entry of i and its failures alone.                    *)
LEMMA AuthQuiet ==
    ASSUME AuthType, NEW i \in Ip, NEW a \in Nat, Open(i, a) \/ Closed(i, a),
           aLog'[i] = aLog[i], aFailures'[i] = aFailures[i], aLockout'[i] = aLockout[i],
           aClock' \in Nat, aClock' >= aClock, Coming(i, a)' \subseteq Coming(i, a)
    PROVE  Open(i, a)' \/ Closed(i, a)'
<1>1. Within(i, a)' = Within(i, a)
  BY DEF Within, Auth!FailuresIn
<1>2. CASE Open(i, a)
  BY <1>1, <1>2 DEF Open
<1>3. CASE Closed(i, a)
  <2>1. /\ Cardinality(Coming(i, a)') <= Cardinality(Coming(i, a))
        /\ Cardinality(Coming(i, a)') \in Nat /\ Cardinality(Coming(i, a)) \in Nat
    BY AuthCounted, CardSub
  <2>2. Cardinality(Within(i, a)') + Cardinality(Coming(i, a)')
            <= AuthMax + Cardinality(Auth!Sessions(i)) - 1
    BY <1>1, <1>3, <2>1, AuthCounted, AuthConstants, AuthSessionsFinite DEF Closed
  <2>3. aClock' >= a /\ (aClock' <= a + Auth!Span => aLockout'[i] > a + Auth!Span)
    BY <1>3, AuthConstants DEF Closed, AuthType
  <2>4. QED
    BY <2>2, <2>3 DEF Closed, Auth!Sessions
<1>4. QED
  BY <1>2, <1>3

(* After the window of a, nobody can add to the failures within the span.     *)
LEMMA AuthOver ==
    ASSUME AuthType, AuthType', NEW i \in Ip, NEW a \in Nat, aClock' = aClock,
           aClock > a + AuthWindow, Within(i, a)' \subseteq aFailures[i],
           Within(i, a)' = Within(i, a)
    PROVE  Closed(i, a)'
<1>1. Coming(i, a)' = {}
  <2> SUFFICES ASSUME NEW s \in Coming(i, a)' PROVE FALSE
    OBVIOUS
  <2>1. s \in Session
    BY DEF Coming, Auth!Sessions
  <2>2. CASE aPc'[s] = "allowed" /\ aClock' <= a + Auth!Span
    BY <2>2, AuthConstants DEF AuthType
  <2>3. CASE aPc'[s] = "failing" /\ aStamp'[s] \in a .. a + Auth!Span
    <3>1. aStamp'[s] \in Nat /\ aClock' <= aStamp'[s] + AuthLag /\ aClock \in Nat
      BY <2>1, <2>3 DEF AuthType
    <3>2. aStamp'[s] <= a + Auth!Span
      BY <2>3, AuthConstants
    <3>3. QED
      BY <3>1, <3>2, AuthConstants
  <2>4. QED
    BY <2>2, <2>3 DEF Coming
<1>2. Cardinality(Coming(i, a)') = 0
  BY <1>1, FS_EmptySet
<1>3. Cardinality(Within(i, a)') <= AuthMax - 1 /\ Cardinality(Within(i, a)') \in Nat
  BY AuthCounted
<1>4. Cardinality(Within(i, a)') + Cardinality(Coming(i, a)')
          <= AuthMax + Cardinality(Auth!Sessions(i)) - 1
  BY <1>2, <1>3, AuthConstants, AuthSessionsFinite
<1>5. aClock' >= a /\ ~(aClock' <= a + Auth!Span)
  BY AuthConstants DEF AuthType
<1>6. QED
  BY <1>4, <1>5 DEF Closed, Auth!Sessions

(* Steps that only prune the entry of i.                                      *)
LEMMA AuthPruning ==
    ASSUME AuthType, AuthType', NEW i \in Ip, NEW a \in Nat, Open(i, a) \/ Closed(i, a),
           NEW now \in Nat, now <= aClock, aClock' = aClock, aLog'[i] = aLog[i],
           aFailures'[i] = Auth!Pruned(i, now), aLockout'[i] = Auth!PrunedLockout(i, now),
           Closed(i, a) => Coming(i, a)' \subseteq Coming(i, a)
    PROVE  Open(i, a)' \/ Closed(i, a)'
<1>1. Within(i, a)' = Within(i, a)
  BY DEF Within, Auth!FailuresIn
<1>2. CASE Open(i, a)
  <2>1. CASE Within(i, a) \subseteq Auth!Pruned(i, now)
    BY <1>1, <2>1 DEF Open
  <2>2. CASE ~(Within(i, a) \subseteq Auth!Pruned(i, now))
    <3>1. PICK k \in Within(i, a) : k \notin Auth!Pruned(i, now)
      BY <2>2
    <3>2. k \in DOMAIN aLog[i] /\ aLog[i][k] \in Nat /\ aLog[i][k] >= a /\ k \in aFailures[i]
      BY <1>2, <3>1 DEF Open, Within, Auth!FailuresIn, AuthType
    <3>3. ~(aLog[i][k] >= Auth!WindowStart(now))
      BY <3>1, <3>2 DEF Auth!Pruned, Auth!Recent
    <3>4. aClock > a + AuthWindow
      BY <3>2, <3>3, AuthConstants DEF Auth!WindowStart, AuthType
    <3>5. QED
      BY <1>1, <1>2, <3>4, AuthOver DEF Open
  <2>3. QED
    BY <2>1, <2>2
<1>3. CASE Closed(i, a)
  <2>1. /\ Cardinality(Coming(i, a)') <= Cardinality(Coming(i, a))
        /\ Cardinality(Coming(i, a)') \in Nat /\ Cardinality(Coming(i, a)) \in Nat
    BY <1>3, AuthCounted, CardSub
  <2>2. Cardinality(Within(i, a)') + Cardinality(Coming(i, a)')
            <= AuthMax + Cardinality(Auth!Sessions(i)) - 1
    BY <1>1, <1>3, <2>1, AuthCounted, AuthConstants, AuthSessionsFinite DEF Closed
  <2>3. aClock' >= a /\ (aClock' <= a + Auth!Span => aLockout'[i] > a + Auth!Span)
    <3>1. aClock >= a /\ (aClock <= a + Auth!Span => aLockout[i] > a + Auth!Span)
      BY <1>3 DEF Closed
    <3>2. aClock \in Nat /\ aLockout[i] \in Nat
      BY DEF AuthType
    <3>3. aLockout[i] > now => aLockout'[i] = aLockout[i]
      BY AuthPruned
    <3>4. QED
      BY <3>1, <3>2, <3>3, AuthConstants
  <2>4. QED
    BY <2>2, <2>3 DEF Closed, Auth!Sessions
<1>4. QED
  BY <1>2, <1>3

(* No step takes an address beyond its budget.                                *)
LEMMA AuthBudgetStep ==
    AuthType /\ AuthType' /\ AuthBudget /\ [Auth!Next]_aVars => AuthBudget'
<1> SUFFICES ASSUME AuthType, AuthType', AuthBudget, [Auth!Next]_aVars,
                    NEW i \in Ip, NEW a \in Nat
             PROVE  Open(i, a)' \/ Closed(i, a)'
  BY DEF AuthBudget
<1> USE AuthConstants
<1>1. Open(i, a) \/ Closed(i, a)
  BY DEF AuthBudget
<1>2. aClock \in Nat /\ \A s \in Session : aStamp[s] \in Nat /\ aStamp[s] <= aClock
  BY DEF AuthType
<1>3. CASE Auth!Tick
  <2>1. Coming(i, a)' \subseteq Coming(i, a)
    BY <1>2, <1>3 DEF Auth!Tick, Coming, Auth!Sessions
  <2>2. QED
    BY <1>1, <1>2, <1>3, <2>1, AuthQuiet DEF Auth!Tick
(* The wrong password of a connection let in too late is not of the span. *)
<1>4. ASSUME NEW s \in Session, Auth!StartAttempt(s) \/ Auth!Abandon(s)
             \/ Auth!WrongPassword(s) \/ Auth!RightPassword(s)
      PROVE  Open(i, a)' \/ Closed(i, a)'
  <2>1. /\ UNCHANGED <<aClock, aLog, aFailures, aLockout>>
        /\ \A t \in Session : t # s => aPc'[t] = aPc[t] /\ aStamp'[t] = aStamp[t]
    BY <1>4 DEF AuthType, Auth!StartAttempt, Auth!WrongPassword, Auth!RightPassword, Auth!Call,
                Auth!Abandon
  <2>2. aPc'[s] # "allowed"
        /\ (aPc'[s] = "failing" => aPc[s] = "allowed" /\ aStamp'[s] = aClock)
    BY <1>4 DEF AuthType, Auth!StartAttempt, Auth!WrongPassword, Auth!RightPassword, Auth!Call,
                Auth!Abandon
  <2>3. Coming(i, a)' \subseteq Coming(i, a)
    BY <1>2, <2>1, <2>2 DEF Coming, Auth!Sessions
  <2>4. QED
    BY <1>1, <1>2, <2>1, <2>3, AuthQuiet
(* During the lockout nobody else is let in. *)
<1>5. ASSUME NEW s \in Session, Auth!CheckAllowed(s) PROVE Open(i, a)' \/ Closed(i, a)'
  <2> DEFINE now == aStamp[s]
  <2>1. /\ aFailures'[i] = Auth!Pruned(i, now) /\ aLockout'[i] = Auth!PrunedLockout(i, now)
        /\ aClock' = aClock /\ aLog' = aLog /\ aStamp' = aStamp
    BY <1>5 DEF Auth!CheckAllowed
  <2>2. aPc'[s] \in {"idle", "allowed"} /\ \A t \in Session : t # s => aPc'[t] = aPc[t]
    BY <1>5 DEF AuthType, Auth!CheckAllowed
  <2>3. ASSUME Closed(i, a) PROVE Coming(i, a)' \subseteq Coming(i, a)
    <3>1. ASSUME s \in Coming(i, a)' PROVE FALSE
      <4>1. aPc'[s] = "allowed" /\ aClock <= a + Auth!Span /\ PeerOf[s] = i
        BY <2>1, <2>2, <3>1 DEF Coming, Auth!Sessions
      <4>2. aLockout[i] > now
        <5>1. aLockout[i] \in Nat /\ now \in Nat /\ now <= aClock
          BY <1>2 DEF AuthType
        <5>2. aLockout[i] > a + Auth!Span
          BY <2>3, <4>1 DEF Closed
        <5>3. QED
          BY <1>2, <4>1, <5>1, <5>2
      <4>3. aLockout'[i] = aLockout[i]
        BY <1>2, <2>1, <4>2, AuthPruned
      <4>4. aPc'[s] = "idle"
        BY <1>5, <4>1, <4>2, <4>3 DEF AuthType, Auth!CheckAllowed
      <4>5. QED
        BY <4>1, <4>4
    <3>2. QED
      BY <2>1, <2>2, <3>1 DEF Coming, Auth!Sessions
  <2>4. QED
    BY <1>1, <1>2, <2>1, <2>3, AuthPruning
<1>6. ASSUME NEW s \in Session, Auth!RecordFailure(s) PROVE Open(i, a)' \/ Closed(i, a)'
  <2> DEFINE now == aStamp[s]
             kept == Auth!Recent(i, Auth!Pruned(i, now), now)
             times == kept \union {Len(aLog[i]) + 1}
             locks == Auth!Cardinality(times) >= AuthMax
  <2>1. /\ now \in Nat /\ now <= aClock /\ aClock <= now + AuthLag
        /\ aPc[s] = "failing" /\ aClock' = aClock /\ aStamp' = aStamp
    BY <1>2, <1>6 DEF AuthType, Auth!RecordFailure
  <2>2. aPc'[s] = "idle" /\ \A t \in Session : t # s => aPc'[t] = aPc[t]
    BY <1>6 DEF AuthType, Auth!RecordFailure
  <2>3. Coming(i, a)' \subseteq Coming(i, a) /\ s \notin Coming(i, a)'
    BY <2>1, <2>2 DEF Coming, Auth!Sessions
  <2>4. CASE PeerOf[s] # i
    <3>1. /\ aFailures'[i] = Auth!Pruned(i, now) /\ aLockout'[i] = Auth!PrunedLockout(i, now)
          /\ aLog'[i] = aLog[i]
      BY <1>6, <2>4 DEF Auth!RecordFailure, AuthType
    <3>2. QED
      BY <1>1, <2>1, <2>3, <3>1, AuthPruning
  <2>5. CASE PeerOf[s] = i
    <3>1. /\ aFailures'[i] = IF locks THEN {} ELSE times
          /\ aLockout'[i] = IF locks THEN now + AuthLockout ELSE Auth!PrunedLockout(i, now)
          /\ aLog'[i] = Append(aLog[i], now) /\ aLog[i] \in Seq(Nat)
      BY <1>6, <2>5 DEF Auth!RecordFailure, AuthType
    <3>2. Within(i, a)' = IF now \in a .. a + Auth!Span
                          THEN Within(i, a) \union {Len(aLog[i]) + 1} ELSE Within(i, a)
      <4>1. DOMAIN aLog'[i] = DOMAIN aLog[i] \union {Len(aLog[i]) + 1}
        BY <2>1, <3>1, Appended
      <4>2. Len(aLog[i]) + 1 \notin DOMAIN aLog[i] /\ aLog'[i][Len(aLog[i]) + 1] = now
        BY <2>1, <3>1, Appended
      <4>3. \A k \in DOMAIN aLog[i] : aLog'[i][k] = aLog[i][k]
        BY <2>1, <3>1, Appended
      <4>4. QED
        BY <4>1, <4>2, <4>3 DEF Within, Auth!FailuresIn
    <3>3. s \in Auth!Sessions(i) /\ (now \in a .. a + Auth!Span => s \in Coming(i, a))
      BY <2>1, <2>5 DEF Coming, Auth!Sessions
    <3>4. /\ Cardinality(Within(i, a)') \in Nat /\ Cardinality(Within(i, a)) \in Nat
          /\ Cardinality(Within(i, a)') <= Cardinality(Within(i, a)) + 1
          /\ now \notin a .. a + Auth!Span => Within(i, a)' = Within(i, a)
      <4>1. IsFiniteSet(Within(i, a)) /\ Cardinality(Within(i, a)) \in Nat
        BY AuthCounted
      <4>2. Within(i, a)' = Within(i, a) \union {Len(aLog[i]) + 1}
            \/ Within(i, a)' = Within(i, a)
        BY <3>2
      <4>3. /\ Cardinality(Within(i, a)') \in Nat
            /\ Cardinality(Within(i, a)') <= Cardinality(Within(i, a)) + 1
        <5>1. CASE Within(i, a)' = Within(i, a) \union {Len(aLog[i]) + 1}
          BY <4>1, <5>1, CardAdd
        <5>2. CASE Within(i, a)' = Within(i, a)
          BY <4>1, <5>2
        <5>3. QED
          BY <4>2, <5>1, <5>2
      <4>4. QED
        BY <3>2, <4>1, <4>3
    <3>5. /\ Cardinality(Coming(i, a)') \in Nat /\ Cardinality(Coming(i, a)) \in Nat
          /\ Cardinality(Coming(i, a)') <= Cardinality(Coming(i, a))
          /\ now \in a .. a + Auth!Span =>
                 Cardinality(Coming(i, a)') <= Cardinality(Coming(i, a)) - 1
          /\ Cardinality(Coming(i, a)') <= Cardinality(Auth!Sessions(i)) - 1
      <4>1. Coming(i, a)' \subseteq Auth!Sessions(i) /\ s \notin Coming(i, a)'
        BY <2>3, AuthCounted
      <4>2. Cardinality(Coming(i, a)') <= Cardinality(Auth!Sessions(i)) - 1
        BY <3>3, <4>1, AuthSessionsFinite, CardSub
      <4>3. IsFiniteSet(Coming(i, a))
        BY AuthCounted
      <4>4. QED
        BY <2>3, <3>3, <4>2, <4>3, CardSub
    <3>6. Cardinality(Auth!Sessions(i)) \in Nat
      BY AuthSessionsFinite
    (* Locked out already, or locked out anew. *)
    <3>7. CASE Closed(i, a)
      <4>1. Cardinality(Within(i, a)') + Cardinality(Coming(i, a)')
                <= AuthMax + Cardinality(Auth!Sessions(i)) - 1
        <5>1. Cardinality(Within(i, a)) + Cardinality(Coming(i, a))
                  <= AuthMax + Cardinality(Auth!Sessions(i)) - 1
          BY <3>7 DEF Closed
        <5>2. CASE now \in a .. a + Auth!Span
          BY <3>4, <3>5, <3>6, <5>1, <5>2
        <5>3. CASE now \notin a .. a + Auth!Span
          BY <3>4, <3>5, <3>6, <5>1, <5>3
        <5>4. QED
          BY <5>2, <5>3
      <4>2. aClock >= a /\ (aClock <= a + Auth!Span => aLockout[i] > a + Auth!Span)
        BY <3>7 DEF Closed
      <4>3. aLockout[i] > now => Auth!PrunedLockout(i, now) = aLockout[i]
        BY <2>1, AuthPruned
      <4>4. aLockout[i] \in Nat
        BY DEF AuthType
      <4>5. aClock' <= a + Auth!Span => aLockout'[i] > a + Auth!Span
        <5>1. CASE locks
          <6>1. aLockout'[i] = now + AuthLockout
            BY <3>1, <5>1
          <6>2. QED
            BY <1>2, <2>1, <4>2, <6>1
        <5>2. CASE ~locks
          <6>1. aLockout'[i] = Auth!PrunedLockout(i, now)
            BY <3>1, <5>2
          <6>2. QED
            BY <1>2, <2>1, <4>2, <4>3, <4>4, <6>1
        <5>3. QED
          BY <5>1, <5>2
      <4>6. QED
        BY <2>1, <4>1, <4>2, <4>5 DEF Closed, Auth!Sessions
    (* The lockout falls: every failure so far was on the list. *)
    <3>8. CASE Open(i, a) /\ locks
      <4>1. CASE Within(i, a)' = {}
        BY <4>1 DEF Open
      <4>2. CASE Within(i, a)' # {}
        <5>1. PICK k \in DOMAIN aLog'[i] : aLog'[i][k] \in a .. a + Auth!Span
          BY <4>2 DEF Within, Auth!FailuresIn
        <5>2. aLog'[i][k] <= aClock' /\ aLog'[i][k] \in Nat
          BY <5>1 DEF AuthType
        <5>3. aClock' >= a
          BY <1>2, <2>1, <5>1, <5>2
        <5>4. Cardinality(Within(i, a)) <= AuthMax - 1
          BY <3>8, AuthCounted DEF Open
        <5>5. Cardinality(Within(i, a)') + Cardinality(Coming(i, a)')
                  <= AuthMax + Cardinality(Auth!Sessions(i)) - 1
          BY <3>4, <3>5, <3>6, <5>4
        <5>6. aLockout'[i] > a + Auth!Span
          BY <1>2, <2>1, <3>1, <3>8, <5>3
        <5>7. QED
          BY <5>3, <5>5, <5>6 DEF Closed, Auth!Sessions
      <4>3. QED
        BY <4>1, <4>2
    <3>9. CASE Open(i, a) /\ ~locks
      <4>1. CASE Within(i, a) \subseteq kept
        BY <3>1, <3>2, <3>9, <4>1 DEF Open
      <4>2. CASE ~(Within(i, a) \subseteq kept)
        <5>1. PICK k \in Within(i, a) : k \notin kept
          BY <4>2
        <5>2. k \in DOMAIN aLog[i] /\ aLog[i][k] \in Nat /\ aLog[i][k] >= a /\ k \in aFailures[i]
          BY <3>9, <5>1 DEF Open, Within, Auth!FailuresIn, AuthType
        <5>3. ~(aLog[i][k] >= Auth!WindowStart(now))
          BY <5>1, <5>2 DEF Auth!Pruned, Auth!Recent
        <5>4. now > a + AuthWindow
          BY <2>1, <5>2, <5>3 DEF Auth!WindowStart
        <5>5. now \notin a .. a + Auth!Span /\ aClock > a + AuthWindow
          BY <1>2, <2>1, <5>4
        <5>6. QED
          BY <2>1, <3>4, <3>9, <5>5, AuthOver DEF Open
      <4>3. QED
        BY <4>1, <4>2
    <3>10. QED
      BY <1>1, <3>7, <3>8, <3>9
  <2>6. QED
    BY <2>4, <2>5
<1>7. ASSUME NEW s \in Session, Auth!RecordSuccess(s) PROVE Open(i, a)' \/ Closed(i, a)'
  <2>1. CASE PeerOf[s] = i
    <3>1. aLog'[i] = << >>
      BY <1>7, <2>1 DEF Auth!RecordSuccess, AuthType
    <3>2. QED
      BY <3>1 DEF Open, Within, Auth!FailuresIn
  <2>2. CASE PeerOf[s] # i
    <3>1. /\ aFailures'[i] = Auth!Pruned(i, aStamp[s])
          /\ aLockout'[i] = Auth!PrunedLockout(i, aStamp[s])
          /\ aLog'[i] = aLog[i] /\ aClock' = aClock
      BY <1>7, <2>2 DEF Auth!RecordSuccess, AuthType
    <3>2. Coming(i, a)' \subseteq Coming(i, a)
      BY <1>7 DEF Auth!RecordSuccess, AuthType, Coming, Auth!Sessions
    <3>3. QED
      BY <1>1, <1>2, <3>1, <3>2, AuthPruning
  <2>3. QED
    BY <2>1, <2>2
<1>8. CASE UNCHANGED aVars
  <2>1. Open(i, a)' = Open(i, a) /\ Closed(i, a)' = Closed(i, a)
    BY <1>8 DEF aVars, Open, Closed, Within, Coming, Auth!FailuresIn, Auth!Sessions
  <2>2. QED
    BY <1>1, <2>1
<1>9. QED
  BY <1>3, <1>4, <1>5, <1>6, <1>7, <1>8 DEF Auth!Next

(* A lockout keeps its cause: what the list held when it fell is in the log,  *)
(* in the window up to then, until a success clears both.                     *)
LEMMA AuthCauseStep ==
    AuthType /\ AuthType' /\ AuthCause /\ [Auth!Next]_aVars => AuthCause'
<1> SUFFICES ASSUME AuthType, AuthType', AuthCause, [Auth!Next]_aVars,
                    NEW i \in Ip, aLockout'[i] > 0
             PROVE  \E k \in DOMAIN aLog'[i] : Cause(i, k)'
  BY DEF AuthCause
<1> USE AuthConstants
(* The log of i and its lockout stay. *)
<1>1. ASSUME aLog'[i] = aLog[i], aLockout'[i] = aLockout[i]
      PROVE  \E k \in DOMAIN aLog'[i] : Cause(i, k)'
  <2>1. PICK k \in DOMAIN aLog[i] : Cause(i, k)
    BY <1>1 DEF AuthCause
  <2>2. Auth!WindowAt(i, k)' = Auth!WindowAt(i, k)
    BY <1>1 DEF Auth!WindowAt, Auth!FailuresIn, Auth!WindowStart
  <2>3. QED
    BY <1>1, <2>1, <2>2 DEF Cause
<1>2. ASSUME NEW now \in Nat, aLog'[i] = aLog[i], aLockout'[i] = Auth!PrunedLockout(i, now)
      PROVE  \E k \in DOMAIN aLog'[i] : Cause(i, k)'
  <2>1. aLockout'[i] = aLockout[i]
    BY <1>2 DEF Auth!PrunedLockout, AuthType
  <2>2. QED
    BY <1>1, <1>2, <2>1
<1>3. CASE Auth!Tick
  BY <1>1, <1>3 DEF Auth!Tick, AuthType
<1>4. ASSUME NEW s \in Session, Auth!StartAttempt(s) \/ Auth!Abandon(s)
             \/ Auth!WrongPassword(s) \/ Auth!RightPassword(s)
      PROVE  \E k \in DOMAIN aLog'[i] : Cause(i, k)'
  BY <1>1, <1>4 DEF AuthType, Auth!StartAttempt, Auth!WrongPassword, Auth!RightPassword,
                    Auth!Call, Auth!Abandon
<1>5. ASSUME NEW s \in Session, Auth!CheckAllowed(s)
      PROVE  \E k \in DOMAIN aLog'[i] : Cause(i, k)'
  <2>1. aStamp[s] \in Nat
    BY DEF AuthType
  <2>2. QED
    BY <1>2, <1>5, <2>1 DEF Auth!CheckAllowed
<1>6. ASSUME NEW s \in Session, Auth!RecordFailure(s)
      PROVE  \E k \in DOMAIN aLog'[i] : Cause(i, k)'
  <2> DEFINE now == aStamp[s]
             kept == Auth!Recent(i, Auth!Pruned(i, now), now)
             last == Len(aLog[i]) + 1
             times == kept \union {last}
             locks == PeerOf[s] = i /\ Auth!Cardinality(times) >= AuthMax
  <2>1. now \in Nat /\ now <= aClock /\ aClock' = aClock /\ aClock \in Nat
    BY <1>6 DEF AuthType, Auth!RecordFailure
  <2>2. CASE ~locks
    <3>1. aLockout'[i] = Auth!PrunedLockout(i, now)
      BY <1>6, <2>2 DEF Auth!RecordFailure
    <3>2. CASE PeerOf[s] # i
      <4>1. aLog'[i] = aLog[i]
        BY <1>6, <3>2 DEF Auth!RecordFailure, AuthType
      <4>2. QED
        BY <1>2, <2>1, <3>1, <4>1
    <3>3. CASE PeerOf[s] = i
      <4>1. aLog'[i] = Append(aLog[i], now) /\ aLog[i] \in Seq(Nat)
        BY <1>6, <3>3 DEF Auth!RecordFailure, AuthType
      <4>2. aLockout'[i] = aLockout[i]
        BY <3>1 DEF Auth!PrunedLockout, AuthType
      <4>3. PICK k \in DOMAIN aLog[i] : Cause(i, k)
        BY <4>2 DEF AuthCause
      <4>4. /\ k \in DOMAIN aLog'[i] /\ aLog'[i][k] = aLog[i][k] /\ aLog'[i] \in Seq(Nat)
            /\ \A j \in DOMAIN aLog[i] : j \in DOMAIN aLog'[i] /\ aLog'[i][j] = aLog[i][j]
        <5>1. /\ aLog'[i] \in Seq(Nat) /\ DOMAIN aLog[i] \subseteq DOMAIN aLog'[i]
              /\ \A j \in DOMAIN aLog[i] : aLog'[i][j] = aLog[i][j]
          <6> HIDE DEF now
          <6>1. QED
            BY <2>1, <4>1, Appended
        <5>2. QED
          BY <4>3, <5>1
      <4>5. Auth!WindowAt(i, k) \subseteq Auth!WindowAt(i, k)'
        BY <4>4 DEF Auth!WindowAt, Auth!FailuresIn, Auth!WindowStart
      <4>6. Auth!WindowAt(i, k)' \subseteq DOMAIN aLog'[i]
        BY DEF Auth!WindowAt, Auth!FailuresIn
      <4>7. /\ Cardinality(Auth!WindowAt(i, k)) <= Cardinality(Auth!WindowAt(i, k)')
            /\ Cardinality(Auth!WindowAt(i, k)) \in Nat
            /\ Cardinality(Auth!WindowAt(i, k)') \in Nat
        BY <4>4, <4>5, <4>6, PositionsFinite, CardSub
      <4>8. Cardinality(Auth!WindowAt(i, k)) >= AuthMax
            /\ aLockout[i] = aLog[i][k] + AuthLockout
        BY <4>3 DEF Cause
      <4>9. Cause(i, k)'
        BY <4>2, <4>4, <4>7, <4>8 DEF Cause
      <4>10. QED
        BY <4>4, <4>9
    <3>4. QED
      BY <3>2, <3>3
  <2>3. CASE locks
    <3>1. /\ aLockout'[i] = now + AuthLockout
          /\ aLog'[i] = Append(aLog[i], now) /\ aLog[i] \in Seq(Nat)
      BY <1>6, <2>3 DEF Auth!RecordFailure, AuthType
    <3>2. /\ DOMAIN aLog'[i] = DOMAIN aLog[i] \union {last} /\ aLog'[i][last] = now
          /\ \A j \in DOMAIN aLog[i] : aLog'[i][j] = aLog[i][j]
          /\ aLog'[i] \in Seq(Nat)
      <4> DEFINE t == aLog'[i]
                 u == aLog[i]
      <4>1. t = Append(u, now) /\ u \in Seq(Nat) /\ last = Len(u) + 1
        BY <3>1
      <4> HIDE DEF t, u, now, last
      <4>2. /\ DOMAIN t = DOMAIN u \union {last} /\ t[last] = now
            /\ \A j \in DOMAIN u : t[j] = u[j]
            /\ t \in Seq(Nat)
        BY <2>1, <4>1, Appended
      <4>3. QED
        BY <4>2 DEF t, u
    <3> DEFINE start == Auth!WindowStart(now)
               After == {j \in DOMAIN aLog'[i] :
                            aLog'[i][j] \in start .. (now + AuthLag) /\ j <= last}
    <3>3. start \in Nat /\ start <= now /\ aClock <= now + AuthLag
      BY <1>6, <2>1 DEF Auth!WindowStart, Auth!RecordFailure, AuthType
    <3>4. kept \subseteq After
      <4> SUFFICES ASSUME NEW j \in kept PROVE j \in After
        OBVIOUS
      <4>1. j \in aFailures[i] /\ aLog[i][j] >= start
        BY DEF Auth!Pruned, Auth!Recent
      <4>2. j \in DOMAIN aLog[i] /\ aLog[i][j] \in Nat /\ aLog[i][j] <= aClock
        <5>1. j \in DOMAIN aLog[i]
          BY <4>1 DEF AuthType
        <5>2. aLog[i][j] <= aClock
          BY <5>1 DEF AuthType
        <5>3. QED
          BY <3>1, <5>1, <5>2
      <4>3. aLog[i] \in Seq(Nat)
        BY DEF AuthType
      <4>4. j <= last
        BY <4>2, <4>3
      <4>5. j \in DOMAIN aLog'[i] /\ aLog'[i][j] = aLog[i][j]
        BY <3>2, <4>2
      <4>6. aLog[i][j] \in start .. (now + AuthLag)
        BY <2>1, <3>3, <4>1, <4>2
      <4>7. QED
        BY <4>4, <4>5, <4>6
    <3>5. last \in After
      BY <2>1, <3>1, <3>2, <3>3
    <3>6. times \subseteq After /\ IsFiniteSet(After)
      BY <3>2, <3>4, <3>5, PositionsFinite
    <3>7. /\ Cardinality(times) <= Cardinality(After)
          /\ Cardinality(times) \in Nat /\ Cardinality(After) \in Nat
      BY <3>6, CardSub
    <3>8. Cardinality(After) >= AuthMax
      BY <2>3, <3>7, AuthCounts
    <3>9. PICK k : k = last
      OBVIOUS
    <3>10. k \in DOMAIN aLog'[i] /\ aLog'[i][k] = now
      BY <3>2, <3>9
    <3>11. Cause(i, k)'
      <4>1. Auth!WindowAt(i, k)' = After
        BY <3>9, <3>10 DEF Auth!WindowAt, Auth!FailuresIn, Auth!WindowStart
      <4>2. QED
        BY <3>1, <3>8, <3>10, <4>1 DEF Cause
    <3>12. QED
      BY <3>10, <3>11
  <2>4. QED
    BY <2>2, <2>3
<1>7. ASSUME NEW s \in Session, Auth!RecordSuccess(s)
      PROVE  \E k \in DOMAIN aLog'[i] : Cause(i, k)'
  <2>1. aStamp[s] \in Nat /\ PeerOf[s] # i
    BY <1>7 DEF AuthType, Auth!RecordSuccess
  <2>2. aLog'[i] = aLog[i] /\ aLockout'[i] = Auth!PrunedLockout(i, aStamp[s])
    BY <1>7, <2>1 DEF AuthType, Auth!RecordSuccess
  <2>3. QED
    BY <1>2, <2>1, <2>2
<1>8. CASE UNCHANGED aVars
  BY <1>1, <1>8 DEF aVars, AuthType
<1>9. QED
  BY <1>3, <1>4, <1>5, <1>6, <1>7, <1>8 DEF Auth!Next

(* The lockout as one of the limits.                                          *)
LEMMA AuthPart ==
    /\ LimitsInit => Auth!Init
    /\ [LimitsNext]_<<part, vars, aVars, oVars, gVars, qVars>> => [Auth!Next]_aVars
<1>1. LimitsInit => Auth!Init
  BY DEF LimitsInit
<1>2. ASSUME [LimitsNext]_<<part, vars, aVars, oVars, gVars, qVars>> PROVE [Auth!Next]_aVars
  BY <1>2 DEF LimitsNext
<1>3. QED
  BY <1>1, <1>2

(* The invariant of the lockout in every behaviour of the sum.                *)
LEMMA AuthInvariant == LimitsSpec => []AuthInv
<1>1. AuthInv /\ [Auth!Next]_aVars => AuthInv'
  BY AuthTypeStep, AuthBudgetStep, AuthCauseStep DEF AuthInv
<1>2. LimitsInit => AuthInv
  BY AuthInit, AuthPart
<1>3. AuthInv /\ [LimitsNext]_<<part, vars, aVars, oVars, gVars, qVars>> => AuthInv'
  BY <1>1, AuthPart
<1>4. QED
  BY <1>2, <1>3, PTL DEF LimitsSpec

(* GuessBudget for any number of connections and all thresholds: an address   *)
(* that does not log in gets at most Max wrong guesses per window, and one    *)
(* more for each further connection.                                          *)
THEOREM LockoutBudget == LimitsSpec => []GuessBudget
<1>1. AuthInv => GuessBudget
  <2> SUFFICES ASSUME AuthInv, NEW i \in Ip, NEW k \in DOMAIN aLog[i]
               PROVE  Cardinality(Within(i, aLog[i][k]))
                          <= AuthMax + Cardinality(Auth!Sessions(i)) - 1
    BY AuthCounts DEF GuessBudget, Auth!GuessBudget, Within
  <2> DEFINE a == aLog[i][k]
  <2>1. AuthType /\ a \in Nat
    BY DEF AuthInv, AuthType
  <2>2. Open(i, a) \/ Closed(i, a)
    BY <2>1 DEF AuthInv, AuthBudget
  <2>3. /\ Cardinality(Within(i, a)) \in Nat /\ Cardinality(Coming(i, a)) \in Nat
        /\ Cardinality(Auth!Sessions(i)) \in Nat
        /\ Open(i, a) => Cardinality(Within(i, a)) <= AuthMax - 1
    BY <2>1, AuthCounted, AuthSessionsFinite DEF Open
  <2>4. CASE Open(i, a)
    BY <2>3, <2>4, AuthConstants
  <2>5. CASE Closed(i, a)
    <3>1. Cardinality(Within(i, a)) + Cardinality(Coming(i, a))
              <= AuthMax + Cardinality(Auth!Sessions(i)) - 1
      BY <2>5 DEF Closed
    <3>2. QED
      BY <2>3, <3>1, AuthConstants
  <2>6. QED
    BY <2>2, <2>4, <2>5
<1>2. QED
  BY <1>1, AuthInvariant, PTL

(* RefusedForCause for any number of connections and all thresholds, the      *)
(* lockout shorter or longer than the window.                                 *)
THEOREM LockoutForCause == LimitsSpec => RefusedForCause
<1> DEFINE Justified == \A s \in Session : aPc[s] = "checking" /\ aPc'[s] = "idle" =>
               \E k \in DOMAIN aLog[PeerOf[s]] :
                   /\ aStamp[s] < aLog[PeerOf[s]][k] + AuthLockout
                   /\ Auth!Cardinality(Auth!WindowAt(PeerOf[s], k)) >= AuthMax
<1>1. AuthInv /\ [Auth!Next]_aVars => Justified
  <2> SUFFICES ASSUME AuthInv, [Auth!Next]_aVars, NEW s \in Session,
                      aPc[s] = "checking", aPc'[s] = "idle"
               PROVE  \E k \in DOMAIN aLog[PeerOf[s]] :
                          /\ aStamp[s] < aLog[PeerOf[s]][k] + AuthLockout
                          /\ Auth!Cardinality(Auth!WindowAt(PeerOf[s], k)) >= AuthMax
    OBVIOUS
  <2>1. Auth!CheckAllowed(s)
    BY DEF AuthInv, AuthType, Auth!Next, Auth!Tick, Auth!StartAttempt, Auth!CheckAllowed,
           Auth!Abandon, Auth!WrongPassword, Auth!RecordFailure, Auth!RightPassword,
           Auth!RecordSuccess, Auth!Call, aVars
  <2>2. aStamp[s] \in Nat /\ PeerOf[s] \in Ip /\ aLockout[PeerOf[s]] \in Nat
    BY AuthConstants DEF AuthInv, AuthType
  <2>3. aLockout'[PeerOf[s]] > aStamp[s]
    BY <2>1 DEF AuthInv, AuthType, Auth!CheckAllowed
  <2>4. aLockout'[PeerOf[s]] = Auth!PrunedLockout(PeerOf[s], aStamp[s])
    BY <2>1, <2>2 DEF Auth!CheckAllowed
  <2>5. aLockout[PeerOf[s]] > aStamp[s]
    BY <2>2, <2>3, <2>4 DEF Auth!PrunedLockout
  <2>6. PICK k \in DOMAIN aLog[PeerOf[s]] : Cause(PeerOf[s], k)
    BY <2>2, <2>5 DEF AuthInv, AuthCause
  <2>7. QED
    BY <2>5, <2>6, AuthCounts DEF Cause
<1>2. AuthInv /\ [LimitsNext]_<<part, vars, aVars, oVars, gVars, qVars>> => [Justified]_aVars
  BY <1>1, AuthPart
<1>3. LimitsSpec => [][Justified]_aVars
  BY <1>2, AuthInvariant, PTL DEF LimitsSpec
<1>4. QED
  BY <1>3 DEF RefusedForCause, Auth!RefusedForCause, Auth!vars, aVars

-------------------------------------------------------------------------------
(* Greylisting.                                                               *)

GreyType ==
    /\ gClock \in Nat
    /\ gFile \in [first : {Grey!NotThere, Grey!None} \union Nat, ok : {Grey!None} \union Nat]
    /\ gPc \in [Grey!Client -> Grey!Stage]
    /\ gStamp \in [Grey!Client -> Nat]
    /\ gEntry \in [GreySession -> [first : Nat, ok : Nat, decision : {"accept", "defer"}]]
    /\ gSeen \subseteq Nat
    /\ gDeferred \in Nat /\ gDeferred <= gClock
    /\ \A d \in gSeen : d <= gClock
    /\ \A s \in Grey!Client : gStamp[s] <= gClock

Writing(s) == gPc[s] \in {"create", "first", "ok"}

(* Somebody was seen at least the delay before t.                             *)
SeenBefore(t) == \E d \in gSeen : d + GreyDelay <= t

(* The fields in the file, and the fields that are about to be written, were  *)
(* true when they were made up, in whatever order they are written; and what  *)
(* was true of a time stays true of a later one.                              *)
GreyTrue ==
    /\ gFile.first >= 0 => gFile.first \in gSeen
    /\ gFile.ok > 0 => SeenBefore(gClock)
    /\ \A s \in GreySession : Writing(s) =>
           /\ gEntry[s].first \in gSeen
           /\ gEntry[s].ok > 0 \/ gEntry[s].decision = "accept" => SeenBefore(gClock)
    /\ gAccepted # Grey!NeverAccepted => SeenBefore(gAccepted.answered)

GreyInv == GreyType /\ GreyTrue

(* While sessions come one after another, and no write fails: f is the last   *)
(* first sight, and all before it are beyond the lifetime of an entry.  A     *)
(* stranger removes the file only when all of them are.                       *)
Newest(f) == f \in gSeen /\ \A d \in gSeen : d = f \/ f - d > GreyTtl + GreyGrace
Gone(t) == \A d \in gSeen : t - d > GreyTtl + GreyGrace

InOrder(s) ==
    /\ gDeferred <= gStamp[s] /\ \A d \in gSeen : d <= gStamp[s]
    /\ gPc[s] = "unlink" => Gone(gStamp[s])
    /\ gPc[s] \in {"prune", "check"} =>
           Newest(gFile.first) \/ (gFile.first < 0 /\ Gone(gStamp[s]))
    /\ Writing(s) =>
           /\ Newest(gEntry[s].first)
           /\ gEntry[s].decision = "defer" => gEntry[s].first = gStamp[s]
    /\ gPc[s] \in {"first", "ok"} => s \in gOpen
    /\ gPc[s] = "ok" => gFile.first = gEntry[s].first

GreyOrder ==
    ~gOverlap /\ gFaults = 0 =>
        /\ \A s, t \in GreySession : gPc[s] # "idle" /\ gPc[t] # "idle" => s = t
        /\ \A s \in GreySession : gPc[s] # "idle" => InOrder(s)
        /\ (\A s \in GreySession : gPc[s] = "idle") =>
               Newest(gFile.first) \/ (gFile.first < 0 /\ Gone(gClock))
        /\ \A o \in GreyStranger : gPc[o] = "unlink" =>
               /\ \A s \in GreySession : gPc[s] = "idle"
               /\ Gone(gStamp[o])
        /\ Grey!RetryAccepted

(* What the assumptions on the delays of greylisting come to.                 *)
LEMMA GreyConstants ==
    /\ GreyDelay \in Nat /\ GreyTtl \in Nat /\ GreyGrace \in Nat
    /\ GreySession \intersect GreyStranger = {}
BY GreyAssumption DEF Grey!LimitAssumption, Grey!SessionAssumption

(* At the start there is no file and no session.                              *)
LEMMA GreyInit == Grey!Init => GreyInv /\ GreyOrder /\ gFaults \in Nat
<1> SUFFICES ASSUME Grey!Init PROVE GreyInv /\ GreyOrder /\ gFaults \in Nat
  OBVIOUS
<1> USE DEF Grey!Init, Grey!Absent, Grey!None, Grey!NotThere, Grey!NoEntry
<1>1. GreyType
  BY DEF GreyType, Grey!Stage
<1>2. GreyTrue
  BY DEF GreyTrue, Writing, Grey!Client
<1>3. GreyOrder
  BY DEF GreyOrder, Grey!RetryAccepted, Gone, Grey!Client
<1>4. QED
  BY <1>1, <1>2, <1>3 DEF GreyInv

(* Every step of greylisting (spamscore.rs) keeps the types.                  *)
LEMMA GreyTypeStep == GreyType /\ [Grey!Next]_gVars => GreyType'
<1> SUFFICES ASSUME GreyType, [Grey!Next]_gVars PROVE GreyType'
  OBVIOUS
<1> USE DEF GreyType, Grey!Stage, Grey!None, Grey!NotThere, Grey!NoEntry, Grey!Goto,
            Grey!memVars, Grey!histVars, Grey!Client
<1>1. CASE Grey!Tick
  BY <1>1 DEF Grey!Tick
<1>2. ASSUME NEW s \in Grey!Client, Grey!Rcpt(s) \/ Grey!PruneRead(s) \/ Grey!PruneUnlink(s)
      PROVE  GreyType'
  <2>1. CASE Grey!Rcpt(s)
    BY <2>1 DEF Grey!Rcpt
  <2>2. CASE Grey!PruneRead(s)
    BY <2>2 DEF Grey!PruneRead, Grey!Pruned
  <2>3. CASE Grey!PruneUnlink(s)
    BY <2>3 DEF Grey!PruneUnlink, Grey!Pruned, Grey!Absent
  <2>4. QED
    BY <1>2, <2>1, <2>2, <2>3
<1>3. ASSUME NEW s \in GreySession, Grey!CheckAccept(s) PROVE GreyType'
  <2>1. gFile.first \in Nat
    BY <1>3 DEF Grey!CheckAccept, Grey!Known
  <2>2. QED
    BY <1>3, <2>1 DEF Grey!CheckAccept, Grey!Write
<1>4. ASSUME NEW s \in GreySession, Grey!CheckEarly(s) PROVE GreyType'
  BY <1>4 DEF Grey!CheckEarly, Grey!Answer
<1>5. ASSUME NEW s \in GreySession, Grey!CheckNew(s) PROVE GreyType'
  BY <1>5 DEF Grey!CheckNew, Grey!Write
<1>6. ASSUME NEW s \in GreySession, Grey!WriteCreate(s) \/ Grey!WriteFirst(s) PROVE GreyType'
  BY <1>6 DEF Grey!WriteCreate, Grey!WriteFirst, Grey!Truncated
<1>7. ASSUME NEW s \in GreySession, Grey!WriteOk(s) \/ Grey!WriteError(s) PROVE GreyType'
  <2>1. gFile' \in [first : {Grey!NotThere, Grey!None} \union Nat, ok : {Grey!None} \union Nat]
    <3>1. gEntry[s].ok \in Nat
      OBVIOUS
    <3>2. QED
      BY <1>7, <3>1 DEF Grey!WriteOk, Grey!WriteError
  <2>2. gDeferred' \in {gDeferred, gStamp[s]}
    BY <1>7 DEF Grey!WriteOk, Grey!WriteError, Grey!Answer
  <2>3. /\ gPc' = [gPc EXCEPT ![s] = "idle"] /\ gStamp' = [gStamp EXCEPT ![s] = 0]
        /\ gEntry' = [gEntry EXCEPT ![s] = Grey!NoEntry]
        /\ UNCHANGED <<gClock, gSeen>>
    BY <1>7 DEF Grey!WriteOk, Grey!WriteError, Grey!Answer
  <2>4. QED
    BY <2>1, <2>2, <2>3
<1>8. CASE Grey!Crash
  BY <1>8 DEF Grey!Crash
<1>9. CASE UNCHANGED gVars
  BY <1>9 DEF gVars
<1>10. QED
  BY <1>1, <1>2, <1>3, <1>4, <1>5, <1>6, <1>7, <1>8, <1>9 DEF Grey!Next

(* No step puts a first sight into the file, or into what a session read,     *)
(* that is not the time of a first sight.                                     *)
LEMMA GreyTrueStep == GreyInv /\ GreyType' /\ [Grey!Next]_gVars => GreyTrue'
<1> SUFFICES ASSUME GreyInv, GreyType', [Grey!Next]_gVars PROVE GreyTrue'
  OBVIOUS
<1> USE GreyConstants DEF GreyInv, GreyType, GreyTrue, Writing, Grey!Goto,
            Grey!memVars, Grey!histVars, Grey!Client
(* Time and further first sights keep what was seen before. *)
<1>1. ASSUME gClock' >= gClock, gSeen \subseteq gSeen', SeenBefore(gClock)
      PROVE  SeenBefore(gClock)'
  BY <1>1 DEF SeenBefore
<1>2. ASSUME gSeen \subseteq gSeen', SeenBefore(gAccepted.answered), gAccepted' = gAccepted
      PROVE  SeenBefore(gAccepted.answered)'
  BY <1>2 DEF SeenBefore
<1>3. CASE Grey!Tick
  BY <1>1, <1>2, <1>3 DEF Grey!Tick
<1>4. ASSUME NEW s \in Grey!Client, Grey!Rcpt(s) \/ Grey!PruneRead(s) \/ Grey!PruneUnlink(s)
      PROVE  GreyTrue'
  <2>1. /\ \A t \in GreySession : gPc'[t] \in {"create", "first", "ok"} => gPc'[t] = gPc[t]
        /\ gFile' \in {gFile, Grey!Absent}
        /\ UNCHANGED <<gClock, gEntry, gAccepted, gSeen>>
    BY <1>4 DEF Grey!Rcpt, Grey!PruneRead, Grey!PruneUnlink, Grey!Pruned
  <2>2. QED
    BY <1>1, <1>2, <2>1 DEF Grey!Absent, Grey!None, Grey!NotThere
<1>5. ASSUME NEW s \in GreySession, Grey!CheckAccept(s) PROVE GreyTrue'
  <2>1. SeenBefore(gClock)
    <3>1. gFile.ok > 0 \/ (gFile.first \in gSeen /\ Grey!Age(s) >= GreyDelay)
      BY <1>5 DEF Grey!CheckAccept, Grey!Known, Grey!Whitelisted, Grey!LastOk, Grey!Due,
                  Grey!Larger
    <3>2. CASE gFile.first \in gSeen /\ Grey!Age(s) >= GreyDelay
      <4>1. gFile.first \in Nat /\ gFile.first <= gClock /\ gStamp[s] \in Nat
            /\ gStamp[s] <= gClock /\ gClock \in Nat
        BY <3>2
      <4>2. gFile.first + GreyDelay <= gClock
        BY <3>2, <4>1 DEF Grey!Age, Grey!Larger
      <4>3. QED
        BY <3>2, <4>2 DEF SeenBefore
    <3>3. QED
      BY <3>1, <3>2
  <2>2. gFile.first \in gSeen
    BY <1>5 DEF Grey!CheckAccept, Grey!Known
  <2>3. QED
    BY <1>1, <1>2, <1>5, <2>1, <2>2 DEF Grey!CheckAccept, Grey!Write
<1>6. ASSUME NEW s \in GreySession, Grey!CheckEarly(s) PROVE GreyTrue'
  BY <1>1, <1>2, <1>6 DEF Grey!CheckEarly, Grey!Answer
<1>7. ASSUME NEW s \in GreySession, Grey!CheckNew(s) PROVE GreyTrue'
  BY <1>1, <1>2, <1>7 DEF Grey!CheckNew, Grey!Write
<1>8. ASSUME NEW s \in GreySession, Grey!WriteCreate(s) PROVE GreyTrue'
  BY <1>1, <1>2, <1>8 DEF Grey!WriteCreate, Grey!Truncated, Grey!None
<1>9. ASSUME NEW s \in GreySession, Grey!WriteFirst(s) PROVE GreyTrue'
  BY <1>1, <1>2, <1>9 DEF Grey!WriteFirst
<1>10. ASSUME NEW s \in GreySession, Grey!WriteOk(s) \/ Grey!WriteError(s) PROVE GreyTrue'
  <2>1. /\ gFile'.first = gFile.first /\ gFile'.ok \in {gFile.ok, gEntry[s].ok}
        /\ gClock' = gClock /\ gSeen' = gSeen
        /\ gAccepted' = gAccepted
           \/ (gEntry[s].decision = "accept" /\ gAccepted'.answered = gClock)
        /\ gPc' = [gPc EXCEPT ![s] = "idle"]
        /\ \A t \in GreySession : t # s => gEntry'[t] = gEntry[t]
        /\ Writing(s)
    BY <1>10 DEF Grey!WriteOk, Grey!WriteError, Grey!Answer
  <2>2. gAccepted' # Grey!NeverAccepted => SeenBefore(gAccepted.answered)'
    BY <2>1 DEF SeenBefore
  <2>3. QED
    BY <1>1, <2>1, <2>2
<1>11. CASE Grey!Crash
  BY <1>1, <1>2, <1>11 DEF Grey!Crash
<1>12. CASE UNCHANGED gVars
  BY <1>1, <1>2, <1>12 DEF gVars
<1>13. QED
  BY <1>3, <1>4, <1>5, <1>6, <1>7, <1>8, <1>9, <1>10, <1>11, <1>12 DEF Grey!Next

(* While the sessions come one after another and nothing fails, each keeps    *)
(* the order of the first sights.                                             *)
LEMMA GreyOrderStep ==
    GreyInv /\ GreyType' /\ GreyOrder /\ gFaults \in Nat /\ [Grey!Next]_gVars
        => GreyOrder' /\ gFaults' \in Nat
<1> SUFFICES ASSUME GreyInv, GreyType', GreyOrder, gFaults \in Nat, [Grey!Next]_gVars
             PROVE  GreyOrder' /\ gFaults' \in Nat
  OBVIOUS
<1> USE GreyConstants DEF Grey!Goto, Grey!memVars, Grey!histVars, Grey!RetryAccepted
<1> DEFINE Calm == ~gOverlap /\ gFaults = 0
           Still(t) == gPc[t] # "unlink" /\ (t \in GreySession => gPc[t] = "idle")
           Alone(s) == \A t \in Grey!Client : t # s => Still(t)
           Rests == Newest(gFile.first) \/ (gFile.first < 0 /\ Gone(gClock))
           Quiet == \A t \in Grey!Client : Still(t)
<1>0. /\ GreySession \subseteq Grey!Client /\ GreyStranger \subseteq Grey!Client
      /\ gClock \in Nat
      /\ gFile.first \in Int /\ gFile'.first \in Int
      /\ gSeen \subseteq Nat /\ gDeferred \in Nat
      /\ \A s \in Grey!Client : gStamp[s] \in Nat /\ gStamp[s] <= gClock
  BY DEF GreyInv, GreyType, Grey!None, Grey!NotThere, Grey!Client
<1> USE <1>0
<1>1. gFaults' \in Nat /\ (gFaults' = 0 => gFaults = 0)
  <2>1. gFaults' = gFaults \/ gFaults' = gFaults + 1
    BY DEF Grey!Next, Grey!Tick, Grey!Rcpt, Grey!PruneRead, Grey!PruneUnlink, Grey!CheckAccept,
           Grey!CheckEarly, Grey!CheckNew, Grey!Write, Grey!Answer, Grey!WriteCreate,
           Grey!WriteFirst, Grey!WriteOk, Grey!WriteError, Grey!Crash, gVars
  <2>2. QED
    BY <2>1
(* Who takes a step is the only one under way. *)
<1>2. ASSUME NEW s \in GreySession, Calm', gPc[s] # "idle", Calm
      PROVE  Alone(s) /\ InOrder(s)
  <2>1. ASSUME NEW t \in Grey!Client, t # s PROVE Still(t)
    BY <1>2, <2>1 DEF GreyOrder, Grey!Client
  <2>2. QED
    BY <1>2, <2>1 DEF GreyOrder
<1>3. ASSUME NEW s \in GreySession, Alone(s)', InOrder(s)', gPc'[s] # "idle",
             Grey!RetryAccepted'
      PROVE  GreyOrder'
  BY <1>3 DEF GreyOrder
<1>4. ASSUME Quiet', Rests', Grey!RetryAccepted' PROVE GreyOrder'
  BY <1>4 DEF GreyOrder
<1>5. CASE Grey!Tick
  <2>1. /\ gClock' = gClock + 1
        /\ UNCHANGED <<gFile, gPc, gStamp, gEntry, gOpen, gSeen, gDeferred, gOverlap, gFaults>>
    BY <1>5 DEF Grey!Tick
  <2>2. GreyOrder /\ (Calm' => Calm)
    BY <2>1
  <2>3. Gone(gClock) => Gone(gClock)'
    BY <2>1 DEF Gone
  <2>4. \A s \in GreySession : InOrder(s)' <=> InOrder(s)
    BY <2>1 DEF InOrder, Newest, Gone, Writing
  <2>5. QED
    BY <2>1, <2>2, <2>3, <2>4 DEF GreyOrder, Newest, Gone
<1>6. ASSUME NEW s \in GreySession, Grey!Rcpt(s) PROVE GreyOrder'
  <2> SUFFICES ASSUME Calm' PROVE GreyOrder'
    BY DEF GreyOrder
  <2>1. Calm /\ Quiet
    BY <1>1, <1>6 DEF Grey!Rcpt, Grey!UnderWay, GreyInv, GreyType, Grey!Client
  <2>2. Rests /\ Grey!RetryAccepted
    BY <2>1 DEF GreyOrder
  <2>3. Alone(s)' /\ gPc'[s] = "prune" /\ gStamp'[s] = gClock
        /\ UNCHANGED <<gClock, gFile, gSeen, gDeferred, gOpen>>
    BY <1>6, <2>1 DEF Grey!Rcpt, GreyInv, GreyType
  <2>4. Newest(gFile.first) \/ (gFile.first < 0 /\ Gone(gStamp'[s]))
    BY <2>2, <2>3
  <2>5. InOrder(s)'
    BY <2>3, <2>4 DEF InOrder, Newest, Gone, Writing, GreyInv, GreyType
  <2>6. Grey!RetryAccepted'
    BY <2>1, <2>2, <2>3
  <2>7. QED
    BY <1>3, <2>3, <2>5, <2>6
<1>7. ASSUME NEW s \in GreySession, Grey!PruneRead(s) PROVE GreyOrder'
  <2> SUFFICES ASSUME Calm' PROVE GreyOrder'
    BY DEF GreyOrder
  <2>1. Calm /\ gPc[s] = "prune"
    BY <1>1, <1>7 DEF Grey!PruneRead
  <2>2. Alone(s) /\ InOrder(s) /\ Grey!RetryAccepted
    BY <1>2, <2>1 DEF GreyOrder
  <2>3. /\ Alone(s)' /\ UNCHANGED <<gFile, gSeen, gDeferred, gOpen, gStamp>>
        /\ gPc'[s] = IF Grey!Stale(gFile.first, gStamp[s]) THEN "unlink" ELSE "check"
    BY <1>7, <2>1, <2>2 DEF Grey!PruneRead, Grey!Pruned, GreyInv, GreyType
  <2>4. gStamp[s] \in Nat /\ gSeen \subseteq Nat
    BY DEF GreyInv, GreyType
  <2>5. Grey!RetryAccepted'
    BY <2>1, <2>2, <2>3
  <2>6. CASE Grey!Stale(gFile.first, gStamp[s])
    <3>1. Newest(gFile.first) /\ gStamp[s] - gFile.first > GreyTtl + GreyGrace
      BY <2>1, <2>2, <2>6 DEF InOrder, Grey!Stale
    <3>2. Gone(gStamp[s])
      BY <2>4, <3>1 DEF Newest, Gone
    <3>3. InOrder(s)'
      BY <2>2, <2>3, <2>6, <3>2 DEF InOrder, Gone, Newest, Writing
    <3>4. QED
      BY <1>3, <2>3, <2>6, <2>5, <3>3
  <2>7. CASE ~Grey!Stale(gFile.first, gStamp[s])
    <3>1. Newest(gFile.first) \/ (gFile.first < 0 /\ Gone(gStamp[s]))
      BY <2>1, <2>2 DEF InOrder
    <3>2. InOrder(s)'
      BY <2>2, <2>3, <2>7, <3>1 DEF InOrder, Gone, Newest, Writing
    <3>3. QED
      BY <1>3, <2>3, <2>7, <2>5, <3>2
  <2>8. QED
    BY <2>6, <2>7
<1>8. ASSUME NEW s \in GreySession, Grey!PruneUnlink(s) PROVE GreyOrder'
  <2> SUFFICES ASSUME Calm' PROVE GreyOrder'
    BY DEF GreyOrder
  <2>1. Calm /\ gPc[s] = "unlink"
    BY <1>1, <1>8 DEF Grey!PruneUnlink
  <2>2. Alone(s) /\ InOrder(s) /\ Grey!RetryAccepted
    BY <1>2, <2>1 DEF GreyOrder
  <2>3. /\ Alone(s)' /\ UNCHANGED <<gSeen, gDeferred, gStamp>>
        /\ gPc'[s] = "check" /\ gFile'.first < 0
    BY <1>8, <2>1, <2>2
       DEF Grey!PruneUnlink, Grey!Pruned, Grey!Absent, Grey!NotThere, GreyInv, GreyType
  <2>4. QED
    BY <1>3, <2>1, <2>2, <2>3 DEF InOrder, Gone, Newest, Writing
<1>9. ASSUME NEW s \in GreySession, Grey!CheckAccept(s) PROVE GreyOrder'
  <2> SUFFICES ASSUME Calm' PROVE GreyOrder'
    BY DEF GreyOrder
  <2>1. Calm /\ gPc[s] = "check" /\ gFile.first >= 0
    BY <1>1, <1>9 DEF Grey!CheckAccept, Grey!Write, Grey!Known
  <2>2. Alone(s) /\ InOrder(s) /\ Grey!RetryAccepted
    BY <1>2, <2>1 DEF GreyOrder
  <2>3. /\ Alone(s)' /\ UNCHANGED <<gSeen, gDeferred, gStamp>>
        /\ gPc'[s] = "create" /\ gEntry'[s].first = gFile.first
        /\ gEntry'[s].decision = "accept"
    BY <1>9, <2>1, <2>2 DEF Grey!CheckAccept, Grey!Write, GreyInv, GreyType
  <2>4. Newest(gFile.first)
    BY <2>1, <2>2 DEF InOrder, GreyInv, GreyType
  <2>5. InOrder(s)'
    BY <2>2, <2>3, <2>4 DEF InOrder, Newest, Writing
  <2>6. Grey!RetryAccepted'
    BY <2>1, <2>2, <2>3
  <2>7. QED
    BY <1>3, <2>3, <2>5, <2>6
<1>10. ASSUME NEW s \in GreySession, Grey!CheckEarly(s) PROVE GreyOrder'
  <2> SUFFICES ASSUME Calm' PROVE GreyOrder'
    BY DEF GreyOrder
  <2>1. Calm /\ gPc[s] = "check" /\ gFile.first >= 0 /\ Grey!Age(s) < GreyDelay
    BY <1>1, <1>10 DEF Grey!CheckEarly, Grey!Known
  <2>2. Alone(s) /\ InOrder(s)
    BY <1>2, <2>1
  <2>3. Quiet' /\ gDeferred' = gStamp[s] /\ UNCHANGED <<gFile, gSeen>>
    BY <1>10, <2>1, <2>2 DEF Grey!CheckEarly, Grey!Answer, GreyInv, GreyType
  <2>4. Newest(gFile.first)
    BY <2>1, <2>2 DEF InOrder, GreyInv, GreyType
  <2>5. gSeen \subseteq Nat /\ gStamp[s] \in Nat
    BY DEF GreyInv, GreyType
  <2>6. gFile.first <= gStamp[s] /\ gStamp[s] - gFile.first < GreyDelay
    BY <2>1, <2>2, <2>4, <2>5 DEF InOrder, Newest, Grey!Age, Grey!Larger
  <2>7. Grey!RetryAccepted'
    BY <2>3, <2>4, <2>5, <2>6 DEF Newest
  <2>8. QED
    BY <1>4, <2>3, <2>4, <2>7 DEF Newest
<1>11. ASSUME NEW s \in GreySession, Grey!CheckNew(s) PROVE GreyOrder'
  <2> SUFFICES ASSUME Calm' PROVE GreyOrder'
    BY DEF GreyOrder
  <2>1. Calm /\ gPc[s] = "check"
    BY <1>1, <1>11 DEF Grey!CheckNew, Grey!Write
  <2>2. Alone(s) /\ InOrder(s) /\ Grey!RetryAccepted
    BY <1>2, <2>1 DEF GreyOrder
  <2>3. /\ Alone(s)' /\ UNCHANGED <<gDeferred, gStamp>>
        /\ gSeen' = gSeen \union {gStamp[s]}
        /\ gPc'[s] = "create" /\ gEntry'[s].first = gStamp[s]
    BY <1>11, <2>1, <2>2 DEF Grey!CheckNew, Grey!Write, GreyInv, GreyType
  <2>4. gSeen \subseteq Nat /\ gStamp[s] \in Nat /\ gDeferred \in Nat
    BY DEF GreyInv, GreyType
  <2>5. Gone(gStamp[s])
    <3>1. CASE gFile.first < 0
      BY <2>1, <2>2, <2>4, <3>1 DEF InOrder, Newest
    <3>2. CASE gFile.first >= 0
      <4>1. Newest(gFile.first) /\ Grey!Expired(s)
        BY <1>11, <2>1, <2>2, <3>2 DEF InOrder, Grey!CheckNew, Grey!Known, GreyInv, GreyType
      <4>2. gStamp[s] - gFile.first > GreyTtl + GreyGrace
        BY <2>4, <3>2, <4>1 DEF Grey!Expired, Grey!Age, Grey!Larger, Newest
      <4>3. QED
        BY <2>4, <4>1, <4>2 DEF Newest, Gone
    <3>3. QED
      BY <3>1, <3>2 DEF GreyInv, GreyType, Grey!None, Grey!NotThere
  <2>6. Newest(gEntry[s].first)'
    BY <2>3, <2>4, <2>5 DEF Newest, Gone
  <2>7. Grey!RetryAccepted'
    BY <2>1, <2>2, <2>3, <2>4 DEF InOrder
  <2>8. QED
    BY <1>3, <2>2, <2>3, <2>4, <2>6, <2>7 DEF InOrder, Writing
<1>12. ASSUME NEW s \in GreySession, Grey!WriteCreate(s) \/ Grey!WriteFirst(s) PROVE GreyOrder'
  <2> SUFFICES ASSUME Calm' PROVE GreyOrder'
    BY DEF GreyOrder
  <2>1. Calm /\ gPc[s] \in {"create", "first"}
    BY <1>1, <1>12 DEF Grey!WriteCreate, Grey!WriteFirst
  <2>2. Alone(s) /\ InOrder(s) /\ Grey!RetryAccepted
    BY <1>2, <2>1 DEF GreyOrder
  <2>3. /\ Alone(s)' /\ UNCHANGED <<gSeen, gDeferred, gStamp, gEntry>>
        /\ gPc'[s] \in {"first", "ok"} /\ (gPc'[s] = "ok" => gPc[s] = "first")
    BY <1>12, <2>1, <2>2 DEF Grey!WriteCreate, Grey!WriteFirst, GreyInv, GreyType
  <2>4. s \in gOpen'
    BY <1>12, <2>1, <2>2 DEF Grey!WriteCreate, Grey!WriteFirst, InOrder
  <2>5. gPc'[s] = "ok" => gFile'.first = gEntry[s].first
    BY <1>12, <2>1, <2>2, <2>3 DEF Grey!WriteCreate, Grey!WriteFirst, InOrder, GreyInv, GreyType
  <2>6. QED
    BY <1>3, <2>1, <2>2, <2>3, <2>4, <2>5 DEF InOrder, Newest, Writing
<1>13. ASSUME NEW s \in GreySession, Grey!WriteOk(s) PROVE GreyOrder'
  <2> SUFFICES ASSUME Calm' PROVE GreyOrder'
    BY DEF GreyOrder
  <2>1. Calm /\ gPc[s] = "ok"
    BY <1>1, <1>13 DEF Grey!WriteOk
  <2>2. Alone(s) /\ InOrder(s) /\ Grey!RetryAccepted
    BY <1>2, <2>1 DEF GreyOrder
  <2>3. /\ Quiet' /\ gFile'.first = gFile.first /\ gSeen' = gSeen
        /\ gDeferred' = IF gEntry[s].decision = "defer" THEN gStamp[s] ELSE gDeferred
    BY <1>13, <2>1, <2>2 DEF Grey!WriteOk, Grey!Answer, GreyInv, GreyType
  <2>4. Newest(gFile.first) /\ (gEntry[s].decision = "defer" => gFile.first = gStamp[s])
    BY <2>1, <2>2 DEF InOrder, Writing
  <2>5. gSeen \subseteq Nat /\ gStamp[s] \in Nat
    BY DEF GreyInv, GreyType
  <2>6. Grey!RetryAccepted'
    BY <2>1, <2>2, <2>3, <2>4, <2>5 DEF Newest
  <2>7. QED
    BY <1>4, <2>3, <2>4, <2>6 DEF Newest
(* A failed write and a crash are what is left out. *)
<1>14. ASSUME NEW s \in GreySession, Grey!WriteError(s) PROVE GreyOrder'
  BY <1>14 DEF Grey!WriteError, GreyOrder
<1>15. CASE Grey!Crash
  BY <1>15 DEF Grey!Crash, GreyOrder
<1>16. CASE UNCHANGED gVars
  BY <1>16 DEF gVars, GreyOrder, InOrder, Newest, Gone, Writing
(* A stranger comes and reads; it removes the file between two sessions only. *)
<1>17. ASSUME NEW o \in GreyStranger, Grey!Rcpt(o) \/ Grey!PruneRead(o) PROVE GreyOrder'
  <2> SUFFICES ASSUME Calm' PROVE GreyOrder'
    BY DEF GreyOrder
  <2>1. /\ Calm /\ GreyOrder
        /\ UNCHANGED <<gClock, gFile, gSeen, gDeferred, gOpen, gEntry>>
        /\ \A t \in Grey!Client : t # o => gPc'[t] = gPc[t] /\ gStamp'[t] = gStamp[t]
        /\ gPc'[o] = "unlink" => /\ Grey!Stale(gFile.first, gStamp[o]) /\ ~Grey!UnderWay
                                 /\ gStamp'[o] = gStamp[o]
    BY <1>1, <1>17, GreyConstants
       DEF Grey!Rcpt, Grey!PruneRead, Grey!Pruned, GreyInv, GreyType
  <2>2. \A s \in GreySession : gPc'[s] = gPc[s] /\ gStamp'[s] = gStamp[s]
    BY <2>1
  <2>3. \A s \in GreySession : InOrder(s)' <=> InOrder(s)
    BY <2>1, <2>2 DEF InOrder, Newest, Gone, Writing
  <2>4. (Newest(gFile.first)' <=> Newest(gFile.first)) /\ (Gone(gClock)' <=> Gone(gClock))
    BY <2>1 DEF Newest, Gone
  <2>5. ASSUME NEW u \in GreyStranger, gPc'[u] = "unlink"
        PROVE  (\A s \in GreySession : gPc'[s] = "idle") /\ Gone(gStamp[u])'
    <3>1. CASE u # o
      BY <2>1, <2>2, <2>5, <3>1 DEF GreyOrder, Gone
    <3>2. CASE u = o
      <4>1. /\ \A s \in GreySession : gPc[s] = "idle"
            /\ gFile.first >= 0 /\ gStamp[o] - gFile.first > GreyTtl + GreyGrace
        BY <2>1, <2>5, <3>2 DEF Grey!UnderWay, Grey!Stale
      <4>2. Newest(gFile.first)
        BY <2>1, <4>1 DEF GreyOrder
      <4>3. Gone(gStamp[o])
        <5>1. /\ gSeen \subseteq Nat /\ gStamp[o] \in Int /\ gFile.first \in Int
              /\ GreyTtl \in Nat /\ GreyGrace \in Nat
          BY GreyConstants
        <5>2. ASSUME NEW d \in gSeen PROVE gStamp[o] - d > GreyTtl + GreyGrace
          <6>1. d \in Nat /\ (d = gFile.first \/ gFile.first - d > GreyTtl + GreyGrace)
            BY <4>2, <5>1 DEF Newest
          <6>2. QED
            BY <4>1, <5>1, <6>1
        <5>3. QED
          BY <5>2 DEF Gone
      <4>4. gStamp'[o] = gStamp[o] /\ gSeen' = gSeen
        BY <2>1, <2>5, <3>2
      <4>5. Gone(gStamp[u])'
        BY <3>2, <4>3, <4>4 DEF Gone
      <4>6. QED
        BY <2>2, <4>1, <4>5
    <3>3. QED
      BY <3>1, <3>2
  <2>6. QED
    BY <2>1, <2>2, <2>3, <2>4, <2>5 DEF GreyOrder
<1>18. ASSUME NEW o \in GreyStranger, Grey!PruneUnlink(o) PROVE GreyOrder'
  <2> SUFFICES ASSUME Calm' PROVE GreyOrder'
    BY DEF GreyOrder
  <2>1. /\ Calm /\ GreyOrder /\ gPc[o] = "unlink" /\ gPc'[o] = "idle"
        /\ gFile'.first < 0 /\ UNCHANGED <<gClock, gSeen, gDeferred>>
        /\ \A t \in Grey!Client : t # o => gPc'[t] = gPc[t] /\ gStamp'[t] = gStamp[t]
    BY <1>1, <1>18, GreyConstants
       DEF Grey!PruneUnlink, Grey!Pruned, Grey!Absent, Grey!NotThere, GreyInv, GreyType
  <2>2. (\A s \in GreySession : gPc[s] = "idle") /\ Gone(gStamp[o])
    BY <2>1 DEF GreyOrder
  <2>3. \A s \in GreySession : gPc'[s] = "idle"
    BY <2>1, <2>2
  <2>4. Gone(gClock)'
    BY <2>1, <2>2 DEF Gone
  <2>5. \A u \in GreyStranger : gPc'[u] = "unlink" => Gone(gStamp[u])'
    BY <2>1 DEF GreyOrder, Gone
  <2>6. QED
    BY <2>1, <2>3, <2>4, <2>5 DEF GreyOrder
<1>19. QED
  BY <1>1, <1>5, <1>6, <1>7, <1>8, <1>9, <1>10, <1>11, <1>12, <1>13, <1>14, <1>15, <1>16, <1>17,
     <1>18 DEF Grey!Next, Grey!Client

(* Greylisting as one of the limits.                                          *)
LEMMA GreyPart ==
    /\ LimitsInit => Grey!Init
    /\ [LimitsNext]_<<part, vars, aVars, oVars, gVars, qVars>> => [Grey!Next]_gVars
<1>1. LimitsInit => Grey!Init
  BY DEF LimitsInit
<1>2. ASSUME [LimitsNext]_<<part, vars, aVars, oVars, gVars, qVars>> PROVE [Grey!Next]_gVars
  BY <1>2 DEF LimitsNext
<1>3. QED
  BY <1>1, <1>2

(* The invariant of greylisting in every behaviour of the sum.                *)
LEMMA GreyInvariant == LimitsSpec => []GreyInv
<1>1. GreyInv /\ [Grey!Next]_gVars => GreyInv'
  BY GreyTypeStep, GreyTrueStep DEF GreyInv
<1>2. LimitsInit => GreyInv
  BY GreyInit, GreyPart
<1>3. GreyInv /\ [LimitsNext]_<<part, vars, aVars, oVars, gVars, qVars>> => GreyInv'
  BY <1>1, GreyPart
<1>4. QED
  BY <1>2, <1>3, PTL DEF LimitsSpec

(* NoEarlyAccept for any number of sessions, crashes and failed writes:       *)
(* whoever is let in was seen for the first time at least the delay before.   *)
THEOREM GreylistDelays == LimitsSpec => []NoEarlyAccept
<1>1. GreyInv => NoEarlyAccept
  BY DEF GreyInv, GreyTrue, SeenBefore, NoEarlyAccept, Grey!NoEarlyAccept
<1>2. QED
  BY <1>1, GreyInvariant, PTL

(* RetryAccepted for any delay and lifetime, and any number of sessions that  *)
(* come one after another.                                                    *)
THEOREM GreylistLetsIn == LimitsSpec => []RetryAccepted
<1> DEFINE Ordered == GreyInv /\ GreyOrder /\ gFaults \in Nat
<1>1. LimitsInit => Ordered
  BY GreyInit, GreyPart
<1>2. Ordered /\ [LimitsNext]_<<part, vars, aVars, oVars, gVars, qVars>> => Ordered'
  BY GreyPart, GreyTypeStep, GreyTrueStep, GreyOrderStep DEF GreyInv
<1>3. Ordered => RetryAccepted
  BY DEF GreyOrder, RetryAccepted, Grey!RetryAccepted
<1>4. QED
  BY <1>1, <1>2, <1>3, PTL DEF LimitsSpec

-------------------------------------------------------------------------------
(* The quota.                                                                 *)

SizeType ==
    /\ qClock \in Nat
    /\ qPc \in [SizeSession -> {"idle", "scan", "decide", "forget"}]
    /\ qBegun \in [SizeSession -> Nat]
    /\ qSince \in [Message -> Nat]
    /\ qTodo \in [SizeSession -> SUBSET Size!Dir]
    /\ qListed \in [SizeSession -> SUBSET Message]
    /\ qUnread \in [SizeSession -> SUBSET Message]
    /\ qMsg \in [SizeSession -> SUBSET Message]
    /\ \A e \in qCache : e.at \in Nat /\ e.at <= qClock /\ e.unread \subseteq Message
    /\ \A s \in Size!Scanning : qBegun[s] <= qClock /\ qClock <= qBegun[s] + ScanLag

SizePlace == {Size!NoPlace, Size!Gone} \union Size!Dir
SizePlaces == qPlace \in [Message -> SizePlace]
SizeCounts ==
    /\ qCounted \in [SizeSession -> SUBSET (Message \X SizePlace)]
    /\ \A e \in qCache : e.counted \subseteq Message \X SizePlace

Excused(m) == m \in qPending \/ m \in qHidden
Missing(m, size) == \A d \in Size!Dir : <<m, d>> \notin size

(* What a scan has passed over could not be read, or has arrived or been      *)
(* renamed since it began ...                                                 *)
Behind(s, m) ==
    \/ qPlace[m] \in qTodo[s] \/ m \in qListed[s] \/ m \in qUnread[s]
    \/ Excused(m) /\ qSince[m] >= qBegun[s]
ScanExcuse == \A s \in Size!Scanning : \A m \in Size!Kept :
    Missing(m, qCounted[s]) => Behind(s, m)

(* ... and what a kept size leaves out was not readable, or has arrived or    *)
(* been renamed since its scan began.                                         *)
Since(e, m) == m \in e.unread \/ (Excused(m) /\ qSince[m] + ScanLag >= e.at)
CacheExcuse == \A e \in qCache : \A m \in Size!Kept :
    Missing(m, e.counted) => Since(e, m)

SizeInv == SizeType /\ SizeCounts /\ SizePlaces /\ ScanExcuse /\ CacheExcuse

(* What the assumptions on the size cache come to.                            *)
LEMMA SizeConstants ==
    /\ Inbox \in Folder
    /\ SizeTtl \in Nat /\ SizeTtl > 0 /\ ScanLag \in Nat
BY SizeAssumption DEF Size!QuotaAssumption

(* What is gone is in no directory.                                           *)
LEMMA GoneIsNoDir == Size!Gone \notin Size!Dir
BY DEF Size!Gone, Size!Dir

(* At the start nothing is kept, and nobody scans.                            *)
LEMMA SizeInit == Size!Init => SizeInv
<1> SUFFICES ASSUME Size!Init PROVE SizeInv
  OBVIOUS
<1>1. <<Inbox, "new">> \in Size!Dir
  BY SizeConstants DEF Size!Dir
<1>2. QED
  BY <1>1 DEF Size!Init, SizeInv, SizeType, SizeCounts, SizePlaces, SizePlace, ScanExcuse,
              CacheExcuse,
              Size!Scanning

(* The variables of the size cache keep their types.                          *)
LEMMA SizeTypeStep == SizeInv /\ [Size!Next]_qVars => SizeType'
<1> SUFFICES ASSUME SizeInv, [Size!Next]_qVars PROVE SizeType'
  OBVIOUS
<1> USE SizeConstants DEF SizeInv, SizeType, Size!Scanning, Size!scan, Size!ghost, Size!Step,
        Size!Dir
<1>1. CASE Size!Tick
  BY <1>1 DEF Size!Tick
<1>2. ASSUME NEW m \in Message, Size!Expunge(m) PROVE SizeType'
  BY <1>2 DEF Size!Expunge, Size!Told, Size!Unlisted
<1>3. ASSUME NEW m \in Message, Size!Mark(m) PROVE SizeType'
  BY <1>3 DEF Size!Mark, Size!Rename, Size!Told, Size!Unlisted
<1>4. ASSUME NEW m \in Message, NEW f \in Folder, Size!Move(m, f) PROVE SizeType'
  BY <1>4 DEF Size!Move, Size!Rename, Size!Told, Size!Unlisted
<1>5. ASSUME NEW m \in Message, NEW d \in Size!Dir, Size!StoreUnchecked(m, d) PROVE SizeType'
  BY <1>5 DEF Size!StoreUnchecked, Size!Told, Size!Arrives
<1>6. ASSUME NEW s \in SizeSession, Size!CheckCached(s) PROVE SizeType'
  BY <1>6 DEF Size!CheckCached
<1>7. ASSUME NEW s \in SizeSession, Size!CheckScan(s) PROVE SizeType'
  BY <1>7 DEF Size!CheckScan
<1>8. ASSUME NEW s \in SizeSession, NEW d \in Size!Dir, Size!ScanList(s, d) PROVE SizeType'
  BY <1>8 DEF Size!ScanList
<1>9. ASSUME NEW s \in SizeSession, NEW m \in Message, Size!ScanCount(s, m) PROVE SizeType'
  BY <1>9 DEF Size!ScanCount
<1>10. ASSUME NEW s \in SizeSession, NEW dirs \in SUBSET qTodo[s], Size!ScanSkip(s, dirs)
      PROVE  SizeType'
  BY <1>10 DEF Size!ScanSkip, Size!Error
<1>11. ASSUME NEW s \in SizeSession, NEW m \in Message, Size!ScanFails(s, m) PROVE SizeType'
  BY <1>11 DEF Size!ScanFails, Size!Error
<1>12. ASSUME NEW s \in SizeSession, Size!ScanDone(s) PROVE SizeType'
  BY <1>12 DEF Size!ScanDone
<1>13. ASSUME NEW s \in SizeSession, Size!Refuse(s) \/ Size!StoreFails(s) PROVE SizeType'
  BY <1>13 DEF Size!Refuse, Size!StoreFails, Size!Give
<1>14. ASSUME NEW s \in SizeSession, NEW m \in Message, NEW d \in Size!Dir, Size!Store(s, m, d)
      PROVE  SizeType'
  BY <1>14 DEF Size!Store, Size!Arrives
<1>15. ASSUME NEW s \in SizeSession, Size!Forget(s) PROVE SizeType'
  BY <1>15 DEF Size!Forget, Size!Give
<1>16. CASE UNCHANGED qVars
  BY <1>16 DEF qVars
<1>17. CASE UNCHANGED Size!vars
  BY <1>17 DEF Size!vars
<1>18. QED
  BY <1>1, <1>2, <1>3, <1>4, <1>5, <1>6, <1>7, <1>8, <1>9, <1>10, <1>11, <1>12, <1>13,
     <1>14, <1>15, <1>16, <1>17
     DEF Size!Next, Size!Change

(* A message is where a directory is, or nowhere yet, or gone.                *)
LEMMA SizePlacesStep == SizeInv /\ [Size!Next]_qVars => SizePlaces'
<1> SUFFICES ASSUME SizeInv, [Size!Next]_qVars PROVE SizePlaces'
  OBVIOUS
<1> USE SizeConstants DEF SizeInv, SizeType, SizePlaces, SizePlace, Size!Kept, Size!scan,
        Size!ghost, Size!Dir
<1>1. CASE Size!Tick
  BY <1>1 DEF Size!Tick
<1>2. ASSUME NEW m \in Message, Size!Expunge(m) PROVE SizePlaces'
  BY <1>2 DEF Size!Expunge, Size!Told, Size!Unlisted
<1>3. ASSUME NEW m \in Message, Size!Mark(m) PROVE SizePlaces'
  BY <1>3 DEF Size!Mark, Size!Rename, Size!Told, Size!Unlisted
<1>4. ASSUME NEW m \in Message, NEW f \in Folder, Size!Move(m, f) PROVE SizePlaces'
  BY <1>4 DEF Size!Move, Size!Rename, Size!Told, Size!Unlisted
<1>5. ASSUME NEW m \in Message, NEW d \in Size!Dir, Size!StoreUnchecked(m, d) PROVE SizePlaces'
  BY <1>5 DEF Size!StoreUnchecked, Size!Told, Size!Arrives
<1>6. ASSUME NEW s \in SizeSession, Size!CheckCached(s) PROVE SizePlaces'
  BY <1>6 DEF Size!CheckCached
<1>7. ASSUME NEW s \in SizeSession, Size!CheckScan(s) PROVE SizePlaces'
  BY <1>7 DEF Size!CheckScan
<1>8. ASSUME NEW s \in SizeSession, NEW d \in Size!Dir, Size!ScanList(s, d) PROVE SizePlaces'
  BY <1>8 DEF Size!ScanList
<1>9. ASSUME NEW s \in SizeSession, NEW m \in Message, Size!ScanCount(s, m) PROVE SizePlaces'
  BY <1>9 DEF Size!ScanCount
<1>10. ASSUME NEW s \in SizeSession, NEW dirs \in SUBSET qTodo[s], Size!ScanSkip(s, dirs)
      PROVE  SizePlaces'
  BY <1>10 DEF Size!ScanSkip, Size!Error
<1>11. ASSUME NEW s \in SizeSession, NEW m \in Message, Size!ScanFails(s, m) PROVE SizePlaces'
  BY <1>11 DEF Size!ScanFails, Size!Error
<1>12. ASSUME NEW s \in SizeSession, Size!ScanDone(s) PROVE SizePlaces'
  BY <1>12 DEF Size!ScanDone
<1>13. ASSUME NEW s \in SizeSession, Size!Refuse(s) \/ Size!StoreFails(s) PROVE SizePlaces'
  BY <1>13 DEF Size!Refuse, Size!StoreFails, Size!Give
<1>14. ASSUME NEW s \in SizeSession, NEW m \in Message, NEW d \in Size!Dir, Size!Store(s, m, d)
      PROVE  SizePlaces'
  BY <1>14 DEF Size!Store, Size!Arrives
<1>15. ASSUME NEW s \in SizeSession, Size!Forget(s) PROVE SizePlaces'
  BY <1>15 DEF Size!Forget, Size!Give
<1>16. CASE UNCHANGED qVars
  BY <1>16 DEF qVars
<1>17. CASE UNCHANGED Size!vars
  BY <1>17 DEF Size!vars
<1>18. QED
  BY <1>1, <1>2, <1>3, <1>4, <1>5, <1>6, <1>7, <1>8, <1>9, <1>10, <1>11, <1>12, <1>13,
     <1>14, <1>15, <1>16, <1>17
     DEF Size!Next, Size!Change

(* What is counted is a message in a directory.                               *)
LEMMA SizeCountsStep == SizeInv /\ [Size!Next]_qVars => SizeCounts'
<1> SUFFICES ASSUME SizeInv, [Size!Next]_qVars PROVE SizeCounts'
  OBVIOUS
<1> USE SizeConstants DEF SizeInv, SizeType, SizeCounts, SizePlaces, Size!scan, Size!ghost,
        Size!Step
<1>1. CASE Size!Tick
  BY <1>1 DEF Size!Tick
<1>2. ASSUME NEW m \in Message, Size!Expunge(m) PROVE SizeCounts'
  BY <1>2 DEF Size!Expunge, Size!Told, Size!Unlisted
<1>3. ASSUME NEW m \in Message, Size!Mark(m) PROVE SizeCounts'
  BY <1>3 DEF Size!Mark, Size!Rename, Size!Told, Size!Unlisted
<1>4. ASSUME NEW m \in Message, NEW f \in Folder, Size!Move(m, f) PROVE SizeCounts'
  BY <1>4 DEF Size!Move, Size!Rename, Size!Told, Size!Unlisted
<1>5. ASSUME NEW m \in Message, NEW d \in Size!Dir, Size!StoreUnchecked(m, d) PROVE SizeCounts'
  BY <1>5 DEF Size!StoreUnchecked, Size!Told, Size!Arrives
<1>6. ASSUME NEW s \in SizeSession, Size!CheckCached(s) PROVE SizeCounts'
  BY <1>6 DEF Size!CheckCached
<1>7. ASSUME NEW s \in SizeSession, Size!CheckScan(s) PROVE SizeCounts'
  BY <1>7 DEF Size!CheckScan
<1>8. ASSUME NEW s \in SizeSession, NEW d \in Size!Dir, Size!ScanList(s, d) PROVE SizeCounts'
  BY <1>8 DEF Size!ScanList
<1>9. ASSUME NEW s \in SizeSession, NEW m \in Message, Size!ScanCount(s, m) PROVE SizeCounts'
  BY <1>9 DEF Size!ScanCount
<1>10. ASSUME NEW s \in SizeSession, NEW dirs \in SUBSET qTodo[s], Size!ScanSkip(s, dirs)
      PROVE  SizeCounts'
  BY <1>10 DEF Size!ScanSkip, Size!Error
<1>11. ASSUME NEW s \in SizeSession, NEW m \in Message, Size!ScanFails(s, m) PROVE SizeCounts'
  BY <1>11 DEF Size!ScanFails, Size!Error
<1>12. ASSUME NEW s \in SizeSession, Size!ScanDone(s) PROVE SizeCounts'
  BY <1>12 DEF Size!ScanDone
<1>13. ASSUME NEW s \in SizeSession, Size!Refuse(s) \/ Size!StoreFails(s) PROVE SizeCounts'
  BY <1>13 DEF Size!Refuse, Size!StoreFails, Size!Give
<1>14. ASSUME NEW s \in SizeSession, NEW m \in Message, NEW d \in Size!Dir, Size!Store(s, m, d)
      PROVE  SizeCounts'
  BY <1>14 DEF Size!Store, Size!Arrives
<1>15. ASSUME NEW s \in SizeSession, Size!Forget(s) PROVE SizeCounts'
  BY <1>15 DEF Size!Forget, Size!Give
<1>16. CASE UNCHANGED qVars
  BY <1>16 DEF qVars
<1>17. CASE UNCHANGED Size!vars
  BY <1>17 DEF Size!vars
<1>18. QED
  BY <1>1, <1>2, <1>3, <1>4, <1>5, <1>6, <1>7, <1>8, <1>9, <1>10, <1>11, <1>12, <1>13,
     <1>14, <1>15, <1>16, <1>17
     DEF Size!Next, Size!Change

(* No step makes a scan leave out a message without cause.                    *)
LEMMA ScanExcuseStep == SizeInv /\ [Size!Next]_qVars => ScanExcuse'
<1> SUFFICES ASSUME SizeInv, [Size!Next]_qVars PROVE ScanExcuse'
  OBVIOUS
<1> USE SizeConstants DEF SizeInv, SizeType, SizeCounts, SizePlaces, ScanExcuse, Excused,
        Missing, Behind,
        Size!Scanning, Size!Kept, Size!scan, Size!ghost, Size!Step
<1>1. CASE Size!Tick
  BY <1>1 DEF Size!Tick
<1>2. ASSUME NEW m \in Message, Size!Expunge(m) PROVE ScanExcuse'
  BY <1>2, GoneIsNoDir DEF Size!Expunge, Size!Told, Size!Unlisted
<1>3. ASSUME NEW m \in Message, Size!Mark(m) PROVE ScanExcuse'
  BY <1>3 DEF Size!Mark, Size!Rename, Size!Told, Size!Unlisted
<1>4. ASSUME NEW m \in Message, NEW f \in Folder, Size!Move(m, f) PROVE ScanExcuse'
  BY <1>4 DEF Size!Move, Size!Rename, Size!Told, Size!Unlisted
<1>5. ASSUME NEW m \in Message, NEW d \in Size!Dir, Size!StoreUnchecked(m, d) PROVE ScanExcuse'
  BY <1>5 DEF Size!StoreUnchecked, Size!Told, Size!Arrives
<1>6. ASSUME NEW s \in SizeSession, Size!CheckCached(s) PROVE ScanExcuse'
  BY <1>6 DEF Size!CheckCached
<1>7. ASSUME NEW s \in SizeSession, Size!CheckScan(s) PROVE ScanExcuse'
  BY <1>7 DEF Size!CheckScan
<1>8. ASSUME NEW s \in SizeSession, NEW d \in Size!Dir, Size!ScanList(s, d) PROVE ScanExcuse'
  BY <1>8 DEF Size!ScanList
<1>9. ASSUME NEW s \in SizeSession, NEW m \in Message, Size!ScanCount(s, m) PROVE ScanExcuse'
  BY <1>9 DEF Size!ScanCount
<1>10. ASSUME NEW s \in SizeSession, NEW dirs \in SUBSET qTodo[s], Size!ScanSkip(s, dirs)
      PROVE  ScanExcuse'
  BY <1>10 DEF Size!ScanSkip, Size!Error
<1>11. ASSUME NEW s \in SizeSession, NEW m \in Message, Size!ScanFails(s, m) PROVE ScanExcuse'
  BY <1>11 DEF Size!ScanFails, Size!Error
<1>12. ASSUME NEW s \in SizeSession, Size!ScanDone(s) PROVE ScanExcuse'
  BY <1>12 DEF Size!ScanDone
<1>13. ASSUME NEW s \in SizeSession, Size!Refuse(s) \/ Size!StoreFails(s) PROVE ScanExcuse'
  BY <1>13 DEF Size!Refuse, Size!StoreFails, Size!Give
<1>14. ASSUME NEW s \in SizeSession, NEW m \in Message, NEW d \in Size!Dir, Size!Store(s, m, d)
      PROVE  ScanExcuse'
  BY <1>14 DEF Size!Store, Size!Arrives
<1>15. ASSUME NEW s \in SizeSession, Size!Forget(s) PROVE ScanExcuse'
  BY <1>15 DEF Size!Forget, Size!Give
<1>16. CASE UNCHANGED qVars
  BY <1>16 DEF qVars
<1>17. CASE UNCHANGED Size!vars
  BY <1>17 DEF Size!vars
<1>18. QED
  BY <1>1, <1>2, <1>3, <1>4, <1>5, <1>6, <1>7, <1>8, <1>9, <1>10, <1>11, <1>12, <1>13,
     <1>14, <1>15, <1>16, <1>17
     DEF Size!Next, Size!Change

(* No step makes a kept size leave out a message without cause.               *)
LEMMA CacheExcuseStep == SizeInv /\ [Size!Next]_qVars => CacheExcuse'
<1> SUFFICES ASSUME SizeInv, [Size!Next]_qVars PROVE CacheExcuse'
  OBVIOUS
<1> USE SizeConstants DEF SizeInv, SizeType, SizeCounts, SizePlaces, ScanExcuse, CacheExcuse,
        Excused, Behind,
        Since, Size!Scanning, Size!Kept, Size!scan, Size!ghost, Size!Step
<1>1. CASE Size!Tick
  BY <1>1 DEF Size!Tick
<1>2. ASSUME NEW m \in Message, Size!Expunge(m) PROVE CacheExcuse'
  BY <1>2, GoneIsNoDir DEF Size!Expunge, Size!Told, Size!Unlisted
<1>3. ASSUME NEW m \in Message, Size!Mark(m) PROVE CacheExcuse'
  BY <1>3 DEF Size!Mark, Size!Rename, Size!Told, Size!Unlisted
<1>4. ASSUME NEW m \in Message, NEW f \in Folder, Size!Move(m, f) PROVE CacheExcuse'
  BY <1>4 DEF Size!Move, Size!Rename, Size!Told, Size!Unlisted
<1>5. ASSUME NEW m \in Message, NEW d \in Size!Dir, Size!StoreUnchecked(m, d) PROVE CacheExcuse'
  BY <1>5 DEF Size!StoreUnchecked, Size!Told, Size!Arrives
<1>6. ASSUME NEW s \in SizeSession, Size!CheckCached(s) PROVE CacheExcuse'
  BY <1>6 DEF Size!CheckCached
<1>7. ASSUME NEW s \in SizeSession, Size!CheckScan(s) PROVE CacheExcuse'
  BY <1>7 DEF Size!CheckScan
<1>8. ASSUME NEW s \in SizeSession, NEW d \in Size!Dir, Size!ScanList(s, d) PROVE CacheExcuse'
  BY <1>8 DEF Size!ScanList
<1>9. ASSUME NEW s \in SizeSession, NEW m \in Message, Size!ScanCount(s, m) PROVE CacheExcuse'
  BY <1>9 DEF Size!ScanCount
<1>10. ASSUME NEW s \in SizeSession, NEW dirs \in SUBSET qTodo[s], Size!ScanSkip(s, dirs)
      PROVE  CacheExcuse'
  BY <1>10 DEF Size!ScanSkip, Size!Error
<1>11. ASSUME NEW s \in SizeSession, NEW m \in Message, Size!ScanFails(s, m) PROVE CacheExcuse'
  BY <1>11 DEF Size!ScanFails, Size!Error
<1>12. ASSUME NEW s \in SizeSession, Size!ScanDone(s) PROVE CacheExcuse'
  BY <1>12 DEF Size!ScanDone
<1>13. ASSUME NEW s \in SizeSession, Size!Refuse(s) \/ Size!StoreFails(s) PROVE CacheExcuse'
  BY <1>13 DEF Size!Refuse, Size!StoreFails, Size!Give
<1>14. ASSUME NEW s \in SizeSession, NEW m \in Message, NEW d \in Size!Dir, Size!Store(s, m, d)
      PROVE  CacheExcuse'
  BY <1>14 DEF Size!Store, Size!Arrives
<1>15. ASSUME NEW s \in SizeSession, Size!Forget(s) PROVE CacheExcuse'
  BY <1>15 DEF Size!Forget, Size!Give
<1>16. CASE UNCHANGED qVars
  BY <1>16 DEF qVars
<1>17. CASE UNCHANGED Size!vars
  BY <1>17 DEF Size!vars
<1>18. QED
  BY <1>1, <1>2, <1>3, <1>4, <1>5, <1>6, <1>7, <1>8, <1>9, <1>10, <1>11, <1>12, <1>13,
     <1>14, <1>15, <1>16, <1>17
     DEF Size!Next, Size!Change

(* No step of the size cache (storage.rs, mailbox_size) leaves out a message  *)
(* without cause.                                                             *)
LEMMA SizeStep == SizeInv /\ [Size!Next]_qVars => SizeInv'
BY SizeTypeStep, SizePlacesStep, SizeCountsStep, ScanExcuseStep, CacheExcuseStep DEF SizeInv

(* The quota as one of the limits.                                            *)
LEMMA SizePart ==
    /\ LimitsInit => Size!Init
    /\ [LimitsNext]_<<part, vars, aVars, oVars, gVars, qVars>> => [Size!Next]_qVars
<1>1. LimitsInit => Size!Init
  BY DEF LimitsInit
<1>2. ASSUME [LimitsNext]_<<part, vars, aVars, oVars, gVars, qVars>> PROVE [Size!Next]_qVars
  BY <1>2 DEF LimitsNext
<1>3. QED
  BY <1>1, <1>2

(* The invariant of the size cache in every behaviour of the sum.             *)
LEMMA SizeInvariant == LimitsSpec => []SizeInv
<1>1. LimitsInit => SizeInv
  BY SizeInit, SizePart
<1>2. SizeInv /\ [LimitsNext]_<<part, vars, aVars, oVars, gVars, qVars>> => SizeInv'
  BY SizeStep, SizePart
<1>3. QED
  BY <1>1, <1>2, PTL DEF LimitsSpec

(* LeftOutForCause for any sessions, messages and folders, and any time a     *)
(* size is kept and a scan takes.                                             *)
THEOREM QuotaMissesOnlyBursts == LimitsSpec => LeftOutForCause
<1> DEFINE Reason(s, m) == \/ m \in qPending
                           \/ m \in qUnread'[s]
                           \/ m \in qHidden /\ qClock < qSince[m] + SizeTtl + ScanLag
           ForCause == \A s \in SizeSession : qPc'[s] = "decide" /\ qPc[s] # "decide" =>
                         \A m \in Size!LeftOut(qCounted'[s]) : Reason(s, m)
<1>1. SizeInv /\ [Size!Next]_qVars => ForCause
  <2> SUFFICES ASSUME SizeInv, [Size!Next]_qVars, NEW s \in SizeSession,
                      qPc'[s] = "decide", qPc[s] # "decide",
                      NEW m \in Size!LeftOut(qCounted'[s])
               PROVE  Reason(s, m)
    OBVIOUS
  <2>1. \/ Size!CheckCached(s) \/ Size!ScanDone(s)
    BY DEF Size!Next, Size!Change, Size!Tick, Size!Expunge, Size!Mark, Size!Move, Size!Rename,
           Size!StoreUnchecked, Size!CheckCached, Size!CheckScan, Size!ScanList, Size!ScanCount,
           Size!ScanSkip, Size!ScanFails, Size!Error, Size!ScanDone, Size!Refuse,
           Size!StoreFails, Size!Store, Size!Forget, Size!Give, Size!Step, Size!scan, Size!vars,
           qVars, SizeInv, SizeType
  <2>2. m \in Size!Kept /\ Missing(m, qCounted'[s]) /\ qSince[m] \in Nat
    BY DEF Size!Kept, Size!LeftOut, Missing, SizeInv, SizeType
  <2>3. CASE Size!CheckCached(s)
    <3>1. PICK e \in qCache : /\ Size!Fresh(e)
                              /\ qCounted' = [qCounted EXCEPT ![s] = e.counted]
                              /\ qUnread' = [qUnread EXCEPT ![s] = e.unread]
      BY <2>3 DEF Size!CheckCached
    <3>2. qCounted'[s] = e.counted /\ qUnread'[s] = e.unread
      BY <3>1 DEF SizeInv, SizeType, SizeCounts
    <3>3. Since(e, m)
      BY <2>2, <3>2 DEF SizeInv, CacheExcuse
    <3>4. e.at \in Nat /\ qClock - e.at < SizeTtl /\ qClock \in Nat
      BY <3>1 DEF SizeInv, SizeType, Size!Fresh
    <3>5. QED
      BY <2>2, <3>2, <3>3, <3>4, SizeConstants DEF Since, Excused
  <2>4. CASE Size!ScanDone(s)
    <3>1. /\ s \in Size!Scanning /\ qTodo[s] = {} /\ qListed[s] = {}
          /\ qCounted' = qCounted /\ qUnread' = qUnread
      BY <2>4 DEF Size!ScanDone, Size!Step, Size!scan, Size!Scanning
    <3>2. m \in qUnread[s] \/ (Excused(m) /\ qSince[m] >= qBegun[s])
      BY <2>2, <3>1 DEF SizeInv, ScanExcuse, Behind
    <3>3. qBegun[s] \in Nat /\ qClock \in Nat /\ qClock <= qBegun[s] + ScanLag
      BY <3>1 DEF SizeInv, SizeType
    <3>4. QED
      BY <2>2, <3>1, <3>2, <3>3, SizeConstants DEF Excused
  <2>5. QED
    BY <2>1, <2>3, <2>4
<1>2. SizeInv /\ [LimitsNext]_<<part, vars, aVars, oVars, gVars, qVars>> => [ForCause]_qVars
  BY <1>1, SizePart
<1>3. LimitsSpec => [][ForCause]_qVars
  BY <1>2, SizeInvariant, PTL DEF LimitsSpec
<1>4. QED
  BY <1>3 DEF LeftOutForCause, Size!LeftOutForCause, Size!vars, qVars
===============================================================================

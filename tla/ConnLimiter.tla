----------------------------- MODULE ConnLimiter -----------------------------
(***************************************************************************)
(* The connection limiter (src/src/limits.rs) shared by the SMTP, IMAP and *)
(* web listeners: an atomic count of all connections and a mutex-protected *)
(* map of counts per client IP.  A slot is taken by a listener thread and  *)
(* given back by the connection's own thread when its guard is dropped;    *)
(* the two counters are updated in separate steps.                         *)
(***************************************************************************)
EXTENDS Naturals, FiniteSets

CONSTANTS
    Conn,       \* connections that may exist at a time
    Ip,         \* client addresses
    IpOf,       \* IpOf[c]: limits::peer_ip_from_stream
    MaxGlobal,  \* max_connections
    MaxPerIp,   \* max_connections_per_ip
    Nobody      \* the mutex is free

ASSUME ConnAssumption == IsFiniteSet(Conn) /\ Nobody \notin Conn
ASSUME IpAssumption == IpOf \in [Conn -> Ip]
\* `configure' raises both limits to at least 1.
ASSUME LimitAssumption == MaxGlobal \in Nat \ {0} /\ MaxPerIp \in Nat \ {0}

VARIABLES
    pc,      \* pc[c]: where connection c is
    lock,    \* holder of the mutex around the map
    global,  \* connections counted, all addresses
    perIp    \* perIp[i]: connections counted for address i

vars == <<pc, lock, global, perIp>>

Stage == {"accepted",  \* accepted socket, try_acquire not entered
          "checked",   \* below the per-IP limit, mutex held
          "counted",   \* counted in global, below its limit, mutex held
          "over",      \* counted in global, above its limit, mutex held
          "serving",   \* handle_client runs
          "dropped",   \* guard dropped: taken off global, still in the map
          "gone"}      \* refused or over

Init ==
    /\ pc = [c \in Conn |-> "gone"]
    /\ lock = Nobody
    /\ global = 0
    /\ perIp = [i \in Ip |-> 0]

Goto(c, stage) == pc' = [pc EXCEPT ![c] = stage]

\* A client connects.
Accept(c) ==
    /\ pc[c] = "gone"
    /\ Goto(c, "accepted")
    /\ UNCHANGED <<lock, global, perIp>>

\* try_acquire under the mutex: the address is at its limit.
RefuseIp(c) ==
    /\ pc[c] = "accepted"
    /\ lock = Nobody
    /\ perIp[IpOf[c]] >= MaxPerIp
    /\ Goto(c, "gone")
    /\ UNCHANGED <<lock, global, perIp>>

\* Mutant: the mutex protects the lookup only.
CheckIpUnlocked(c) ==
    /\ pc[c] = "accepted"
    /\ lock = Nobody
    /\ perIp[IpOf[c]] < MaxPerIp
    /\ Goto(c, "checked")
    /\ UNCHANGED <<lock, global, perIp>>

\* try_acquire under the mutex: the address is below its limit.
CheckIp(c) ==
    /\ pc[c] = "accepted"
    /\ lock = Nobody
    /\ perIp[IpOf[c]] < MaxPerIp
    /\ lock' = c
    /\ Goto(c, "checked")
    /\ UNCHANGED <<global, perIp>>

\* Mutant: the comparison with the limit is off by one.
CountGlobalOffByOne(c) ==
    /\ pc[c] = "checked"
    /\ global' = global + 1
    /\ Goto(c, IF global > MaxGlobal THEN "over" ELSE "counted")
    /\ UNCHANGED <<lock, perIp>>

\* global.fetch_add, and the comparison of the value it returned.
CountGlobal(c) ==
    /\ pc[c] = "checked"
    /\ global' = global + 1
    /\ Goto(c, IF global >= MaxGlobal THEN "over" ELSE "counted")
    /\ UNCHANGED <<lock, perIp>>

\* Over the global limit: the count is taken back.
RefuseGlobal(c) ==
    /\ pc[c] = "over"
    /\ global' = global - 1
    /\ lock' = Nobody
    /\ Goto(c, "gone")
    /\ UNCHANGED perIp

\* The connection enters the map; the mutex is given up, a thread serves it.
Admit(c) ==
    /\ pc[c] = "counted"
    /\ perIp' = [perIp EXCEPT ![IpOf[c]] = @ + 1]
    /\ lock' = Nobody
    /\ Goto(c, "serving")
    /\ UNCHANGED global

\* The connection's thread ends (return or panic): release, first half.
Drop(c) ==
    /\ pc[c] = "serving"
    /\ global' = global - 1
    /\ Goto(c, "dropped")
    /\ UNCHANGED <<lock, perIp>>

\* Mutant: an entry at 1 is left in the map.
ReleaseIpSticky(c) ==
    /\ pc[c] = "dropped"
    /\ lock = Nobody
    /\ perIp' = [perIp EXCEPT ![IpOf[c]] = IF @ > 1 THEN @ - 1 ELSE @]
    /\ Goto(c, "gone")
    /\ UNCHANGED <<lock, global>>

\* release, second half: the entry of the address, under the mutex.
ReleaseIp(c) ==
    /\ pc[c] = "dropped"
    /\ lock = Nobody
    /\ perIp' = [perIp EXCEPT ![IpOf[c]] = IF @ > 0 THEN @ - 1 ELSE 0]
    /\ Goto(c, "gone")
    /\ UNCHANGED <<lock, global>>

Next ==
    \E c \in Conn :
        \/ Accept(c) \/ RefuseIp(c) \/ CheckIp(c) \/ CountGlobal(c)
        \/ RefuseGlobal(c) \/ Admit(c) \/ Drop(c) \/ ReleaseIp(c)

Spec == Init /\ [][Next]_vars
-----------------------------------------------------------------------------
At(stages) == {c \in Conn : pc[c] \in stages}
AtIp(i, stages) == {c \in At(stages) : IpOf[c] = i}

TypeOK ==
    /\ pc \in [Conn -> Stage]
    /\ lock \in Conn \union {Nobody}
    /\ global \in Nat
    /\ perIp \in [Ip -> Nat]

\* The two counters never drift from the connections they count, although
\* they are updated apart: no slot leaks and none is given back twice.
CountersExact ==
    /\ global = Cardinality(At({"counted", "over", "serving"}))
    /\ \A i \in Ip : perIp[i] = Cardinality(AtIp(i, {"serving", "dropped"}))

\* Never more connections at work than configured, in all and per address,
\* however the listeners' admissions interleave with the guards' releases.
LimitsHold ==
    /\ Cardinality(At({"counted", "serving"})) <= MaxGlobal
    /\ \A i \in Ip : Cardinality(AtIp(i, {"serving"})) <= MaxPerIp

\* A connection is refused for the global limit only while that many are
\* really being served: the count a refused one adds for a moment is never
\* seen by another.
RefusedOnlyWhenFull ==
    [][\A c \in Conn : pc[c] = "checked" /\ pc'[c] = "over" =>
          Cardinality(At({"serving"})) = MaxGlobal]_vars

\* Who holds the mutex, and what it protects.
LockInv ==
    /\ \A c \in Conn : pc[c] \in {"checked", "counted", "over"} <=> lock = c
    /\ \A c \in Conn : pc[c] \in {"checked", "counted"} =>
           perIp[IpOf[c]] < MaxPerIp

\* The limits in terms of the counters.
BoundInv ==
    /\ (\A c \in Conn : pc[c] # "over") => global <= MaxGlobal
    /\ global <= MaxGlobal + 1
    /\ \A i \in Ip : perIp[i] <= MaxPerIp

IndInv == TypeOK /\ LockInv /\ CountersExact /\ BoundInv
=============================================================================

----------------------------- MODULE AuthLimiter -----------------------------
(***************************************************************************)
(* The brute-force lockout (src/src/ratelimit.rs, first half) as the SMTP, *)
(* IMAP and web threads use it: check_allowed, then the slow password      *)
(* check, then record_failure or record_success.  The map is locked inside *)
(* each call but not between them, and each call reads the clock before it *)
(* waits for the lock.                                                     *)
(*                                                                         *)
(* An entry of the map that is absent is the same as one with no failures  *)
(* and no lockout.  The order of the times in an entry has no effect: an   *)
(* entry is the set of the failures it lists.                              *)
(***************************************************************************)
EXTENDS Naturals, Sequences, FiniteSets

CONSTANTS
    Session,    \* connections served at a time
    Ip,         \* client addresses
    IpOf,       \* IpOf[s]: peer address of connection s
    Max,        \* auth_max_failures
    Window,     \* auth_window_secs
    Lockout,    \* auth_lockout_secs
    MaxLag,     \* bound: how long a call may wait for the lock
    MaxClock,   \* bound: last clock value
    MaxTries    \* bound: failures recorded for an address since its last success

SessionAssumption == IsFiniteSet(Session) /\ IpOf \in [Session -> Ip]
\* `configure_auth' raises every threshold to at least 1.
LimitAssumption == {Max, Window, Lockout} \subseteq Nat \ {0}
BoundAssumption == {MaxLag, MaxClock, MaxTries} \subseteq Nat

VARIABLES
    clock,     \* util::now_secs()
    failures,  \* failures[i]: recent failures of address i, as positions in log[i]
    lockout,   \* lockout[i]: i is locked out until then
    pc,        \* pc[s]: where connection s is
    stamp,     \* stamp[s]: the clock as the current call of s read it
    log        \* log[i]: times of the failures of i since its last success

vars == <<clock, failures, lockout, pc, stamp, log>>

Stage == {"idle",       \* no attempt under way
          "checking",   \* in check_allowed, waiting for the lock
          "allowed",    \* check_allowed answered true; the password is checked
          "failing",    \* in record_failure, waiting for the lock
          "succeeding"} \* in record_success, waiting for the lock

Init ==
    /\ clock = 0
    /\ failures = [i \in Ip |-> {}]
    /\ lockout = [i \in Ip |-> 0]
    /\ pc = [s \in Session |-> "idle"]
    /\ stamp = [s \in Session |-> 0]
    /\ log = [i \in Ip |-> << >>]

\* Time passes, but not beyond what a call may spend waiting for the lock.
Tick ==
    /\ clock < MaxClock
    /\ \A s \in Session : pc[s] \in {"checking", "failing", "succeeding"} =>
           clock < stamp[s] + MaxLag
    /\ clock' = clock + 1
    /\ UNCHANGED <<failures, lockout, pc, stamp, log>>

\* now.saturating_sub(window_secs)
WindowStart(now) == IF now < Window THEN 0 ELSE now - Window

\* retain(|&t| t >= window_start)
Recent(i, times, now) == {k \in times : log[i][k] >= WindowStart(now)}

\* prune_auth: an entry whose lockout is over keeps its recent failures, and
\* is dropped without any.
Pruned(i, now) ==
    IF lockout[i] > now THEN failures[i] ELSE Recent(i, failures[i], now)

PrunedLockout(i, now) ==
    IF lockout[i] <= now /\ Pruned(i, now) = {} THEN 0 ELSE lockout[i]

\* A call reads the clock and goes for the lock.
Call(s, from, to) ==
    /\ pc[s] = from
    /\ pc' = [pc EXCEPT ![s] = to]
    /\ stamp' = [stamp EXCEPT ![s] = clock]
    /\ UNCHANGED <<clock, failures, lockout, log>>

\* AUTH, LOGIN, or a POST of one of the guarded web forms.
StartAttempt(s) == Call(s, "idle", "checking")

\* The password is wrong (or the web action counts as a failure by itself).
WrongPassword(s) ==
    /\ Len(log[IpOf[s]]) < MaxTries
    /\ Call(s, "allowed", "failing")

RightPassword(s) == Call(s, "allowed", "succeeding")

\* Malformed credentials, or a form refused for another reason: not recorded.
Abandon(s) ==
    /\ pc[s] = "allowed"
    /\ pc' = [pc EXCEPT ![s] = "idle"]
    /\ UNCHANGED <<clock, failures, lockout, stamp, log>>

\* Mutant: the lockout is ignored.
CheckAllowedAlways(s) ==
    LET now == stamp[s] IN
    /\ pc[s] = "checking"
    /\ failures' = [i \in Ip |-> Pruned(i, now)]
    /\ lockout' = [i \in Ip |-> PrunedLockout(i, now)]
    /\ pc' = [pc EXCEPT ![s] = "allowed"]
    /\ UNCHANGED <<clock, stamp, log>>

\* check_allowed, under the lock.
CheckAllowed(s) ==
    LET now == stamp[s] IN
    /\ pc[s] = "checking"
    /\ failures' = [i \in Ip |-> Pruned(i, now)]
    /\ lockout' = [i \in Ip |-> PrunedLockout(i, now)]
    /\ pc' = [pc EXCEPT ![s] = IF lockout'[IpOf[s]] > now THEN "idle" ELSE "allowed"]
    /\ UNCHANGED <<clock, stamp, log>>

\* Mutant: the failures that led to a lockout stay on the list, and old ones
\* are not dropped.
RecordFailureKeeping(s) ==
    LET now == stamp[s]
        ip == IpOf[s]
        times == failures[ip] \union {Len(log[ip]) + 1}
    IN  /\ pc[s] = "failing"
        /\ failures' = [failures EXCEPT ![ip] = times]
        /\ lockout' = [lockout EXCEPT ![ip] =
                           IF Cardinality(times) >= Max THEN now + Lockout ELSE @]
        /\ log' = [log EXCEPT ![ip] = Append(@, now)]
        /\ pc' = [pc EXCEPT ![s] = "idle"]
        /\ UNCHANGED <<clock, stamp>>

\* record_failure, under the lock.
RecordFailure(s) ==
    LET now == stamp[s]
        ip == IpOf[s]
        times == Recent(ip, Pruned(ip, now), now) \union {Len(log[ip]) + 1}
        locks == Cardinality(times) >= Max
    IN  /\ pc[s] = "failing"
        /\ failures' = [i \in Ip |-> IF i # ip THEN Pruned(i, now)
                                     ELSE IF locks THEN {} ELSE times]
        /\ lockout' = [i \in Ip |-> IF i = ip /\ locks THEN now + Lockout
                                    ELSE PrunedLockout(i, now)]
        /\ log' = [log EXCEPT ![ip] = Append(@, now)]
        /\ pc' = [pc EXCEPT ![s] = "idle"]
        /\ UNCHANGED <<clock, stamp>>

\* record_success, under the lock: the address starts afresh, even if it was
\* locked out since this attempt was allowed.
RecordSuccess(s) ==
    LET now == stamp[s]
        ip == IpOf[s]
    IN  /\ pc[s] = "succeeding"
        /\ failures' = [i \in Ip |-> IF i = ip THEN {} ELSE Pruned(i, now)]
        /\ lockout' = [i \in Ip |-> IF i = ip THEN 0 ELSE PrunedLockout(i, now)]
        /\ log' = [log EXCEPT ![ip] = << >>]
        /\ pc' = [pc EXCEPT ![s] = "idle"]
        /\ UNCHANGED <<clock, stamp>>

Next ==
    \/ Tick
    \/ \E s \in Session :
          \/ StartAttempt(s) \/ CheckAllowed(s) \/ Abandon(s)
          \/ WrongPassword(s) \/ RecordFailure(s)
          \/ RightPassword(s) \/ RecordSuccess(s)

Spec == Init /\ [][Next]_vars
-----------------------------------------------------------------------------
TypeOK ==
    /\ clock \in Nat
    /\ failures \in [Ip -> SUBSET Nat]
    /\ lockout \in [Ip -> Nat]
    /\ pc \in [Session -> Stage]
    /\ stamp \in [Session -> Nat]
    /\ log \in [Ip -> Seq(Nat)]

\* Failures of i since its last success with a time in from..to.
FailuresIn(i, from, to) ==
    {k \in DOMAIN log[i] : log[i][k] \in from .. to}

Sessions(i) == {s \in Session : IpOf[s] = i}

\* The shorter of the window and the lockout, as a distance of clock values.
\* A call that waited for the lock imposes a lockout that started earlier.
Span == (IF Window < Lockout THEN Window ELSE Lockout - 1) - MaxLag

\* The guess budget: whatever the interleaving of its connections, an address
\* that does not log in gets at most Max wrong guesses per window, and one
\* more for each other connection that was let in before the lockout fell.
GuessBudget ==
    \A i \in Ip : \A k \in DOMAIN log[i] :
        Cardinality(FailuresIn(i, log[i][k], log[i][k] + Span))
            <= Max + Cardinality(Sessions(i)) - 1

\* The failures of i, up to the k-th that was recorded, within the window that
\* ends with it.  (Those of calls that read the clock later and got the lock
\* first are in it too.)
WindowAt(i, k) ==
    {j \in FailuresIn(i, WindowStart(log[i][k]), log[i][k] + MaxLag) : j <= k}

\* Old failures do not add up: an address is refused only if Max failures fell
\* within the window that ended with one of them, and that one is no longer ago
\* than the lockout.
RefusedForCause ==
    [][\A s \in Session :
          pc[s] = "checking" /\ pc'[s] = "idle" =>
              \E k \in DOMAIN log[IpOf[s]] :
                  /\ stamp[s] < log[IpOf[s]][k] + Lockout
                  /\ Cardinality(WindowAt(IpOf[s], k)) >= Max]_vars
=============================================================================

-------------------------- MODULE OutboundThrottle ---------------------------
(***************************************************************************)
(* The cap on recipients per user name and rolling hour                    *)
(* (src/src/ratelimit.rs, second half), as submission sessions use it: for *)
(* every RCPT check_outbound(user, 1), then record_outbound(user, 1).  The *)
(* map is locked inside each call and free between the two.                *)
(*                                                                         *)
(* The key of the map is the name as the client typed it at AUTH, while    *)
(* the password check folds its case: an account has an entry, and so a    *)
(* budget, for each spelling of its name.  What is said here is said of a  *)
(* name as spelled.  A session that logs in again under another spelling   *)
(* is another session here.  Webmail neither asks nor tells the throttle.  *)
(***************************************************************************)
EXTENDS Naturals, Sequences, FiniteSets

CONSTANTS
    Session,   \* submission sessions
    Name,      \* spellings of user names
    NameOf,    \* NameOf[s]: the name that session s logged in with, as typed
    Max,       \* outbound_max_rcpts_per_hour
    Window,    \* OUTBOUND_WINDOW
    MaxClock   \* bound: last clock value

SessionAssumption == IsFiniteSet(Session) /\ NameOf \in [Session -> Name]
\* `configure_outbound' raises the cap to at least 1.
LimitAssumption == {Max, Window} \subseteq Nat \ {0}
BoundAssumption == MaxClock \in Nat

VARIABLES
    clock,   \* util::now_secs()
    events,  \* events[n]: the OutboundState of n: recipients, as positions in log[n]
    pc,      \* pc[s]: "idle", or in one of the two calls
    stamp,   \* stamp[s]: the clock as the current call of s read it
    log      \* log[n]: when each recipient so far was accepted under n

vars == <<clock, events, pc, stamp, log>>

Init ==
    /\ clock = 0
    /\ events = [n \in Name |-> {}]
    /\ pc = [s \in Session |-> "idle"]
    /\ stamp = [s \in Session |-> 0]
    /\ log = [n \in Name |-> << >>]

Tick ==
    /\ clock < MaxClock
    /\ clock' = clock + 1
    /\ UNCHANGED <<events, pc, stamp, log>>

\* now.saturating_sub(OUTBOUND_WINDOW)
WindowStart(now) == IF now < Window THEN 0 ELSE now - Window

\* Events of n that a call made at `now' still counts.
Recent(n, now) == {k \in events[n] : log[n][k] >= WindowStart(now)}

\* RCPT TO: check_outbound reads the clock.
StartRcpt(s) ==
    /\ pc[s] = "idle"
    /\ pc' = [pc EXCEPT ![s] = "checking"]
    /\ stamp' = [stamp EXCEPT ![s] = clock]
    /\ UNCHANGED <<clock, events, log>>

\* Mutant: the recipient to come is not counted.
UnderCapOffByOne(n, now) == Cardinality(Recent(n, now)) <= Max

\* used + n_rcpts <= max
UnderCap(n, now) == Cardinality(Recent(n, now)) + 1 <= Max

\* check_outbound, under the lock: 452, the recipient is not accepted.
Refuse(s) ==
    /\ pc[s] = "checking"
    /\ ~UnderCap(NameOf[s], stamp[s])
    /\ pc' = [pc EXCEPT ![s] = "idle"]
    /\ UNCHANGED <<clock, events, stamp, log>>

\* check_outbound, under the lock: go on to record_outbound.
Pass(s) ==
    /\ pc[s] = "checking"
    /\ UnderCap(NameOf[s], stamp[s])
    /\ pc' = [pc EXCEPT ![s] = "passed"]
    /\ UNCHANGED <<clock, events, stamp, log>>

\* record_outbound reads the clock.
StartRecord(s) ==
    /\ pc[s] = "passed"
    /\ pc' = [pc EXCEPT ![s] = "recording"]
    /\ stamp' = [stamp EXCEPT ![s] = clock]
    /\ UNCHANGED <<clock, events, log>>

\* Mutant: old events are never dropped, and never replaced.
RecordOnce(s) ==
    /\ pc[s] = "recording"
    /\ events' = [events EXCEPT ![NameOf[s]] =
                     IF @ = {} THEN {Len(log[NameOf[s]]) + 1} ELSE @]
    /\ log' = [log EXCEPT ![NameOf[s]] = Append(@, stamp[s])]
    /\ pc' = [pc EXCEPT ![s] = "idle"]
    /\ UNCHANGED <<clock, stamp>>

\* record_outbound, under the lock; the recipient is accepted.
Record(s) ==
    /\ pc[s] = "recording"
    /\ events' = [events EXCEPT ![NameOf[s]] =
                     Recent(NameOf[s], stamp[s]) \union {Len(log[NameOf[s]]) + 1}]
    /\ log' = [log EXCEPT ![NameOf[s]] = Append(@, stamp[s])]
    /\ pc' = [pc EXCEPT ![s] = "idle"]
    /\ UNCHANGED <<clock, stamp>>

Next ==
    \/ Tick
    \/ \E s \in Session :
          StartRcpt(s) \/ Refuse(s) \/ Pass(s) \/ StartRecord(s) \/ Record(s)

Spec == Init /\ [][Next]_vars
-----------------------------------------------------------------------------
Sessions(n) == {s \in Session : NameOf[s] = n}

AcceptedIn(n, from, to) == {k \in DOMAIN log[n] : log[n][k] \in from .. to}

\* The cap with its slack: within any hour at most Max recipients are accepted
\* under a name as spelled, and one more for each further session of that name
\* that passed the check before the others had recorded theirs.
CapWithSlack ==
    \A n \in Name : \A k \in DOMAIN log[n] :
        Cardinality(AcceptedIn(n, log[n][k], log[n][k] + Window))
            <= Max + Cardinality(Sessions(n)) - 1

\* The throttle forgets nothing it still needs: when a recipient passes the
\* check, fewer than Max were accepted under that name in the hour up to now,
\* counting all of them and not only those still on the list.
NothingForgotten ==
    [][\A s \in Session : pc[s] = "checking" /\ pc'[s] = "passed" =>
          Cardinality(AcceptedIn(NameOf[s], WindowStart(clock), clock)) < Max]_vars
=============================================================================

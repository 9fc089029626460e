------------------------------- MODULE Greylist ------------------------------
(***************************************************************************)
(* Greylisting (src/src/spamscore.rs with its caller in src/src/smtp.rs):  *)
(* at the first RCPT of an inbound transaction a session prunes the        *)
(* directory, then looks its triplet up in a file of its own and rewrites  *)
(* that file in place, without any lock.  Only the prune reaches the files *)
(* of other triplets, and it reaches all of them: this is one triplet, the *)
(* sessions that present it, and strangers that prune its file on the way  *)
(* to their own.                                                           *)
(*                                                                         *)
(* The file is its first two fields; a writer truncates it and then writes *)
(* field after field, and writers that overlap write over each other's     *)
(* fields.  The fields that are not there yet read as None.                *)
(***************************************************************************)
EXTENDS Integers

CONSTANTS
    Session,     \* sessions with the triplet
    Stranger,    \* sessions with another triplet
    Delay,       \* greylist_delay_secs
    Ttl,         \* greylist_ttl_secs
    Grace,       \* the day added to the lifetime of an entry
    MaxClock,    \* bound: last clock value
    MaxFaults    \* bound: crashes of the process and failed writes

None == -1
NotThere == -2

SessionAssumption == Session \intersect Stranger = {}
LimitAssumption == {Delay, Ttl, Grace} \subseteq Nat
BoundAssumption == {MaxClock, MaxFaults} \subseteq Nat

VARIABLES
    clock,    \* util::now_secs()
    file,     \* the triplet's file; `first' is NotThere when it does not exist
    pc,       \* pc[s]: where session s is
    stamp,    \* stamp[s]: `now' of its RCPT
    entry,    \* entry[s]: the fields s is about to write, and its decision
    open,     \* sessions whose open file is the one at the path
    accepted, \* history: the last acceptance, when asked and answered
    deferred, \* history: when the session deferred last had asked, or 0
    seen,     \* history: times that were decided to be its first sight
    overlap,  \* history: a session met another, or a stranger about to unlink
    faults    \* history: crashes and failed writes so far

memVars == <<pc, stamp, entry>>
histVars == <<accepted, deferred, seen, overlap>>
vars == <<clock, file, memVars, open, histVars, faults>>

Absent == [first |-> NotThere, ok |-> None]
Truncated == [first |-> None, ok |-> None]
NeverAccepted == [asked |-> 0, answered |-> 0]
NoEntry == [first |-> 0, ok |-> 0, decision |-> "defer"]

Client == Session \union Stranger

Stage == {"idle", "prune", "unlink", "check", "create", "first", "ok"}

Larger(a, b) == IF a > b THEN a ELSE b

Init ==
    /\ clock = 1
    /\ file = Absent
    /\ pc = [s \in Client |-> "idle"]
    /\ stamp = [s \in Client |-> 0]
    /\ entry = [s \in Session |-> NoEntry]
    /\ open = {}
    /\ accepted = NeverAccepted
    /\ deferred = 0
    /\ seen = {}
    /\ overlap = FALSE
    /\ faults = 0

Tick ==
    /\ clock < MaxClock
    /\ clock' = clock + 1
    /\ UNCHANGED <<file, memVars, open, histVars, faults>>

Goto(s, stage) == pc' = [pc EXCEPT ![s] = stage]

UnderWay == \E s \in Session : pc[s] # "idle"

\* The first RCPT of a transaction reads the clock.
Rcpt(s) ==
    /\ pc[s] = "idle"
    /\ Goto(s, "prune")
    /\ stamp' = [stamp EXCEPT ![s] = clock]
    /\ overlap' = \/ overlap
                  \/ s \in Session /\ (UnderWay \/ \E o \in Stranger : pc[o] = "unlink")
    /\ UNCHANGED <<clock, file, entry, open, accepted, deferred, seen, faults>>

\* Mutant: the lifetime of an entry is the whitelist's, without the day.
StaleEarly(first, now) == first >= 0 /\ now - first > Ttl

\* An entry older than its lifetime, by the time it was first seen.
Stale(first, now) == first >= 0 /\ now - first > Ttl + Grace

\* On to greylist_check, which for a stranger is about another file.
Pruned(s) ==
    /\ Goto(s, IF s \in Session THEN "check" ELSE "idle")
    /\ stamp' = [stamp EXCEPT ![s] = IF s \in Session THEN @ ELSE 0]

\* greylist_prune, which walks the whole directory, reads this file; it goes on
\* to remove_file, or not.
PruneRead(s) ==
    /\ pc[s] = "prune"
    /\ IF Stale(file.first, stamp[s])
       THEN /\ Goto(s, "unlink")
            /\ overlap' = (overlap \/ (s \in Stranger /\ UnderWay))
            /\ UNCHANGED stamp
       ELSE Pruned(s) /\ UNCHANGED overlap
    /\ UNCHANGED <<clock, file, entry, open, accepted, deferred, seen, faults>>

PruneUnlink(s) ==
    /\ pc[s] = "unlink"
    /\ file' = Absent
    /\ open' = {}
    /\ Pruned(s)
    /\ UNCHANGED <<clock, entry, histVars, faults>>

-----------------------------------------------------------------------------
(* greylist_check: the file is read in one step and the decision is made on *)
(* what was read.                                                           *)

Known == file.first >= 0
LastOk == Larger(file.ok, 0)
Age(s) == Larger(stamp[s] - file.first, 0)
Whitelisted(s) == LastOk > 0 /\ Larger(stamp[s] - LastOk, 0) <= Ttl
Expired(s) == Age(s) > Larger(Ttl, Delay) + Grace

\* Mutant: the delay is not waited for.
DueAtOnce(s) == ~Expired(s)

\* The delay has elapsed, and the entry has not expired.
Due(s) == Age(s) >= Delay /\ ~Expired(s)

\* The answer goes to the client, and greylisting is done with this session.
Answer(s, decision) ==
    /\ accepted' = IF decision = "accept"
                   THEN [asked |-> stamp[s], answered |-> clock] ELSE accepted
    /\ deferred' = IF decision = "defer" THEN stamp[s] ELSE deferred
    /\ pc' = [pc EXCEPT ![s] = "idle"]
    /\ stamp' = [stamp EXCEPT ![s] = 0]
    /\ entry' = [entry EXCEPT ![s] = NoEntry]

\* Go on to write an entry.
Write(s, first, ok, decision) ==
    /\ entry' = [entry EXCEPT ![s] =
                   [first |-> first, ok |-> ok, decision |-> decision]]
    /\ Goto(s, "create")
    /\ UNCHANGED <<clock, file, stamp, open, accepted, deferred, overlap, faults>>

\* A known sender, whitelisted or due.
CheckAccept(s) ==
    /\ pc[s] = "check"
    /\ Known
    /\ Whitelisted(s) \/ Due(s)
    /\ Write(s, file.first, stamp[s], "accept")
    /\ UNCHANGED seen

\* Within the delay: nothing is written.
CheckEarly(s) ==
    /\ pc[s] = "check"
    /\ Known
    /\ ~Whitelisted(s)
    /\ Age(s) < Delay
    /\ Answer(s, "defer")
    /\ UNCHANGED <<clock, file, open, seen, overlap, faults>>

\* Not there, unreadable or expired: this is the first sight.
CheckNew(s) ==
    /\ pc[s] = "check"
    /\ Known => ~Whitelisted(s) /\ Age(s) >= Delay /\ Expired(s)
    /\ Write(s, stamp[s], 0, "defer")
    /\ seen' = seen \union {stamp[s]}

-----------------------------------------------------------------------------
(* write_greylist_entry *)

\* File::create: truncate the file, or make it.
WriteCreate(s) ==
    /\ pc[s] = "create"
    /\ file' = Truncated
    /\ open' = open \union {s}
    /\ Goto(s, "first")
    /\ UNCHANGED <<clock, stamp, entry, histVars, faults>>

WriteFirst(s) ==
    /\ pc[s] = "first"
    /\ file' = IF s \in open THEN [file EXCEPT !.first = entry[s].first] ELSE file
    /\ Goto(s, "ok")
    /\ UNCHANGED <<clock, stamp, entry, open, histVars, faults>>

\* The second field, and the answer.
WriteOk(s) ==
    /\ pc[s] = "ok"
    /\ file' = IF s \in open THEN [file EXCEPT !.ok = entry[s].ok] ELSE file
    /\ open' = open \ {s}
    /\ Answer(s, entry[s].decision)
    /\ UNCHANGED <<clock, seen, overlap, faults>>

\* `let _ = write_greylist_entry': a failed create or write is not noticed.
WriteError(s) ==
    /\ pc[s] \in {"create", "first", "ok"}
    /\ faults < MaxFaults
    /\ faults' = faults + 1
    /\ open' = open \ {s}
    /\ Answer(s, entry[s].decision)
    /\ UNCHANGED <<clock, file, seen, overlap>>

Crash ==
    /\ faults < MaxFaults
    /\ faults' = faults + 1
    /\ pc' = [s \in Client |-> "idle"]
    /\ stamp' = [s \in Client |-> 0]
    /\ entry' = [s \in Session |-> NoEntry]
    /\ open' = {}
    /\ UNCHANGED <<clock, file, histVars>>

Next ==
    \/ Tick
    \/ \E s \in Client : Rcpt(s) \/ PruneRead(s) \/ PruneUnlink(s)
    \/ \E s \in Session :
          \/ CheckAccept(s) \/ CheckEarly(s) \/ CheckNew(s)
          \/ WriteCreate(s) \/ WriteFirst(s) \/ WriteOk(s) \/ WriteError(s)
    \/ Crash

Spec == Init /\ [][Next]_vars
-----------------------------------------------------------------------------
TypeOK ==
    /\ clock \in Nat
    /\ file \in [first : {NotThere, None} \union Nat, ok : {None} \union Nat]
    /\ pc \in [Client -> Stage]
    /\ stamp \in [Client -> Nat]
    /\ entry \in [Session -> [first : Nat, ok : Nat,
                              decision : {"accept", "defer"}]]
    /\ open \subseteq Session
    /\ accepted \in [asked : Nat, answered : Nat]
    /\ deferred \in Nat
    /\ seen \subseteq Nat
    /\ overlap \in BOOLEAN
    /\ faults \in Nat

\* However the truncations, the field by field writes and the removals of
\* several sessions and of crashed ones fall together, nobody gets in who was
\* not seen for the first time at least the delay before.
NoEarlyAccept ==
    accepted # NeverAccepted => \E d \in seen : d + Delay <= accepted.answered

\* A sender that comes back after the delay and within the lifetime of its
\* entry is not deferred again, whoever else prunes: pruning and looking up
\* agree on the lifetime.  That is as long as no write fails, its sessions come
\* one after another, and none of them falls between a stranger's reading of an
\* entry that has expired and its removal (of whatever is there by then).
RetryAccepted ==
    ~overlap /\ faults = 0 =>
        \A d \in seen : d < deferred =>
            deferred - d < Delay \/ deferred - d > Ttl + Grace

-----------------------------------------------------------------------------
(* A promise of the documentation that the code does not keep. *)

\* The documented whitelist: after a success the sender is accepted for
\* greylist_ttl_secs.  (The entry is pruned by the time it was first seen.)
WhitelistLasts ==
    accepted # NeverAccepted /\ accepted.answered < deferred =>
        deferred - accepted.asked > Ttl
=============================================================================

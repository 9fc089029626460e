---------------------------- MODULE OutboundQueue ----------------------------
(***************************************************************************)
(* The outbound mail queue of desertemail (src/src/queue.rs): connection   *)
(* threads append one file per message to {data_dir}/queue, one worker     *)
(* thread scans the directory, delivers each due message recipient domain  *)
(* by recipient domain, and rewrites, bounces or removes the file; the     *)
(* admin page may delete a file at any moment; the process may be killed   *)
(* and restarted between any two steps.                                    *)
(*                                                                         *)
(* A queue file is abstracted to how much of it is written (`onDisk') and  *)
(* to its header fields (`hdr').  Times are in units of the clock; `wnow'  *)
(* is the worker's reading of it, taken once per scan.                     *)
(***************************************************************************)
EXTENDS Integers, Sequences, FiniteSets

CONSTANTS
    Msg,          \* queue ids, in the order in which the worker sorts paths
    Rcpt,         \* recipient addresses
    To,           \* To[m]: the recipients message m is enqueued for
    DomainOf,     \* domain part of an address, NoDomain when it has none
    NoDomain,
    LocalSender,  \* messages whose envelope sender resolves to a mailbox
    Smarthost,    \* TRUE: everything goes through cfg.smarthost
    MaxAddrs,     \* bound: addresses tried for one domain
    Backoff,      \* BACKOFF_SECS
    MaxAge,       \* MAX_AGE_SECS
    Ticks,        \* bound: the amounts by which the clock may advance
    MaxClock,     \* bound: last clock value
    EnqueueBy,    \* bound: last clock value at which a message is enqueued
    MaxFaults,    \* bound: duplicating faults per message
    MaxCrashes    \* bound: crashes of the process

ASSUME MsgAssumption == Msg \subseteq Nat \ {0}
ASSUME ToAssumption == To \in [Msg -> (SUBSET Rcpt) \ {{}}]
ASSUME BackoffAssumption ==
    /\ Backoff \in Seq(Nat \ {0})
    /\ Backoff # << >>
    /\ MaxAge \in Nat \ {0}
ASSUME BoundAssumption ==
    /\ Ticks \subseteq Nat \ {0}
    /\ Smarthost \in BOOLEAN
    /\ {MaxAddrs, MaxClock, EnqueueBy, MaxFaults, MaxCrashes} \subseteq Nat

VARIABLES
    clock,      \* util::now_secs()
    onDisk,     \* onDisk[m]: how much of the file of m the path shows
    hdr,        \* hdr[m]: the header fields of that file
    enq,        \* enq[m]: progress of the call of enqueue for m
    linked,     \* messages whose path is still the inode enqueue writes to
    wpc,        \* the worker's control point
    wnow,       \* `now' of the current scan
    todo,       \* directory entries of the scan still to be visited
    cur,        \* the message being processed, or NoMsg
    msg,        \* the worker's copy of it (load_message)
    left,       \* recipients whose domain was not tried yet
    group,      \* recipients of the SMTP session under way
    tries,      \* addresses left to try for them
    remaining,  \* recipients that failed temporarily
    perm,       \* recipients to be named in a bounce
    copies,     \* history: copies[m][r], copies a remote host accepted
    notices,    \* history: bounces naming r stored in the sender's mailbox
    unreported, \* history: bounces naming r that reached nobody
    truncated,  \* history: recipients a cut-off body was sent to
    cancelled,  \* history: messages the admin page reported as deleted
    faults,     \* history: faults that may repeat work done for m
    crashes     \* history: crashes so far

diskVars == <<onDisk, hdr, linked>>
workVars == <<wpc, wnow, todo, cur, msg, left, group, tries, remaining, perm>>
fateVars == <<copies, notices, unreported, truncated>>
histVars == <<cancelled, faults, crashes>>
vars == <<clock, diskVars, enq, workVars, fateVars, histVars>>

NoMsg == 0
\* absent, no separator yet, separator but not the whole body, everything
Extent == {"absent", "partial", "torn", "whole"}
Header == [rcpts : SUBSET Rcpt, retry : Nat, next : Nat, created : Nat]
Loaded == [rcpts : SUBSET Rcpt, retry : Nat, created : Nat, whole : BOOLEAN]
NoHeader == [rcpts |-> {}, retry |-> 0, next |-> 0, created |-> 0]
NoLoaded == [rcpts |-> {}, retry |-> 0, created |-> 0, whole |-> FALSE]

\* How often the fate of r as a recipient of m was decided.
Decided(m, r) == copies[m][r] + notices[m][r] + unreported[m][r]

\* Add one to the count of every recipient in R.
Bump(count, m, R) ==
    [count EXCEPT ![m] = [r \in Rcpt |-> IF r \in R THEN @[r] + 1 ELSE @[r]]]

BackoffSecs(retry) ==
    IF retry < Len(Backoff) THEN Backoff[retry + 1] ELSE Backoff[Len(Backoff)]

\* Recipients that share the SMTP session of r.
SameSession(r) ==
    IF Smarthost THEN Rcpt ELSE {x \in Rcpt : DomainOf[x] = DomainOf[r]}

\* Recipients without a domain: refused outright unless a smarthost takes all.
Invalid(R) == IF Smarthost THEN {} ELSE {r \in R : DomainOf[r] = NoDomain}

\* Mutant: the age is compared strictly.
TooOldStrict(time, created) == time - created > MaxAge

\* Mutant: messages never expire.
TooOldNever(time, created) == FALSE

TooOld(time, created) == time - created >= MaxAge

-----------------------------------------------------------------------------
WorkerIdle ==
    /\ wpc = "sleep" /\ wnow = 0 /\ todo = {} /\ cur = NoMsg /\ msg = NoLoaded
    /\ left = {} /\ group = {} /\ tries = 0 /\ remaining = {} /\ perm = {}

Init ==
    /\ clock = 0
    /\ onDisk = [m \in Msg |-> "absent"]
    /\ hdr = [m \in Msg |-> NoHeader]
    /\ linked = {}
    /\ enq = [m \in Msg |-> "idle"]
    /\ WorkerIdle
    /\ copies = [m \in Msg |-> [r \in Rcpt |-> 0]]
    /\ notices = copies
    /\ unreported = copies
    /\ truncated = [m \in Msg |-> {}]
    /\ cancelled = {}
    /\ faults = [m \in Msg |-> 0]
    /\ crashes = 0

Tick ==
    /\ \E d \in Ticks : clock + d <= MaxClock /\ clock' = clock + d
    /\ UNCHANGED <<diskVars, enq, workVars, fateVars, histVars>>

-----------------------------------------------------------------------------
(* enqueue: the file is created under its final name and written in place. *)

\* create_new and the header lines; the separator is not there yet.
EnqueueCreate(m) ==
    /\ enq[m] = "idle"
    /\ clock <= EnqueueBy
    /\ onDisk' = [onDisk EXCEPT ![m] = "partial"]
    /\ hdr' = [hdr EXCEPT ![m] = [rcpts |-> To[m], retry |-> 0,
                                  next |-> clock, created |-> clock]]
    /\ linked' = linked \union {m}
    /\ enq' = [enq EXCEPT ![m] = "header"]
    /\ UNCHANGED <<clock, workVars, fateVars, histVars>>

\* A write by enqueue changes what the path shows while it is still its inode.
EnqueueWrite(m, from, to, extent) ==
    /\ enq[m] = from
    /\ enq' = [enq EXCEPT ![m] = to]
    /\ onDisk' = IF m \in linked THEN [onDisk EXCEPT ![m] = extent] ELSE onDisk
    /\ UNCHANGED <<clock, hdr, linked, workVars, fateVars, histVars>>

EnqueueSeparator(m) == EnqueueWrite(m, "header", "separator", "torn")

EnqueueBody(m) == EnqueueWrite(m, "separator", "body", "whole")

\* sync_all succeeded: the submission is acknowledged to the client.
EnqueueReturn(m) ==
    /\ enq[m] = "body"
    /\ enq' = [enq EXCEPT ![m] = "ok"]
    /\ UNCHANGED <<clock, diskVars, workVars, fateVars, histVars>>

\* A failed write or sync: the caller gets an error, the file stays behind.
EnqueueError(m) ==
    /\ enq[m] \in {"header", "separator", "body"}
    /\ enq' = [enq EXCEPT ![m] = "failed"]
    /\ UNCHANGED <<clock, diskVars, workVars, fateVars, histVars>>

\* delete_queued
AdminDelete(m) ==
    /\ onDisk[m] # "absent"
    /\ onDisk' = [onDisk EXCEPT ![m] = "absent"]
    /\ linked' = linked \ {m}
    /\ cancelled' = cancelled \union {m}
    /\ UNCHANGED <<clock, hdr, enq, workVars, fateVars, faults, crashes>>

-----------------------------------------------------------------------------
(* process_queue *)

WorkerWake ==
    /\ wpc = "sleep"
    /\ wpc' = "next"
    /\ wnow' = clock
    /\ todo' = {m \in Msg : onDisk[m] # "absent"}
    /\ UNCHANGED <<clock, diskVars, enq, cur, msg, left, group, tries,
                   remaining, perm, fateVars, histVars>>

ScanDone ==
    /\ wpc = "next"
    /\ todo = {}
    /\ wpc' = "sleep"
    /\ wnow' = 0
    /\ UNCHANGED <<clock, diskVars, enq, todo, cur, msg, left, group, tries,
                   remaining, perm, fateVars, histVars>>

\* The next directory entry in path order.
NextEntry(m) ==
    /\ wpc = "next"
    /\ m \in todo
    /\ \A other \in todo : m <= other

Readable(m) == onDisk[m] \in {"torn", "whole"}

\* The file is gone, has no separator, or is not due.
EntrySkip(m) ==
    /\ NextEntry(m)
    /\ \/ ~Readable(m)
       \/ hdr[m].next > wnow
    /\ todo' = todo \ {m}
    /\ UNCHANGED <<clock, diskVars, enq, wpc, wnow, cur, msg, left, group,
                   tries, remaining, perm, fateVars, histVars>>

\* Load a due file, keep its contents, go on at control point pc.
EntryLoad(m, pc) ==
    /\ NextEntry(m)
    /\ Readable(m)
    /\ hdr[m].next <= wnow
    /\ todo' = todo \ {m}
    /\ cur' = m
    /\ msg' = [rcpts |-> hdr[m].rcpts, retry |-> hdr[m].retry,
               created |-> hdr[m].created, whole |-> onDisk[m] = "whole"]
    /\ wpc' = pc
    /\ UNCHANGED <<clock, diskVars, enq, wnow, group, tries, remaining,
                   fateVars, histVars>>

\* 24 hours old: every recipient is bounced.
EntryExpired(m) ==
    /\ TooOld(wnow, hdr[m].created)
    /\ EntryLoad(m, "bounce")
    /\ perm' = hdr[m].rcpts
    /\ left' = {}

\* try_deliver groups the recipients by domain; those without one fail.
EntryAttempt(m) ==
    /\ ~TooOld(wnow, hdr[m].created)
    /\ EntryLoad(m, "domain")
    /\ perm' = Invalid(hdr[m].rcpts)
    /\ left' = hdr[m].rcpts \ Invalid(hdr[m].rcpts)

-----------------------------------------------------------------------------
(* try_deliver, deliver_to_domain and deliver_via_smarthost *)

\* Mutant: the recipients of the session are not taken off the list.
DomainStartStays(r) ==
    /\ wpc = "domain"
    /\ r \in left
    /\ group' = left \intersect SameSession(r)
    /\ tries' \in 0..(IF Smarthost THEN 1 ELSE MaxAddrs)
    /\ wpc' = "session"
    /\ UNCHANGED <<clock, diskVars, enq, wnow, todo, cur, msg, left, remaining,
                   perm, fateVars, histVars>>

\* The next session: its recipients and the number of addresses found for
\* them, none when the lookups fail.
DomainStart(r) ==
    /\ wpc = "domain"
    /\ r \in left
    /\ group' = left \intersect SameSession(r)
    /\ left' = left \ SameSession(r)
    /\ tries' \in 0..(IF Smarthost THEN 1 ELSE MaxAddrs)
    /\ wpc' = "session"
    /\ UNCHANGED <<clock, diskVars, enq, wnow, todo, cur, msg, remaining,
                   perm, fateVars, histVars>>

\* The session for the group is over.
EndSession ==
    /\ wpc' = "domain"
    /\ group' = {}
    /\ tries' = 0

\* Every address was tried in vain: the whole group stays in the queue.
DomainDeferred ==
    /\ wpc = "session"
    /\ tries = 0
    /\ remaining' = remaining \union group
    /\ EndSession
    /\ UNCHANGED <<clock, diskVars, enq, wnow, todo, cur, msg, left, perm,
                   fateVars, histVars>>

\* The remote host takes the message for every recipient of the session.
RemoteTakes ==
    /\ copies' = Bump(copies, cur, group)
    /\ truncated' = IF msg.whole THEN truncated
                    ELSE [truncated EXCEPT ![cur] = @ \union group]
    /\ UNCHANGED <<notices, unreported>>

\* smtp_send returns Ok.
AddressAccepts ==
    /\ wpc = "session"
    /\ tries > 0
    /\ RemoteTakes
    /\ EndSession
    /\ UNCHANGED <<clock, diskVars, enq, wnow, todo, cur, msg, left,
                   remaining, perm, histVars>>

\* A 5xx reply at any stage, to any recipient: no other address is tried.
AddressRefuses ==
    /\ wpc = "session"
    /\ tries > 0
    /\ perm' = perm \union group
    /\ EndSession
    /\ UNCHANGED <<clock, diskVars, enq, wnow, todo, cur, msg, left,
                   remaining, fateVars, histVars>>

\* A 4xx reply, an unexpected one, or an I/O error before the message was
\* taken: the next address is tried.
AddressFails ==
    /\ wpc = "session"
    /\ tries > 0
    /\ tries' = tries - 1
    /\ UNCHANGED <<clock, diskVars, enq, wpc, wnow, todo, cur, msg, left,
                   group, remaining, perm, fateVars, histVars>>

\* The host took the message but its reply is lost: an I/O error as well.
ReplyLost ==
    /\ wpc = "session"
    /\ tries > 0
    /\ faults[cur] < MaxFaults
    /\ faults' = [faults EXCEPT ![cur] = @ + 1]
    /\ tries' = tries - 1
    /\ RemoteTakes
    /\ UNCHANGED <<clock, diskVars, enq, wpc, wnow, todo, cur, msg, left,
                   group, remaining, perm, cancelled, crashes>>

\* Mutant: refused recipients are bounced only if no other was deferred.
DomainsDonePartly ==
    /\ wpc = "domain"
    /\ left = {}
    /\ wpc' = IF perm # {} /\ remaining = {} THEN "bounce" ELSE "outcome"
    /\ perm' = IF remaining = {} THEN perm ELSE {}
    /\ UNCHANGED <<clock, diskVars, enq, wnow, todo, cur, msg, left, group,
                   tries, remaining, fateVars, histVars>>

\* No domain is left.  Refused recipients are bounced: here when some others
\* were delivered or deferred, by process_queue when all were refused; the
\* bounce names the same recipients either way.
DomainsDone ==
    /\ wpc = "domain"
    /\ left = {}
    /\ wpc' = IF perm # {} THEN "bounce" ELSE "outcome"
    /\ UNCHANGED <<clock, diskVars, enq, wnow, todo, cur, msg, left, group,
                   tries, remaining, perm, fateVars, histVars>>

-----------------------------------------------------------------------------
(* bounce_message *)

\* The notice is stored in the sender's Maildir.
BounceStored ==
    /\ wpc = "bounce"
    /\ cur \in LocalSender
    /\ notices' = Bump(notices, cur, perm)
    /\ perm' = {}
    /\ wpc' = "outcome"
    /\ UNCHANGED <<clock, diskVars, enq, wnow, todo, cur, msg, left, group,
                   tries, remaining, copies, unreported, truncated, histVars>>

\* The sender is not local, or the Maildir refused the notice: only logged.
BounceUnreported ==
    /\ wpc = "bounce"
    /\ unreported' = Bump(unreported, cur, perm)
    /\ perm' = {}
    /\ wpc' = "outcome"
    /\ UNCHANGED <<clock, diskVars, enq, wnow, todo, cur, msg, left, group,
                   tries, remaining, copies, notices, truncated, histVars>>

-----------------------------------------------------------------------------
(* process_queue: what becomes of the file *)

NextAttempt == wnow + BackoffSecs(msg.retry)

\* Nobody is left (Success, PermFail, or bounced after expiry).
OutcomeDone ==
    /\ wpc = "outcome"
    /\ remaining = {}
    /\ wpc' = "remove"
    /\ UNCHANGED <<clock, diskVars, enq, wnow, todo, cur, msg, left, group,
                   tries, remaining, perm, fateVars, histVars>>

\* Mutant: what remains is removed without a bounce.
OutcomeGiveUpSilently ==
    /\ wpc = "outcome"
    /\ remaining # {}
    /\ TooOld(NextAttempt, msg.created) \/ TooOld(wnow, msg.created)
    /\ remaining' = {}
    /\ wpc' = "remove"
    /\ UNCHANGED <<clock, diskVars, enq, wnow, todo, cur, msg, left, group,
                   tries, perm, fateVars, histVars>>

\* The next attempt would be too late: bounce what remains.
OutcomeGiveUp ==
    /\ wpc = "outcome"
    /\ remaining # {}
    /\ TooOld(NextAttempt, msg.created) \/ TooOld(wnow, msg.created)
    /\ perm' = remaining
    /\ remaining' = {}
    /\ wpc' = "bounce"
    /\ UNCHANGED <<clock, diskVars, enq, wnow, todo, cur, msg, left, group,
                   tries, fateVars, histVars>>

\* The worker is done with cur and goes on with the scan.
EndEntry ==
    /\ wpc' = "next"
    /\ cur' = NoMsg
    /\ msg' = NoLoaded
    /\ remaining' = {}
    /\ UNCHANGED <<wnow, todo, left, group, tries, perm>>

\* Mutant: the recipients already served stay in the rewritten file.
OutcomeRetryAll ==
    /\ wpc = "outcome"
    /\ remaining # {}
    /\ ~TooOld(NextAttempt, msg.created) /\ ~TooOld(wnow, msg.created)
    /\ hdr' = [hdr EXCEPT ![cur] =
                 [rcpts |-> msg.rcpts, retry |-> msg.retry + 1,
                  next |-> NextAttempt, created |-> msg.created]]
    /\ onDisk' = [onDisk EXCEPT ![cur] = IF msg.whole THEN "whole" ELSE "torn"]
    /\ linked' = linked \ {cur}
    /\ EndEntry
    /\ UNCHANGED <<clock, enq, fateVars, histVars>>

\* rewrite_message: a new file is renamed over the path, there or not.
OutcomeRetry ==
    /\ wpc = "outcome"
    /\ remaining # {}
    /\ ~TooOld(NextAttempt, msg.created) /\ ~TooOld(wnow, msg.created)
    /\ hdr' = [hdr EXCEPT ![cur] =
                 [rcpts |-> remaining, retry |-> msg.retry + 1,
                  next |-> NextAttempt, created |-> msg.created]]
    /\ onDisk' = [onDisk EXCEPT ![cur] = IF msg.whole THEN "whole" ELSE "torn"]
    /\ linked' = linked \ {cur}
    /\ EndEntry
    /\ UNCHANGED <<clock, enq, fateVars, histVars>>

\* `let _ = remove_file': a file already gone is the same as one removed.
RemoveFile ==
    /\ wpc = "remove"
    /\ onDisk' = [onDisk EXCEPT ![cur] = "absent"]
    /\ linked' = linked \ {cur}
    /\ EndEntry
    /\ UNCHANGED <<clock, hdr, enq, fateVars, histVars>>

\* The error of remove_file or rewrite_message is dropped: the old file stays.
PersistError ==
    /\ \/ wpc = "remove"
       \/ /\ wpc = "outcome" /\ remaining # {}
          /\ ~TooOld(NextAttempt, msg.created) /\ ~TooOld(wnow, msg.created)
    /\ faults[cur] < MaxFaults
    /\ faults' = [faults EXCEPT ![cur] = @ + 1]
    /\ EndEntry
    /\ UNCHANGED <<clock, diskVars, enq, fateVars, cancelled, crashes>>

-----------------------------------------------------------------------------
\* The process is killed, or exits 2 s after SIGTERM, and is started again.
Crash ==
    /\ crashes < MaxCrashes
    /\ cur # NoMsg => faults[cur] < MaxFaults
    /\ crashes' = crashes + 1
    /\ faults' = [m \in Msg |-> IF m = cur THEN faults[m] + 1 ELSE faults[m]]
    /\ enq' = [m \in Msg |-> IF enq[m] \in {"header", "separator", "body"}
                             THEN "failed" ELSE enq[m]]
    /\ linked' = {}
    /\ wpc' = "sleep" /\ wnow' = 0 /\ todo' = {} /\ cur' = NoMsg
    /\ msg' = NoLoaded /\ left' = {} /\ group' = {} /\ tries' = 0
    /\ remaining' = {} /\ perm' = {}
    /\ UNCHANGED <<clock, onDisk, hdr, fateVars, cancelled>>

Enqueue(m) ==
    \/ EnqueueCreate(m) \/ EnqueueSeparator(m) \/ EnqueueBody(m)
    \/ EnqueueReturn(m) \/ EnqueueError(m)

Visit(m) == EntrySkip(m) \/ EntryExpired(m) \/ EntryAttempt(m)

Session ==
    \/ \E r \in Rcpt : DomainStart(r)
    \/ DomainDeferred \/ AddressAccepts \/ AddressRefuses \/ AddressFails
    \/ ReplyLost \/ DomainsDone

Settle ==
    \/ BounceStored \/ BounceUnreported
    \/ OutcomeDone \/ OutcomeGiveUp \/ OutcomeRetry \/ RemoveFile
    \/ PersistError

Worker ==
    \/ WorkerWake \/ ScanDone
    \/ \E m \in Msg : Visit(m)
    \/ Session
    \/ Settle

Next ==
    \/ Tick
    \/ \E m \in Msg : Enqueue(m) \/ AdminDelete(m)
    \/ Worker
    \/ Crash

Spec == Init /\ [][Next]_vars

\* The worker thread never stops, an enqueue under way runs on, time passes.
FairSpec ==
    /\ Spec
    /\ WF_vars(Worker)
    /\ WF_vars(Tick)
    /\ \A m \in Msg : WF_vars(enq[m] # "idle" /\ Enqueue(m))
-----------------------------------------------------------------------------
TypeOK ==
    /\ clock \in Nat
    /\ onDisk \in [Msg -> Extent]
    /\ hdr \in [Msg -> Header]
    /\ enq \in [Msg -> {"idle", "header", "separator", "body", "ok", "failed"}]
    /\ linked \subseteq Msg
    /\ wpc \in {"sleep", "next", "domain", "session", "bounce", "outcome",
               "remove"}
    /\ wnow \in Nat
    /\ todo \subseteq Msg
    /\ cur \in Msg \union {NoMsg}
    /\ msg \in Loaded
    /\ {left, group, remaining, perm} \subseteq SUBSET Rcpt
    /\ tries \in Nat
    /\ {copies, notices, unreported} \subseteq [Msg -> [Rcpt -> Nat]]
    /\ truncated \in [Msg -> SUBSET Rcpt]
    /\ cancelled \subseteq Msg
    /\ faults \in [Msg -> Nat]
    /\ crashes \in Nat

\* Durability: from the moment a submission is acknowledged, each of its
\* recipients was taken by a remote host or named in a bounce, or the admin
\* deleted the message, or the queue file still names it and the worker can
\* read it - whatever the crashes, failed renames and partial outcomes.
NoSilentLoss ==
    \A m \in Msg : enq[m] = "ok" =>
        \A r \in To[m] :
            \/ Decided(m, r) > 0
            \/ m \in cancelled
            \/ Readable(m) /\ r \in hdr[m].rcpts

\* A recipient gets one copy, or is named in one bounce, and never both: each
\* repetition is paid for by a lost reply, a crash in mid-message or a failed
\* rename or removal of the queue file.
OneFateBarringFaults ==
    \A m \in Msg : \A r \in Rcpt : Decided(m, r) <= 1 + faults[m]

\* The backoff never parks a message beyond its lifetime: the next attempt of
\* every queued message falls before the moment it expires.
AttemptBeforeExpiry ==
    \A m \in Msg : onDisk[m] # "absent" =>
        hdr[m].next < hdr[m].created + MaxAge

\* Every acknowledged message leaves the queue directory.
QueueDrains == \A m \in Msg : enq[m] = "ok" ~> onDisk[m] = "absent"

-----------------------------------------------------------------------------
(* Why the safety properties hold: an inductive invariant. *)

\* Recipients of cur the worker still has to do something about.
Pending == left \union group \union remaining \union perm

\* The file of a message and the call of enqueue that writes it.
FileInv ==
    \A m \in Msg :
        /\ enq[m] = "idle" =>
               /\ onDisk[m] = "absent" /\ m # cur
               /\ \A r \in Rcpt : Decided(m, r) = 0
        /\ m \in linked => onDisk[m] # "absent"
        /\ onDisk[m] = "partial" =>
               \/ enq[m] = "failed"
               \/ enq[m] = "header" /\ m \in linked

\* The worker's four lists are disjoint and empty where they were used up.
WorkerInv ==
    /\ cur = NoMsg <=> wpc \in {"sleep", "next"}
    /\ cur = NoMsg => Pending = {}
    /\ wpc # "session" => group = {}
    /\ wpc \notin {"domain", "session"} => left = {}
    /\ wpc \in {"outcome", "remove"} => perm = {}
    /\ wpc = "remove" => remaining = {}
    /\ \A r \in Pending : r \in left => r \notin group \union remaining \union perm
    /\ \A r \in Pending : r \in group => r \notin remaining \union perm
    /\ \A r \in Pending : r \in remaining => r \notin perm

\* Nobody is forgotten: on disk, or in the worker's lists, or decided.
AccountInv ==
    /\ \A m \in Msg : enq[m] # "idle" =>
           \A r \in To[m] :
               \/ Decided(m, r) > 0
               \/ m \in cancelled
               \/ onDisk[m] # "absent" /\ r \in hdr[m].rcpts
    /\ cur # NoMsg =>
           \A r \in To[cur] :
               r \in Pending \/ Decided(cur, r) > 0 \/ cur \in cancelled

\* Whoever is still to be served has a fault to spare.
CopyInv ==
    /\ OneFateBarringFaults
    /\ \A m \in Msg : m # cur /\ onDisk[m] # "absent" =>
           \A r \in hdr[m].rcpts : Decided(m, r) <= faults[m]
    /\ cur # NoMsg => \A r \in Pending : Decided(cur, r) <= faults[cur]

\* The inductive invariant behind NoSilentLoss, OneFateBarringFaults and
\* AttemptBeforeExpiry (see OutboundQueueProofs.tla).
IndInv ==
    TypeOK /\ FileInv /\ WorkerInv /\ AccountInv /\ CopyInv
    /\ AttemptBeforeExpiry

-----------------------------------------------------------------------------
(* Promises of the documentation that the code does not keep. *)

\* delete_queued answered "Queue entry deleted.": the entry stays deleted.
\* (The worker renames a rewritten copy over the path of one in flight.)
DeletedStaysDeleted == \A m \in cancelled : onDisk[m] = "absent"

\* What a remote host takes of an acknowledged message is the whole of it.
\* (The worker reads a file that enqueue has not finished writing.)
OnlyWholeMessages == \A m \in Msg : enq[m] = "ok" => truncated[m] = {}

-----------------------------------------------------------------------------
(* The queue as a hand-off: see Handoff.tla. *)

LedgerEntry(m, r) ==
    IF Decided(m, r) > 0 \/ (m \in cancelled /\ r \in To[m]) THEN "settled"
    ELSE IF enq[m] # "ok" \/ r \notin To[m] THEN "none"
    ELSE IF Readable(m) /\ r \in hdr[m].rcpts THEN "owed"
    ELSE "lost"

Ledger == INSTANCE Handoff
              WITH ledger <- [m \in Msg |-> [r \in Rcpt |-> LedgerEntry(m, r)]]

\* Every step of the queue accepts, settles or leaves alone what it owes, and
\* everything owed is settled in the end.
HandoffSpec == Ledger!FairSpec
=============================================================================

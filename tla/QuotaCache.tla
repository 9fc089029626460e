------------------------------ MODULE QuotaCache ------------------------------
(* The quota of a mailbox: check_quota of smtp.rs and its like in imap.rs look *)
(* at the size of the mailbox, which storage.rs keeps for some seconds after  *)
(* it went through all directories to add it up.  Sessions check, scan and    *)
(* store at the same time, and others move, mark and remove messages or store *)
(* unchecked.                                                                 *)
(*                                                                            *)
(* A folder has two directories, new and cur.  A scan lists a directory and   *)
(* then asks for the size of each entry by its name: what is renamed          *)
(* meanwhile may be missed, or counted in both places.  What cannot be read   *)
(* is passed over.  A size is the set of the entries that were counted, each  *)
(* of size one.                                                               *)
EXTENDS Naturals, FiniteSets

CONSTANTS
    Session, Message,
    Folder, Inbox,    \* folders, and the one that is the mailbox's own directory
    Quota, Ttl,       \* in messages; SIZE_CACHE_TTL_SECS
    Lag,              \* the time a scan takes at most
    MaxClock, MaxChanges      \* bounds: the clock; changes by others and read errors

QuotaAssumption ==
    /\ Inbox \in Folder
    /\ {Quota, Ttl, Lag, MaxClock, MaxChanges} \subseteq Nat /\ Quota > 0 /\ Ttl > 0

VARIABLES
    clock,
    place,      \* of each message: a directory, or NoPlace, or Gone
    cache,      \* size_cache: what was counted and when, or none
    pc,
    msg,        \* of each session: the message it has stored and not announced
    todo, listed, counted, begun,   \* its scan: directories to read, entries of
                \* the one being read that are still there, entries counted
    unread,     \* history, with the scan: messages passed over for an error
    since,      \* of each message: when it was stored, or renamed during a scan
    hidden,     \* messages stored without the cache being told, or during a scan,
                \* or renamed during a scan
    pending,    \* messages that were stored and not yet announced
    changes     \* so far

vars == <<clock, place, cache, pc, msg, todo, listed, counted, begun, unread, since, hidden,
          pending, changes>>
scan  == <<todo, listed, counted, begun, unread>>
ghost == <<since, hidden, pending, changes>>

NoPlace == <<>>
Gone == <<"gone">>
Dir == Folder \X {"new", "cur"}

Kept == {m \in Message : place[m] \in Dir}
Scanning == {s \in Session : pc[s] = "scan"}

Init ==
    /\ clock = 0 /\ place \in [Message -> {NoPlace, <<Inbox, "new">>}] /\ cache = {}
    /\ pc = [s \in Session |-> "idle"]
    /\ msg = [s \in Session |-> {}]
    /\ todo = [s \in Session |-> {}] /\ listed = [s \in Session |-> {}]
    /\ counted = [s \in Session |-> {}] /\ unread = [s \in Session |-> {}]
    /\ begun = [s \in Session |-> 0]
    /\ since = [m \in Message |-> 0] /\ hidden = {} /\ pending = {} /\ changes = 0

Step(s, from, to) == pc[s] = from /\ pc' = [pc EXCEPT ![s] = to]

-------------------------------------------------------------------------------
(* mailbox_size.                                                              *)

(* Mutant: an entry is used whatever its age. *)
FreshAlways(e) == TRUE
Fresh(e) == clock - e.at < Ttl

(* The kept size, if it is fresh ...                                          *)
CheckCached(s) ==
    /\ Step(s, "idle", "decide")
    /\ \E e \in cache : /\ Fresh(e)
                       /\ counted' = [counted EXCEPT ![s] = e.counted]
                       /\ unread' = [unread EXCEPT ![s] = e.unread]
    /\ UNCHANGED <<clock, place, cache, msg, todo, listed, begun, ghost>>

(* ... or one directory after another ...                                     *)
CheckScan(s) ==
    /\ Step(s, "idle", "scan")
    /\ \A e \in cache : ~Fresh(e)
    /\ todo' = [todo EXCEPT ![s] = Dir]
    /\ begun' = [begun EXCEPT ![s] = clock]
    /\ UNCHANGED <<clock, place, cache, msg, listed, counted, unread, ghost>>

ScanList(s, d) ==
    /\ pc[s] = "scan" /\ listed[s] = {} /\ d \in todo[s]
    /\ todo' = [todo EXCEPT ![s] = @ \ {d}]
    /\ listed' = [listed EXCEPT ![s] = {m \in Message : place[m] = d}]
    /\ UNCHANGED <<clock, place, cache, pc, msg, counted, begun, unread, ghost>>

ScanCount(s, m) ==
    /\ m \in listed[s]
    /\ listed' = [listed EXCEPT ![s] = @ \ {m}]
    /\ counted' = [counted EXCEPT ![s] = @ \union {<<m, place[m]>>}]
    /\ UNCHANGED <<clock, place, cache, pc, msg, todo, begun, unread, ghost>>

(* A directory that cannot be read, with all below it, or an entry whose size *)
(* cannot, is passed over, and the scan goes on.                              *)
Error(s, missed) ==
    /\ changes < MaxChanges /\ changes' = changes + 1
    /\ unread' = [unread EXCEPT ![s] = @ \union missed]
    /\ UNCHANGED <<clock, place, cache, pc, msg, counted, begun, since, hidden, pending>>

ScanSkip(s, dirs) ==
    /\ pc[s] = "scan" /\ listed[s] = {} /\ dirs # {}
    /\ Error(s, {m \in Message : place[m] \in dirs})
    /\ todo' = [todo EXCEPT ![s] = @ \ dirs] /\ UNCHANGED listed

ScanFails(s, m) ==
    /\ m \in listed[s]
    /\ Error(s, {m})
    /\ listed' = [listed EXCEPT ![s] = @ \ {m}] /\ UNCHANGED todo

(* ... kept with the time the scan ended.                                     *)
ScanDone(s) ==
    /\ Step(s, "scan", "decide") /\ todo[s] = {} /\ listed[s] = {}
    /\ cache' = {[counted |-> counted[s], unread |-> unread[s], at |-> clock]}
    /\ UNCHANGED <<clock, place, msg, scan, ghost>>

-------------------------------------------------------------------------------
(* would_exceed_quota.                                                        *)
Exceeds(s) == Cardinality(counted[s]) + 1 > Quota

Give(s, from) ==
    /\ Step(s, from, "idle")
    /\ msg' = [msg EXCEPT ![s] = {}]
    /\ counted' = [counted EXCEPT ![s] = {}] /\ unread' = [unread EXCEPT ![s] = {}]
    /\ begun' = [begun EXCEPT ![s] = 0]
    /\ UNCHANGED <<todo, listed>>

(* The message is refused, or cannot be stored.  (What is in tmp when a scan  *)
(* comes by is counted as well: more is refused then, and never less.)        *)
Refuse(s) ==
    /\ Exceeds(s) /\ Give(s, "decide")
    /\ UNCHANGED <<clock, place, cache, ghost>>

StoreFails(s) ==
    /\ ~Exceeds(s) /\ Give(s, "decide")
    /\ UNCHANGED <<clock, place, cache, ghost>>

(* What a change in a folder does to the kept size, by the path of the folder *)
(* (invalidate_size_cache_for_path): the path of a folder below the mailbox   *)
(* is part of no key.                                                         *)
Told(f) == cache' = IF f = Inbox THEN {} ELSE cache

Arrives(m, d) ==
    /\ place' = [place EXCEPT ![m] = d]
    /\ since' = [since EXCEPT ![m] = clock]

(* The name m was listed under is no more.                                    *)
Unlisted(m) == listed' = [s \in Session |-> listed[s] \ {m}]

(* deliver or append_raw, under a new name ...                                *)
Store(s, m, d) ==
    /\ ~Exceeds(s) /\ Step(s, "decide", "forget")
    /\ place[m] = NoPlace
    /\ msg' = [msg EXCEPT ![s] = {m}]
    /\ Arrives(m, d)
    /\ pending' = pending \union {m}
    /\ UNCHANGED <<clock, cache, scan, hidden, changes>>

(* ... then invalidate_quota_cache.                                           *)
Forget(s) ==
    /\ Give(s, "forget")
    /\ cache' = {}
    /\ pending' = pending \ msg[s]
    /\ hidden' = IF Scanning # {} THEN hidden \union (msg[s] \intersect Kept) ELSE hidden
    /\ UNCHANGED <<clock, place, since, changes>>

(* Webmail stores what is sent, and drafts, without a check.                  *)
StoreUnchecked(m, d) ==
    /\ place[m] = NoPlace
    /\ Arrives(m, d)
    /\ Told(d[1])
    /\ hidden' = IF d[1] # Inbox \/ Scanning # {} THEN hidden \union {m} ELSE hidden
    /\ UNCHANGED <<clock, pc, msg, scan, pending>>

Expunge(m) ==
    /\ m \in Kept
    /\ place' = [place EXCEPT ![m] = Gone] /\ Unlisted(m)
    /\ Told(place[m][1])
    /\ hidden' = hidden \ {m} /\ pending' = pending \ {m}
    /\ UNCHANGED <<clock, pc, msg, todo, counted, begun, unread, since>>

(* A message gets another name.                                               *)
Rename(m, d) ==
    /\ place' = [place EXCEPT ![m] = d] /\ Unlisted(m)
    /\ IF Scanning # {}
       THEN since' = [since EXCEPT ![m] = clock] /\ hidden' = hidden \union {m}
       ELSE UNCHANGED <<since, hidden>>
    /\ UNCHANGED <<clock, pc, msg, todo, counted, begun, unread, pending>>

(* store_flags: to cur, or to another name in it.                             *)
Mark(m) ==
    /\ m \in Kept
    /\ Rename(m, <<place[m][1], "cur">>)
    /\ Told(place[m][1])

(* take_message, from one folder to another.                                  *)
Move(m, f) ==
    /\ m \in Kept /\ f # place[m][1]
    /\ Rename(m, <<f, place[m][2]>>)
    /\ Told(IF place[m][1] = Inbox THEN Inbox ELSE f)

Tick ==
    /\ clock < MaxClock
    /\ \A s \in Scanning : clock < begun[s] + Lag
    /\ clock' = clock + 1
    /\ UNCHANGED <<place, cache, pc, msg, scan, ghost>>

Change(m) ==
    /\ changes < MaxChanges /\ changes' = changes + 1
    /\ \/ Expunge(m) \/ Mark(m)
       \/ (\E f \in Folder : Move(m, f)) \/ (\E d \in Dir : StoreUnchecked(m, d))
Next ==
    \/ Tick \/ (\E m \in Message : Change(m))
    \/ \E s \in Session :
         \/ CheckCached(s) \/ CheckScan(s)
         \/ (\E m \in Message, d \in Dir : Store(s, m, d))
         \/ (\E d \in Dir : ScanList(s, d))
         \/ (\E m \in Message : ScanCount(s, m) \/ ScanFails(s, m))
         \/ (\E dirs \in SUBSET todo[s] : ScanSkip(s, dirs))
         \/ ScanDone(s) \/ Refuse(s) \/ StoreFails(s) \/ Forget(s)
    \/ clock = MaxClock /\ UNCHANGED vars

Spec == Init /\ [][Next]_vars

-------------------------------------------------------------------------------
(* The messages in the mailbox that a size leaves out.                        *)
LeftOut(size) == {m \in Kept : \A d \in Dir : <<m, d>> \notin size}

(* When a session has the size it decides by, a message in the mailbox that   *)
(* it leaves out is one that is just being stored, one that the scan could    *)
(* not read, or one that was renamed, or arrived, during somebody's scan, or  *)
(* arrived in a folder nobody tells of - and the latter only for the time a   *)
(* size is kept and a scan takes (mailbox_size, invalidate_quota_cache): what *)
(* goes over the quota is a burst.                                            *)
LeftOutForCause ==
    [][\A s \in Session : pc'[s] = "decide" /\ pc[s] # "decide" =>
          \A m \in LeftOut(counted'[s]) :
             \/ m \in pending
             \/ m \in unread'[s]
             \/ m \in hidden /\ clock < since[m] + Ttl + Lag]_vars
===============================================================================

------------------------------- MODULE Mailbox -------------------------------
(***************************************************************************)
(* The Maildir of a user (src/src/storage.rs) and the threads that work on *)
(* it: IMAP sessions (imap.rs), webmail requests (web.rs) and deliveries.  *)
(* There are no locks.  A message is one file; its folder, its             *)
(* subdirectory (new or cur) and its flags are its path, and every change  *)
(* is one rename or one unlink of the path the thread saw when it listed   *)
(* the folder: if the message was changed since, the call fails.  What a   *)
(* crash does to a thread, an error does too: it stops between two calls.  *)
(*                                                                         *)
(* A listing reads the directory new and then the directory cur, and reads *)
(* neither at one instant: what changes meanwhile may be seen before the   *)
(* change, after it, both, or not at all.                                  *)
(*                                                                         *)
(* The order of file names is not the order of arrival (the counter in     *)
(* them is not padded), so an arriving message may be any of Msg.          *)
(***************************************************************************)
EXTENDS Naturals, FiniteSets

CONSTANTS
    Msg,        \* base names of files, in the order in which they sort
    UidOf,      \* UidOf[m]: the hash of the base name
    Thread,     \* threads: an IMAP session or a web request each
    Folder, Inbox, Junk, Trash,
    Nowhere,    \* the folder of a file that is not there
    Flag, Seen, Flagged, Deleted,
    Rank,       \* Rank[flags]: the order of flag letters at the end of a name
    Early,      \* messages an earlier run of the server left in the mailbox
    FlagSets,   \* bound: flags of an early message, in a STORE or an APPEND
    MaxChanges  \* bound: deliveries, commands and requests that may change it

ASSUME MsgAssumption == Msg \subseteq Nat /\ Early \subseteq Msg
ASSUME FolderAssumption == {Inbox, Junk, Trash} \subseteq Folder /\ Nowhere \notin Folder
ASSUME FlagAssumption == {Seen, Flagged, Deleted} \subseteq Flag /\ {} \in FlagSets /\ FlagSets \subseteq SUBSET Flag
ASSUME DistinctAssumption == Deleted \notin {Seen, Flagged}
ASSUME RankAssumption == Rank \in [SUBSET Flag -> Nat]
ASSUME BoundAssumption == MaxChanges \in Nat

VARIABLES
    file,    \* file[m]: the path of m
    stored,  \* messages that have been stored (their names are not used again)
    pc,      \* what the thread is doing; "new", "cur": the directory it reads
    folder,  \* the folder an IMAP session has selected
    snap,    \* its view: the entries the last listing found
    cmd,     \* the command or request under way
    found,   \* what the listing under way has found in new
    kept,    \* entries of the directory being read since it was opened
    seen,    \* entries that have been in it at some time since then
    since,   \* history: messages in the folder all through the listing that
             \* no rename within one directory has hidden from it
    work,    \* the entries of snap the command is still to visit
    changes  \* history: deliveries, commands that may change the mailbox, so far

vars == <<file, stored, pc, folder, snap, cmd, found, kept, seen, since, work, changes>>
viewVars == <<folder, snap>>
readVars == <<kept, seen, since>>

Sub == {"new", "cur"}
Path == [folder : Folder \union {Nowhere}, sub : Sub, flags : SUBSET Flag]
Meta == [msg : Msg, sub : Sub, flags : SUBSET Flag]
Gone == [folder |-> Nowhere, sub |-> "new", flags |-> {}]

Mode == {"FLAGS", "+FLAGS", "-FLAGS"}
ImapCommand == {"select", "refresh", "append", "store", "expunge", "close", "copy"}
WebFlagRequest == {"open", "read", "unread", "star"}
WebRequest == WebFlagRequest \union {"delete", "spam", "notspam", "empty"}
Uid == {UidOf[m] : m \in Msg}
Command == [name : ImapCommand \union WebRequest \union {"none"}, folder : Folder,
            mode : Mode, flags : SUBSET Flag, uids : SUBSET Uid]
NoCommand == [name |-> "none", folder |-> Inbox, mode |-> "FLAGS", flags |-> {},
              uids |-> {}]

Entry(m, path) == [msg |-> m, sub |-> path.sub, flags |-> path.flags]
PathOf(f, meta) == [folder |-> f, sub |-> meta.sub, flags |-> meta.flags]

\* The path the thread saw is still there.
Exists(f, meta) == file[meta.msg] = PathOf(f, meta)

InFolder(f) == {m \in Msg : file[m].folder = f}
InSub(f, sub) == {Entry(m, file[m]) : m \in {x \in InFolder(f) : file[x].sub = sub}}

\* The order of a listing: by file name; the name a message has in new is a
\* prefix of the one it has in cur.
Before(a, b) ==
    \/ a.msg < b.msg
    \/ a.msg = b.msg /\ a.sub = "new" /\ b.sub = "cur"
    \/ a.msg = b.msg /\ a.sub = b.sub /\ Rank[a.flags] < Rank[b.flags]
IsFirst(a, metas) == \A b \in metas : ~Before(b, a)
IsLast(a, metas) == \A b \in metas : ~Before(a, b)

\* The mailbox as an earlier run of the server left it.
Init ==
    /\ file \in [Msg -> Path]
    /\ \A m \in Msg : /\ file[m].flags \in FlagSets
                      /\ file[m].sub = "new" => file[m].flags = {}
                      /\ IF m \in Early THEN file[m].folder # Nowhere ELSE file[m] = Gone
    /\ stored = Early
    /\ pc = [t \in Thread |-> "out"]
    /\ folder = [t \in Thread |-> Inbox]
    /\ snap = [t \in Thread |-> {}]
    /\ cmd = [t \in Thread |-> NoCommand]
    /\ found = [t \in Thread |-> {}]
    /\ kept = [t \in Thread |-> {}]
    /\ seen = [t \in Thread |-> {}]
    /\ since = [t \in Thread |-> {}]
    /\ work = [t \in Thread |-> {}]
    /\ changes = 0

\* The connection or the request is over, and its view with it.
NoView(t) ==
    /\ folder' = [folder EXCEPT ![t] = Inbox]
    /\ snap' = [snap EXCEPT ![t] = {}]

Goto(t, stage) == pc' = [pc EXCEPT ![t] = stage]
Run(t, command) == cmd' = [cmd EXCEPT ![t] = command]
CountChange == changes < MaxChanges /\ changes' = changes + 1

\* The path of m becomes path, under the eyes of the listings under way.
Change(m, path) ==
    /\ file' = [file EXCEPT ![m] = path]
    /\ kept' = [t \in Thread |-> {e \in kept[t] : e.msg # m}]
    /\ seen' = [t \in Thread |-> IF path.folder = cmd[t].folder /\ path.sub = pc[t]
                                 THEN seen[t] \union {Entry(m, path)} ELSE seen[t]]
    /\ since' = [t \in Thread |-> IF path.folder = file[m].folder /\ path.sub # file[m].sub
                                  THEN since[t] ELSE since[t] \ {m}]

-----------------------------------------------------------------------------
(* deliver, append_raw *)

\* Mutant: into new, whatever the flags are.
AppendToNew(m, f, flags) ==
    /\ m \notin stored
    /\ stored' = stored \union {m}
    /\ Change(m, [folder |-> f, sub |-> "new", flags |-> flags])

\* Flagged messages go to cur.
AppendRaw(m, f, flags) ==
    /\ m \notin stored
    /\ stored' = stored \union {m}
    /\ Change(m, [folder |-> f, sub |-> IF flags = {} THEN "new" ELSE "cur",
                  flags |-> flags])

\* Whoever delivers: written to tmp, synced, renamed into new.
Deliver(m, f) ==
    /\ CountChange
    /\ AppendRaw(m, f, {})
    /\ UNCHANGED <<pc, viewVars, cmd, found, work>>

-----------------------------------------------------------------------------
(* list_messages *)

\* t starts to list folder f: it opens new.
StartListing(t, f) ==
    /\ Goto(t, "new")
    /\ kept' = [kept EXCEPT ![t] = InSub(f, "new")]
    /\ seen' = [seen EXCEPT ![t] = InSub(f, "new")]
    /\ since' = [since EXCEPT ![t] = InFolder(f)]

ReadNew(t) ==
    /\ pc[t] = "new"
    /\ \E chance \in SUBSET (seen[t] \ kept[t]) :
          found' = [found EXCEPT ![t] = kept[t] \union chance]
    /\ Goto(t, "cur")
    /\ kept' = [kept EXCEPT ![t] = InSub(cmd[t].folder, "cur")]
    /\ seen' = [seen EXCEPT ![t] = InSub(cmd[t].folder, "cur")]
    /\ UNCHANGED <<file, stored, viewVars, cmd, since, work, changes>>

NoListing(t) ==
    /\ found' = [found EXCEPT ![t] = {}]
    /\ kept' = [kept EXCEPT ![t] = {}]
    /\ seen' = [seen EXCEPT ![t] = {}]
    /\ since' = [since EXCEPT ![t] = {}]

\* The entry a request finds for a uid is the first that has it; emptying a
\* folder is about all of them.
Chosen(listing, command) ==
    IF command.name = "empty" THEN listing
    ELSE {x \in listing :
             /\ UidOf[x.msg] \in command.uids
             /\ IsFirst(x, {y \in listing : UidOf[y.msg] = UidOf[x.msg]})}

\* An IMAP session takes the listing for its view, a web request looks up in it
\* the messages it is about.
ReadCur(t) ==
    /\ pc[t] = "cur"
    /\ \E chance \in SUBSET (seen[t] \ kept[t]) :
          LET listing == found[t] \union kept[t] \union chance IN
          /\ snap' = [snap EXCEPT ![t] = listing]
          /\ work' = [work EXCEPT ![t] = IF cmd[t].name \in WebRequest
                                         THEN Chosen(listing, cmd[t]) ELSE {}]
    /\ folder' = [folder EXCEPT ![t] = cmd[t].folder]
    /\ IF cmd[t].name \in WebRequest
       THEN Goto(t, "web") /\ Run(t, [cmd[t] EXCEPT !.uids = {}])
       ELSE Goto(t, "ready") /\ Run(t, NoCommand)
    /\ NoListing(t)
    /\ UNCHANGED <<file, stored, changes>>

\* A file vanishes between read_dir and metadata, or there is an I/O error: a
\* request ends, a session goes on with the view it had.  (Failing earlier makes
\* no difference.)
ListFails(t) ==
    /\ pc[t] = "cur"
    /\ Goto(t, IF cmd[t].name \in WebRequest \union {"select"} THEN "out" ELSE "ready")
    /\ Run(t, NoCommand)
    /\ NoListing(t)
    /\ UNCHANGED <<file, stored, viewVars, work, changes>>

-----------------------------------------------------------------------------
(* IMAP *)

\* SELECT or EXAMINE, the first or another.
Select(t, f) ==
    /\ pc[t] \in {"out", "ready"}
    /\ Run(t, [NoCommand EXCEPT !.name = IF pc[t] = "out" THEN "select" ELSE "refresh",
                                !.folder = f])
    /\ StartListing(t, f)
    /\ UNCHANGED <<file, stored, viewVars, found, work, changes>>

\* NOOP, and a poll of IDLE that sees a change.
Refresh(t) ==
    /\ pc[t] = "ready"
    /\ Run(t, [NoCommand EXCEPT !.name = "refresh", !.folder = folder[t]])
    /\ StartListing(t, folder[t])
    /\ UNCHANGED <<file, stored, viewVars, found, work, changes>>

\* APPEND, to any folder; a session that has selected one lists that again.
AppendCommand(t, m, f, flags) ==
    /\ pc[t] \in {"out", "ready"}
    /\ CountChange
    /\ AppendRaw(m, f, flags)
    /\ IF pc[t] = "ready"
       THEN /\ Goto(t, "store")
            /\ Run(t, [NoCommand EXCEPT !.name = "append", !.folder = folder[t]])
       ELSE UNCHANGED <<pc, cmd>>
    /\ UNCHANGED <<viewVars, found, work>>

\* STORE and UID STORE, for any of the messages in view.
Store(t, metas, mode, flags) ==
    /\ pc[t] = "ready"
    /\ CountChange
    /\ Goto(t, "store")
    /\ Run(t, [NoCommand EXCEPT !.name = "store", !.folder = folder[t],
                                !.mode = mode, !.flags = flags])
    /\ work' = [work EXCEPT ![t] = metas]
    /\ UNCHANGED <<file, stored, viewVars, found, readVars>>

\* The flags a command gives to a message that has flags old.
Wanted(command, old) ==
    CASE command.name = "store" /\ command.mode = "FLAGS" -> command.flags
      [] command.name = "store" /\ command.mode = "+FLAGS" -> old \union command.flags
      [] command.name = "store" /\ command.mode = "-FLAGS" -> old \ command.flags
      [] command.name \in {"open", "read"} -> old \union {Seen}
      [] command.name = "unread" -> old \ {Seen}
      [] command.name = "star" -> IF Flagged \in old THEN old \ {Flagged}
                                  ELSE old \union {Flagged}
      [] OTHER -> old

\* Mutant: a message that has no flags left goes back to new.
StoredSubBack(command, meta) ==
    IF Wanted(command, meta.flags) # {} THEN "cur" ELSE "new"

\* store_flags, mark_seen: what carries flags, was in cur before, or had its
\* flags replaced, is in cur.
StoredSub(command, meta) ==
    IF \/ Wanted(command, meta.flags) # {}
       \/ meta.sub = "cur"
       \/ command.name = "store" /\ command.mode = "FLAGS"
    THEN "cur" ELSE "new"

Stored(t, meta) == [folder |-> folder[t], sub |-> StoredSub(cmd[t], meta),
                    flags |-> Wanted(cmd[t], meta.flags)]

\* Mutant: the rename finds the message by its base name.
StoreFlagsAnyPath(t, meta) ==
    /\ Stored(t, meta) # PathOf(folder[t], meta)
    /\ file[meta.msg].folder = folder[t]
    /\ Change(meta.msg, Stored(t, meta))

\* store_flags renames the path in view, unless nothing changes.
StoreFlags(t, meta) ==
    /\ Stored(t, meta) # PathOf(folder[t], meta)
    /\ Exists(folder[t], meta)
    /\ Change(meta.msg, Stored(t, meta))

StoreNothing(t, meta) ==
    /\ Stored(t, meta) = PathOf(folder[t], meta)
    /\ UNCHANGED <<file, readVars>>

StoreOne(t) ==
    /\ pc[t] = "store"
    /\ \E meta \in work[t] :
       /\ IsFirst(meta, work[t])
       /\ StoreFlags(t, meta) \/ StoreNothing(t, meta)
       /\ work' = [work EXCEPT ![t] = @ \ {meta}]
    /\ UNCHANGED <<stored, pc, viewVars, cmd, found, changes>>

\* The path is gone, or an I/O error: NO, and the view stays as it is, for the
\* messages already renamed too.
StoreFails(t) ==
    /\ pc[t] = "store" /\ work[t] # {}
    /\ work' = [work EXCEPT ![t] = {}]
    /\ Run(t, NoCommand)
    /\ Goto(t, "ready")
    /\ UNCHANGED <<file, stored, viewVars, found, readVars, changes>>

\* EXPUNGE and CLOSE: what the view says is \Deleted.
Expunge(t, name) ==
    /\ pc[t] = "ready"
    /\ CountChange
    /\ Goto(t, "expunge")
    /\ Run(t, [NoCommand EXCEPT !.name = name, !.folder = folder[t]])
    /\ work' = [work EXCEPT ![t] = {meta \in snap[t] : Deleted \in meta.flags}]
    /\ UNCHANGED <<file, stored, viewVars, found, readVars>>

\* Mutant: the message is removed by its base name.
UnlinkAnyPath(f, meta) == file[meta.msg].folder = f /\ Change(meta.msg, Gone)

Unlink(f, meta) == Exists(f, meta) /\ Change(meta.msg, Gone)

\* From the last to the first; an error is dropped.
ExpungeOne(t) ==
    /\ pc[t] = "expunge"
    /\ \E meta \in work[t] :
       /\ IsLast(meta, work[t])
       /\ Unlink(folder[t], meta) \/ UNCHANGED <<file, readVars>>
       /\ work' = [work EXCEPT ![t] = @ \ {meta}]
    /\ UNCHANGED <<stored, pc, viewVars, cmd, found, changes>>

\* APPEND, STORE and EXPUNGE list the folder again, ...
CommandDone(t) ==
    /\ pc[t] \in {"store", "expunge"} /\ work[t] = {} /\ cmd[t].name # "close"
    /\ StartListing(t, folder[t])
    /\ UNCHANGED <<file, stored, viewVars, cmd, found, work, changes>>

\* ... CLOSE leaves it.
CloseDone(t) ==
    /\ pc[t] = "expunge" /\ work[t] = {} /\ cmd[t].name = "close"
    /\ Goto(t, "out")
    /\ Run(t, NoCommand)
    /\ NoView(t)
    /\ UNCHANGED <<file, stored, found, readVars, work, changes>>

\* COPY and UID COPY to folder f.
Copy(t, metas, f) ==
    /\ pc[t] = "ready"
    /\ CountChange
    /\ Goto(t, "copy")
    /\ Run(t, [NoCommand EXCEPT !.name = "copy", !.folder = f])
    /\ work' = [work EXCEPT ![t] = metas]
    /\ UNCHANGED <<file, stored, viewVars, found, readVars>>

CopyOne(t, m) ==
    /\ pc[t] = "copy"
    /\ \E meta \in work[t] :
       /\ IsFirst(meta, work[t])
       /\ Exists(folder[t], meta)
       /\ AppendRaw(m, cmd[t].folder, meta.flags)
       /\ work' = [work EXCEPT ![t] = @ \ {meta}]
    /\ UNCHANGED <<pc, viewVars, cmd, found, changes>>

\* All are copied, or one could not be read or written: the rest is not.
CopyDone(t) ==
    /\ pc[t] = "copy"
    /\ work' = [work EXCEPT ![t] = {}]
    /\ Run(t, NoCommand)
    /\ Goto(t, "ready")
    /\ UNCHANGED <<file, stored, viewVars, found, readVars, changes>>

\* LOGOUT, or the connection is lost between two commands.
Leave(t) ==
    /\ pc[t] = "ready"
    /\ Goto(t, "out")
    /\ NoView(t)
    /\ UNCHANGED <<file, stored, cmd, found, readVars, work, changes>>

-----------------------------------------------------------------------------
(* Webmail: every request lists the folder it is about.  Requests that change *)
(* nothing (spam in the junk folder) are left out.                            *)

Request(t, name, f, uids) ==
    /\ pc[t] = "out"
    /\ CountChange
    /\ name = "empty" => f \in {Trash, Junk} /\ uids = Uid
    /\ name = "spam" => f # Junk
    /\ name = "notspam" => f = Junk
    /\ name \in {"open", "star"} => Cardinality(uids) = 1
    /\ Run(t, [NoCommand EXCEPT !.name = name, !.folder = f, !.uids = uids])
    /\ StartListing(t, f)
    /\ UNCHANGED <<file, stored, viewVars, found, work>>

\* take_message: the path changes folder, with its flags.
Move(t, meta, f) ==
    /\ Exists(folder[t], meta)
    /\ Change(meta.msg, PathOf(f, meta))

\* mark_seen, when a message is opened that was in new; read, unread, star.
WebFlag(t, meta) ==
    /\ cmd[t].name \in WebFlagRequest
    /\ cmd[t].name = "open" => meta.sub = "new"
    /\ StoreFlags(t, meta)

\* Delete is a move to the trash, and final there and in the junk folder.
WebDelete(t, meta) ==
    /\ cmd[t].name \in {"delete", "empty"}
    /\ IF folder[t] \in {Trash, Junk} THEN Unlink(folder[t], meta)
       ELSE Move(t, meta, Trash)

WebSpam(t, meta) == cmd[t].name = "spam" /\ Move(t, meta, Junk)

WebNotSpam(t, meta) == cmd[t].name = "notspam" /\ Move(t, meta, Inbox)

\* One message of the request; errors are dropped.
WebOne(t, meta) ==
    /\ pc[t] = "web" /\ meta \in work[t]
    /\ \/ WebFlag(t, meta) \/ WebDelete(t, meta)
       \/ WebSpam(t, meta) \/ WebNotSpam(t, meta)
       \/ UNCHANGED <<file, readVars>>
    /\ work' = [work EXCEPT ![t] = @ \ {meta}]
    /\ UNCHANGED <<stored, pc, viewVars, cmd, found, changes>>

WebDone(t) ==
    /\ pc[t] = "web" /\ work[t] = {}
    /\ Goto(t, "out")
    /\ Run(t, NoCommand)
    /\ NoView(t)
    /\ UNCHANGED <<file, stored, found, readVars, work, changes>>

-----------------------------------------------------------------------------
Listing(t) == ReadNew(t) \/ ReadCur(t) \/ ListFails(t)

Imap(t) ==
    \/ \E f \in Folder : Select(t, f)
    \/ Refresh(t) \/ Leave(t)
    \/ \E m \in Msg, f \in Folder, flags \in FlagSets : AppendCommand(t, m, f, flags)
    \/ \E metas \in (SUBSET snap[t]) \ {{}} :
          \/ \E mode \in Mode, flags \in FlagSets : Store(t, metas, mode, flags)
          \/ \E f \in Folder : Copy(t, metas, f)
    \/ \E name \in {"expunge", "close"} : Expunge(t, name)
    \/ StoreOne(t) \/ StoreFails(t) \/ ExpungeOne(t) \/ CommandDone(t) \/ CloseDone(t)
    \/ \E m \in Msg : CopyOne(t, m)
    \/ CopyDone(t)

Web(t) ==
    \/ \E name \in WebRequest, f \in Folder, uids \in (SUBSET Uid) \ {{}} :
          Request(t, name, f, uids)
    \/ \E meta \in work[t] : WebOne(t, meta)
    \/ WebDone(t)

Next ==
    \/ \E m \in Msg, f \in Folder \ {Trash} : Deliver(m, f)
    \/ \E t \in Thread : Listing(t) \/ Imap(t) \/ Web(t)

Spec == Init /\ [][Next]_vars
-----------------------------------------------------------------------------
TypeOK ==
    /\ file \in [Msg -> Path]
    /\ stored \subseteq Msg
    /\ pc \in [Thread -> Sub \union {"out", "ready", "store", "expunge", "copy", "web"}]
    /\ folder \in [Thread -> Folder]
    /\ snap \in [Thread -> SUBSET Meta]
    /\ cmd \in [Thread -> Command]
    /\ found \in [Thread -> SUBSET Meta]
    /\ kept \in [Thread -> SUBSET Meta]
    /\ seen \in [Thread -> SUBSET Meta]
    /\ since \in [Thread -> SUBSET Msg]
    /\ work \in [Thread -> SUBSET Meta]
    /\ changes \in Nat

\* A message in new carries no flags (a listing reports none for it), and a name
\* that was never used has no file.
FileInv ==
    /\ \A m \in Msg : file[m].sub = "new" => file[m].flags = {}
    /\ \A m \in Msg \ stored : file[m] = Gone

\* What stayed in the directory since it was opened is there; what stayed in the
\* folder was found in new or stayed in cur, or will be found.
ListingInv ==
    \A t \in Thread :
        /\ \A e \in kept[t] : /\ file[e.msg] = PathOf(cmd[t].folder, e)
                              /\ e.sub = pc[t]
        /\ pc[t] = "new" => \A m \in since[t] :
              /\ file[m].folder = cmd[t].folder
              /\ file[m].sub = "new" => Entry(m, file[m]) \in kept[t]
        /\ pc[t] = "cur" => \A m \in since[t] :
              \E e \in found[t] \union kept[t] : e.msg = m

\* What an EXPUNGE is still to remove was \Deleted when the folder was listed,
\* and STORE and EXPUNGE work in the folder they were given for.
WorkInv ==
    \A t \in Thread :
        /\ pc[t] = "expunge" => \A meta \in work[t] : Deleted \in meta.flags
        /\ pc[t] \in {"store", "expunge"} => cmd[t].folder = folder[t]

IndInv == TypeOK /\ FileInv /\ ListingInv /\ WorkInv

\* No message disappears but one that is marked \Deleted at that moment, or is
\* in the trash or the junk folder - however old the view of the thread that
\* removes it, and whatever others did to the message in the meantime.
ExpungedOnlyDeleted ==
    [][\A m \in Msg :
          file[m].folder # Nowhere /\ file'[m].folder = Nowhere =>
              Deleted \in file[m].flags \/ file[m].folder \in {Trash, Junk}]_vars

\* No update of flags is lost: whoever changes the flags of a message makes of
\* those it has what the command under way asks for, not of those an old view
\* says it had; and a message that changes folder keeps its flags.
NoLostUpdate ==
    [][\A m \in Msg :
          file[m].folder # Nowhere /\ file'[m].folder # Nowhere
          /\ file'[m].flags # file[m].flags =>
              /\ file'[m].folder = file[m].folder
              /\ \E t \in Thread : /\ pc[t] \in {"store", "web"}
                                   /\ work'[t] # work[t]
                                   /\ file'[m].flags = Wanted(cmd[t], file[m].flags)]_vars

\* A message that stays in the folder while that is listed is in the listing,
\* although others may move it from one of the two directories to the other
\* between the two reads.
ListingComplete ==
    [][\A t \in Thread :
          ReadCur(t) => \A m \in since[t] : \E e \in snap'[t] : e.msg = m]_vars
=============================================================================

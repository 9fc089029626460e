--------------------------------- MODULE Backup --------------------------------
(* Moving the server to another host: handle_admin_backup of web.rs builds an *)
(* archive with tarball.rs while mail goes on arriving and being moved, and   *)
(* run_restore of main.rs unpacks it elsewhere.  The archive is built         *)
(* directory by directory; each is listed and its files are then opened one   *)
(* after another.                                                             *)
(*                                                                            *)
(* A path is taken for its length and the places of its slashes, which is all *)
(* that decides whether it fits into the header of an entry.                  *)
EXTENDS Integers, Sequences, SequencesExt

CONSTANTS
    Message,
    Flag,                 \* what the end of a file name may be
    Folders,              \* directories of messages, in the order they are read
    Length, Slashes,      \* of the path of a directory: bytes, and where its slashes are
    Size,                 \* Size[m]: length of the file name of m
    Temporary,            \* directories with a component `tmp'
    Extras,               \* key files the configuration names, in order
    Base,                 \* Base[k]: the file name of key file k
    NameMax, PrefixMax,   \* room in a header
    MaxMail,              \* bound: changes to the mail during a backup
    MaxErrors             \* bound: files that a backup cannot read

Folder  == Range(Folders)
Nowhere == [dir |-> "nowhere", flag |-> "none"]

BackupAssumption ==
    /\ Folders \in Seq(Folder) /\ Temporary \subseteq Folder /\ "nowhere" \notin Folder
    /\ Extras \in Seq(DOMAIN Base)
    /\ \A d \in Folder : Length[d] \in Nat \ {0} /\ Slashes[d] \subseteq 1 .. Length[d] - 1
    /\ IsFiniteSet(Message) /\ Size \in [Message -> Nat \ {0}]
    /\ {NameMax, PrefixMax, MaxMail, MaxErrors} \subseteq Nat

VARIABLES
    place,      \* of each message: its directory, and the end of its file name
    pc,
    todo,       \* directories still to be read
    files,      \* listed and still to be opened
    packed,     \* config.toml and key files in the archive
    archive,    \* other files in the archive
    unread,     \* history: what met an error when it was to be read
    changes,    \* to the mail so far
    still,      \* history: messages that were not moved, renamed or removed meanwhile
    shape,      \* of config.toml: how it names its data directory, and how it ends
    left,       \* of the restore: key files and messages still to be written
    host,       \* what is on the host that is restored to
    before      \* history: what was there

vars == <<place, pc, todo, files, packed, archive, unread, changes, still, shape,
          left, host, before>>
source == <<place, changes, still, shape>>
backup == <<packed, archive, unread>>
target == <<left, host, before>>

Path(m)   == <<place[m].dir, m, place[m].flag>>
Stored    == {m \in Message : place[m] # Nowhere}

Fresh == [config |-> "none", extras |-> << >>, data |-> {}]
Old   == [config |-> "old", extras |-> << >>, data |-> {<<"nowhere", "old", "none">>}]

Empty  == [config |-> FALSE, keys |-> {}]
Unread == [config |-> FALSE, keys |-> {}, mail |-> {}]

Errors(u) == Cardinality(u.keys) + Cardinality(u.mail) + (IF u.config THEN 1 ELSE 0)

Init ==
    /\ place \in [Message -> {Nowhere} \union [dir : Folder, flag : {CHOOSE f \in Flag : TRUE}]]
    /\ pc = "serving" /\ todo = << >> /\ files = << >>
    /\ packed = Empty /\ archive = << >> /\ unread = Unread
    /\ changes = 0 /\ still = {}
    /\ shape \in {"named", "unnamed", "in a section", "no newline"}
    /\ left = [extras |-> << >>, data |-> << >>]
    /\ host \in {Fresh, Old} /\ before = host

-------------------------------------------------------------------------------
(* split_ustar_path, of a path of len bytes with slashes before its last.     *)

(* Mutant: a name that fills its field is refused, as if a NUL had to follow. *)
CutsTight(len, slashes) ==
    {i \in slashes : len - i - 1 < NameMax /\ i <= PrefixMax}
(* Where a path that does not fit into the name may be cut in two.            *)
Cuts(len, slashes) ==
    {i \in slashes : len - i - 1 <= NameMax /\ i <= PrefixMax}

Split(len, slashes) ==
    \/ len <= NameMax
    \/ len <= NameMax + PrefixMax + 1 /\ Cuts(len, slashes) # {}

(* An entry for directory d, and one for each above it, ends in a slash.      *)
Ends(d) == Slashes[d] \union {Length[d]}
Above(d, end) == {i \in Slashes[d] : i < end}
Within(d, m) == Length[d] + 1 + Size[m]

DirFits(d)     == \A end \in Ends(d) : Split(end + 1, Above(d, end))
FileFits(d, m) == Split(Within(d, m), Ends(d))

-------------------------------------------------------------------------------
(* What happens to the mail meanwhile.                                        *)
Mail(m, to) ==
    /\ pc = "reading" /\ changes < MaxMail
    /\ place[m] # to
    /\ changes' = changes + 1
    /\ place' = [place EXCEPT ![m] = to]
    /\ still' = still \ {m}
    /\ UNCHANGED <<pc, todo, files, backup, shape, target>>

(* Delivered, moved to another folder, renamed for a flag, or removed.        *)
Shuffle ==
    \E m \in Message, to \in {Nowhere} \union [dir : Folder, flag : Flag] : Mail(m, to)

(* handle_admin_backup; config.toml and the key files come first, and those   *)
(* that cannot be read are skipped.                                           *)
Start ==
    /\ pc = "serving" /\ pc' = "reading"
    /\ \E config \in BOOLEAN, keys \in SUBSET Range(Extras) :
           /\ packed' = [config |-> config, keys |-> keys]
           /\ unread' = [config |-> ~config, keys |-> Range(Extras) \ keys, mail |-> {}]
           /\ Errors(unread') <= MaxErrors
    /\ todo' = Folders /\ still' = Stored
    /\ UNCHANGED <<place, changes, files, archive, shape, target>>

(* add_dir_recursive lists the next directory, or leaves it out with all that *)
(* is in it.                                                                  *)
List ==
    /\ pc = "reading" /\ files = << >> /\ todo # << >>
    /\ todo' = Tail(todo)
    /\ files' = IF Head(todo) \in Temporary \/ ~DirFits(Head(todo)) THEN << >>
                ELSE SetToSeq({Path(m) : m \in {x \in Message : place[x].dir = Head(todo)}})
    /\ UNCHANGED <<source, pc, backup, target>>

(* An entry in error is dropped from the listing of the directory above: a    *)
(* directory with all that is in it.                                          *)
ListFails ==
    /\ pc = "reading" /\ files = << >> /\ todo # << >>
    /\ todo' = Tail(todo)
    /\ unread' = [unread EXCEPT !.mail =
                     @ \union {m \in Message : place[m].dir = Head(todo)}]
    /\ Errors(unread') <= MaxErrors
    /\ UNCHANGED <<source, pc, files, packed, archive, target>>

(* add_file: one that is no longer there by this name is skipped, as is one   *)
(* whose path does not fit.                                                   *)
Open ==
    /\ pc = "reading" /\ files # << >>
    /\ files' = Tail(files)
    /\ LET f == Head(files)
       IN  archive' = IF f = Path(f[2]) /\ FileFits(f[1], f[2]) THEN Append(archive, f) ELSE archive
    /\ UNCHANGED <<source, pc, todo, packed, unread, target>>

(* ... and one whose entry was dropped, or that cannot be opened or read.     *)
OpenFails ==
    /\ pc = "reading" /\ files # << >>
    /\ files' = Tail(files)
    /\ unread' = [unread EXCEPT !.mail = @ \union {Head(files)[2]}]
    /\ Errors(unread') <= MaxErrors
    /\ UNCHANGED <<source, pc, todo, packed, archive, target>>

Complete ==
    /\ pc = "reading" /\ files = << >> /\ todo = << >>
    /\ pc' = "archived"
    /\ UNCHANGED <<source, todo, files, backup, target>>

(* A directory is gone when it is to be listed, or the archive is too large.  *)
BackupFails ==
    /\ pc = "reading" /\ pc' = "serving"
    /\ todo' = << >> /\ files' = << >> /\ still' = {}
    /\ packed' = Empty /\ archive' = << >> /\ unread' = Unread
    /\ UNCHANGED <<place, changes, shape, target>>

-------------------------------------------------------------------------------
(* run_restore: refused without --force where there is a server already, and  *)
(* when parse_tar finds the archive damaged.  One cut off between two entries,*)
(* which it takes for whole, is left out.                                     *)
Refuse(force, damaged) ==
    /\ pc = "archived"
    /\ damaged \/ (host = Old /\ ~force)
    /\ pc' = "refused"
    /\ UNCHANGED <<source, todo, files, backup, target>>

(* extract_backup: the entries in the order of the archive.                   *)
Unpack(force) ==
    /\ pc = "archived"
    /\ host = Fresh \/ force
    /\ pc' = "unpacking"
    /\ host' = [host EXCEPT !.config = IF packed.config THEN "copied" ELSE @]
    /\ left' = [extras |-> Extras, data |-> archive]
    /\ UNCHANGED <<source, todo, files, backup, before>>

UnpackExtra ==
    /\ pc = "unpacking" /\ left.extras # << >>
    /\ LET k == Head(left.extras)
       IN  host' = IF k \notin packed.keys THEN host
                   ELSE [host EXCEPT !.extras =
                            [b \in DOMAIN @ \union {Base[k]} |->
                                IF b = Base[k] THEN k ELSE @[b]]]
    /\ left' = [left EXCEPT !.extras = Tail(@)]
    /\ UNCHANGED <<source, pc, todo, files, backup, before>>

UnpackFile ==
    /\ pc = "unpacking" /\ left.extras = << >> /\ left.data # << >>
    /\ host' = [host EXCEPT !.data = @ \union {Head(left.data)}]
    /\ left' = [left EXCEPT !.data = Tail(@)]
    /\ UNCHANGED <<source, pc, todo, files, backup, before>>

(* Disk full, no permission, killed, or in the end no configuration to be     *)
(* read: what is written stays.                                               *)
UnpackFails ==
    /\ pc = "unpacking" /\ pc' = "broken"
    /\ UNCHANGED <<source, todo, files, backup, target>>

(* rewrite_config_data_dir and what comes after it: a line is added at the    *)
(* end of the file, into the section that is open there; and a file without   *)
(* a newline at its end is taken for rewritten when it is given one.  Without *)
(* a configuration in the archive it is the one that was there before.        *)
Rewritten ==
    IF host.config = "old" THEN "old"
    ELSE IF shape \in {"named", "unnamed"} THEN "here" ELSE "default"

PointConfig ==
    /\ pc = "unpacking" /\ left.extras = << >> /\ left.data = << >>
    /\ host.config # "none"
    /\ pc' = "restored"
    /\ host' = [host EXCEPT !.config = Rewritten]
    /\ UNCHANGED <<source, todo, files, backup, left, before>>

Rest == pc \in {"restored", "broken", "refused"} /\ UNCHANGED vars

Next ==
    \/ Start \/ List \/ ListFails \/ Open \/ OpenFails \/ Complete \/ BackupFails \/ Shuffle
    \/ \E force, damaged \in BOOLEAN : Refuse(force, damaged)
    \/ \E force \in BOOLEAN : Unpack(force)
    \/ UnpackExtra \/ UnpackFile \/ UnpackFails \/ PointConfig
    \/ Rest

Spec == Init /\ [][Next]_vars

-------------------------------------------------------------------------------
(* There is room for a path: it is short enough for the name, or one of its   *)
(* slashes parts it into two that fit.                                        *)
Room(len, slashes) ==
    \/ len <= NameMax
    \/ \E prefix \in slashes, name \in 0 .. NameMax :
          prefix <= PrefixMax /\ prefix + 1 + name = len

ToBeKept(m) ==
    LET d == place[m].dir
    IN  /\ d \in Folder \ Temporary
        /\ Room(Within(d, m), Ends(d))
        /\ \A end \in Ends(d) : Room(end + 1, Above(d, end))

(* A restore that ends well brings over every message that was left alone     *)
(* while the backup was made, whatever was done to the others; every key file *)
(* whose name no other has; and a configuration that finds them, if it names  *)
(* a data directory: but for what could not be read then, of which only the   *)
(* log tells, and for an entry dropped from a listing not even that.  One     *)
(* that is refused changes no file (build_tar, extract_backup, run_restore).  *)
MovedWhole ==
    /\ pc = "restored" =>
          /\ \A m \in still \ unread.mail : ToBeKept(m) => Path(m) \in host.data
          /\ \A i \in DOMAIN Extras :
                /\ Extras[i] \notin unread.keys
                /\ \A j \in DOMAIN Extras : Base[Extras[j]] = Base[Extras[i]] => i = j
                => host.extras[Base[Extras[i]]] = Extras[i]
          /\ shape = "named" /\ ~unread.config => host.config = "here"
          /\ before.data \subseteq host.data
    /\ pc = "refused" => host = before
===============================================================================

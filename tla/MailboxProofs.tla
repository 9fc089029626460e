---------------------------- MODULE MailboxProofs ----------------------------
(***************************************************************************)
(* Proofs about Mailbox, for any number of messages, threads, folders and  *)
(* flags: nothing is removed or overwritten on the strength of an old      *)
(* view, and a listing misses nothing that stays where it is.              *)
(***************************************************************************)
EXTENDS Mailbox, TLAPS

\* Every change of the mailbox keeps the types.
LEMMA ChangeType ==
    ASSUME TypeOK, NEW m \in Msg, NEW path \in Path, Change(m, path)
    PROVE  /\ file' \in [Msg -> Path]
           /\ kept' \in [Thread -> SUBSET Meta]
           /\ seen' \in [Thread -> SUBSET Meta]
           /\ since' \in [Thread -> SUBSET Msg]
<1>1. file' \in [Msg -> Path]
    BY DEF Change, TypeOK
<1>2. Entry(m, path) \in Meta
    BY DEF Entry, Meta, Path
<1>3. /\ kept' \in [Thread -> SUBSET Meta]
      /\ seen' \in [Thread -> SUBSET Meta]
      /\ since' \in [Thread -> SUBSET Msg]
    BY <1>2 DEF Change, TypeOK
<1> QED
    BY <1>1, <1>3

\* A change is harmless to the listings under way, unless it brings a file back
\* from cur to new within a folder.
LEMMA ChangeListing ==
    ASSUME TypeOK, ListingInv,
           NEW m \in Msg, NEW path \in Path, Change(m, path),
           path.folder = file[m].folder => path.sub = "cur" \/ file[m].sub = "new",
           \A s \in Thread :
              \/ pc'[s] = pc[s] /\ cmd'[s] = cmd[s] /\ found'[s] = found[s]
              \/ pc[s] \notin Sub /\ pc'[s] \notin Sub
    PROVE  ListingInv'
<1> SUFFICES ASSUME NEW s \in Thread
             PROVE  /\ \A e \in kept'[s] : /\ file'[e.msg] = PathOf(cmd'[s].folder, e)
                                           /\ e.sub = pc'[s]
                    /\ pc'[s] = "new" => \A n \in since'[s] :
                          /\ file'[n].folder = cmd'[s].folder
                          /\ file'[n].sub = "new" => Entry(n, file'[n]) \in kept'[s]
                    /\ pc'[s] = "cur" => \A n \in since'[s] :
                          \E e \in found'[s] \union kept'[s] : e.msg = n
    BY DEF ListingInv, PathOf, Entry
<1>1. /\ kept'[s] = {e \in kept[s] : e.msg # m}
      /\ since'[s] \subseteq since[s]
      /\ m \in since'[s] => path.folder = file[m].folder /\ path.sub # file[m].sub
      /\ file' \in [Msg -> Path] /\ file \in [Msg -> Path]
      /\ file'[m] = path
      /\ \A n \in Msg \ {m} : file'[n] = file[n]
      /\ kept[s] \subseteq Meta /\ found[s] \subseteq Meta /\ since[s] \subseteq Msg
    BY ChangeType DEF Change, TypeOK
<1>2. /\ \A e \in kept[s] : file[e.msg] = PathOf(cmd[s].folder, e) /\ e.sub = pc[s]
      /\ pc[s] = "new" => \A n \in since[s] :
            /\ file[n].folder = cmd[s].folder
            /\ file[n].sub = "new" => Entry(n, file[n]) \in kept[s]
      /\ pc[s] = "cur" => \A n \in since[s] : \E e \in found[s] \union kept[s] : e.msg = n
    BY DEF ListingInv
<1>3. CASE pc[s] \notin Sub /\ pc'[s] \notin Sub
    <2>1. kept[s] = {}
        BY <1>1, <1>2, <1>3 DEF Meta
    <2> QED
        BY <1>1, <1>3, <2>1 DEF Sub
<1>4. CASE pc'[s] = pc[s] /\ cmd'[s] = cmd[s] /\ found'[s] = found[s]
    <2>1. \A e \in kept'[s] : file'[e.msg] = PathOf(cmd'[s].folder, e) /\ e.sub = pc'[s]
        BY <1>1, <1>2, <1>4 DEF Meta
    <2>2. ASSUME pc'[s] = "new", NEW n \in since'[s]
          PROVE  /\ file'[n].folder = cmd'[s].folder
                 /\ file'[n].sub = "new" => Entry(n, file'[n]) \in kept'[s]
        <3>1. n \in since[s] /\ n \in Msg
            BY <1>1
        <3>2. /\ file[n].folder = cmd[s].folder
              /\ file[n].sub = "new" => Entry(n, file[n]) \in kept[s]
            BY <1>2, <1>4, <2>2, <3>1
        <3>3. CASE n = m
            <4>1. path.folder = file[m].folder /\ path.sub # file[m].sub
                BY <1>1, <3>3
            <4>2. path.sub \in {"new", "cur"} /\ file[m].sub \in {"new", "cur"}
                BY <1>1 DEF Path, Sub
            <4>3. path.sub = "cur"
                BY <4>1, <4>2
            <4> QED
                BY <1>1, <1>4, <3>2, <3>3, <4>1, <4>3
        <3>4. CASE n # m
            BY <1>1, <1>4, <3>1, <3>2, <3>4 DEF Entry
        <3> QED
            BY <3>3, <3>4
    <2>3. ASSUME pc'[s] = "cur", NEW n \in since'[s]
          PROVE  \E e \in found'[s] \union kept'[s] : e.msg = n
        <3>1. n \in since[s] /\ n \in Msg
            BY <1>1
        <3>2. PICK e \in found[s] \union kept[s] : e.msg = n
            BY <1>2, <1>4, <2>3, <3>1
        <3>3. CASE e \in kept[s] /\ n = m
            <4>1. path.folder = file[m].folder /\ path.sub # file[m].sub
                BY <1>1, <3>3
            <4>2. file[m] = PathOf(cmd[s].folder, e) /\ e.sub = "cur"
                BY <1>2, <1>4, <2>3, <3>2, <3>3
            <4>3. file[m].sub = "cur"
                BY <4>2 DEF PathOf
            <4> QED
                BY <4>1, <4>3
        <3> QED
            BY <1>1, <1>4, <3>2, <3>3
    <2> QED
        BY <2>1, <2>2, <2>3
<1> QED
    BY <1>3, <1>4

\* So are steps that leave the files and the listings alone.
LEMMA QuietListing ==
    ASSUME TypeOK, ListingInv, UNCHANGED <<file, readVars>>,
           \A s \in Thread :
              \/ pc'[s] = pc[s] /\ cmd'[s] = cmd[s] /\ found'[s] = found[s]
              \/ pc[s] \notin Sub /\ pc'[s] \notin Sub
    PROVE  ListingInv'
<1> SUFFICES ASSUME NEW s \in Thread
             PROVE  /\ \A e \in kept[s] : /\ file[e.msg] = PathOf(cmd'[s].folder, e)
                                          /\ e.sub = pc'[s]
                    /\ pc'[s] = "new" => \A n \in since[s] :
                          /\ file[n].folder = cmd'[s].folder
                          /\ file[n].sub = "new" => Entry(n, file[n]) \in kept[s]
                    /\ pc'[s] = "cur" => \A n \in since[s] :
                          \E e \in found'[s] \union kept[s] : e.msg = n
    BY DEF ListingInv, PathOf, Entry, readVars
<1>1. CASE pc[s] \notin Sub /\ pc'[s] \notin Sub
    <2>1. kept[s] = {}
        BY <1>1 DEF ListingInv, TypeOK, Meta
    <2> QED
        BY <1>1, <2>1 DEF Sub
<1>2. CASE pc'[s] = pc[s] /\ cmd'[s] = cmd[s] /\ found'[s] = found[s]
    BY <1>2 DEF ListingInv
<1> QED
    BY <1>1, <1>2

\* A thread that opens new finds in it what is there, the rest is in cur.
LEMMA StartingListing ==
    ASSUME TypeOK, ListingInv, NEW t \in Thread, NEW f \in Folder,
           pc[t] \notin Sub, StartListing(t, f), file' = file, found' = found,
           cmd' \in [Thread -> Command], cmd'[t].folder = f,
           \A s \in Thread \ {t} : cmd'[s] = cmd[s]
    PROVE  /\ ListingInv'
           /\ pc' \in [Thread -> Sub \union {"out", "ready", "store", "expunge", "copy", "web"}]
           /\ kept' \in [Thread -> SUBSET Meta]
           /\ seen' \in [Thread -> SUBSET Meta]
           /\ since' \in [Thread -> SUBSET Msg]
<1>1. InSub(f, "new") \subseteq Meta /\ InFolder(f) \subseteq Msg
    BY DEF InSub, InFolder, Entry, Meta, Sub, Path, TypeOK
<1>2. /\ pc' \in [Thread -> Sub \union {"out", "ready", "store", "expunge", "copy", "web"}]
      /\ kept' \in [Thread -> SUBSET Meta]
      /\ seen' \in [Thread -> SUBSET Meta]
      /\ since' \in [Thread -> SUBSET Msg]
    BY <1>1 DEF StartListing, Goto, TypeOK, Sub
<1>3. ASSUME NEW s \in Thread
      PROVE  /\ \A e \in kept'[s] : /\ file[e.msg] = PathOf(cmd'[s].folder, e)
                                    /\ e.sub = pc'[s]
             /\ pc'[s] = "new" => \A n \in since'[s] :
                   /\ file[n].folder = cmd'[s].folder
                   /\ file[n].sub = "new" => Entry(n, file[n]) \in kept'[s]
             /\ pc'[s] = "cur" => \A n \in since'[s] :
                   \E e \in found[s] \union kept'[s] : e.msg = n
    <2>1. CASE s # t
        <3>1. pc'[s] = pc[s] /\ kept'[s] = kept[s] /\ since'[s] = since[s] /\ cmd'[s] = cmd[s]
            BY <2>1 DEF StartListing, Goto, TypeOK
        <3> QED
            BY <3>1 DEF ListingInv
    <2>2. CASE s = t
        <3>1. /\ pc'[t] = "new" /\ kept'[t] = InSub(f, "new") /\ since'[t] = InFolder(f)
            BY DEF StartListing, Goto, TypeOK
        <3>2. ASSUME NEW e \in InSub(f, "new")
              PROVE  file[e.msg] = PathOf(f, e) /\ e.sub = "new"
            <4>1. PICK m \in Msg : file[m].folder = f /\ file[m].sub = "new" /\ e = Entry(m, file[m])
                BY DEF InSub, InFolder
            <4>2. file[m] \in Path
                BY DEF TypeOK
            <4> QED
                BY <4>1, <4>2 DEF Entry, PathOf, Path
        <3>3. \A n \in InFolder(f) : /\ file[n].folder = f
                                     /\ file[n].sub = "new" => Entry(n, file[n]) \in InSub(f, "new")
            BY DEF InSub, InFolder
        <3> QED
            BY <2>2, <3>1, <3>2, <3>3
    <2> QED
        BY <2>1, <2>2
<1>4. ListingInv'
    BY <1>3 DEF ListingInv, PathOf, Entry
<1> QED
    BY <1>2, <1>4

-----------------------------------------------------------------------------
LEMMA InitInv == Init => IndInv
<1> SUFFICES ASSUME Init PROVE IndInv
    OBVIOUS
<1>1. NoCommand \in Command
    BY FolderAssumption DEF NoCommand, Command, Mode
<1>2. TypeOK
    BY <1>1, MsgAssumption, FolderAssumption DEF Init, TypeOK, Sub
<1>3. FileInv
    BY DEF Init, FileInv
<1>4. ListingInv /\ WorkInv
    BY DEF Init, ListingInv, WorkInv
<1> QED
    BY <1>2, <1>3, <1>4 DEF IndInv

\* The commands threads run are commands.
LEMMA CommandTypes ==
    /\ NoCommand \in Command
    /\ \A name \in ImapCommand \union WebRequest, f \in Folder, mode \in Mode,
          flags \in SUBSET Flag, uids \in SUBSET Uid :
          /\ [NoCommand EXCEPT !.name = name, !.folder = f] \in Command
          /\ [NoCommand EXCEPT !.name = name, !.folder = f, !.uids = uids] \in Command
          /\ [NoCommand EXCEPT !.name = name, !.folder = f, !.mode = mode,
                               !.flags = flags] \in Command
    /\ \A c \in Command : [c EXCEPT !.uids = {}] \in Command
<1>1. NoCommand \in Command
    BY FolderAssumption DEF NoCommand, Command, Mode
<1>2. ASSUME NEW name \in ImapCommand \union WebRequest, NEW f \in Folder, NEW mode \in Mode,
             NEW flags \in SUBSET Flag, NEW uids \in SUBSET Uid
      PROVE  /\ [NoCommand EXCEPT !.name = name, !.folder = f] \in Command
             /\ [NoCommand EXCEPT !.name = name, !.folder = f, !.uids = uids] \in Command
             /\ [NoCommand EXCEPT !.name = name, !.folder = f, !.mode = mode,
                                  !.flags = flags] \in Command
    <2>1. [NoCommand EXCEPT !.name = name, !.folder = f] \in Command
        BY <1>1 DEF Command
    <2>2. [NoCommand EXCEPT !.name = name, !.folder = f, !.uids = uids] \in Command
        BY <1>1 DEF Command
    <2>3. [NoCommand EXCEPT !.name = name, !.folder = f, !.mode = mode,
                            !.flags = flags] \in Command
        BY <1>1 DEF Command
    <2> QED
        BY <2>1, <2>2, <2>3
<1>3. \A c \in Command : [c EXCEPT !.uids = {}] \in Command
    BY DEF Command
<1> QED
    BY <1>1, <1>2, <1>3

\* Whatever the step does besides, a change to a proper path keeps the
\* invariants about files and listings.
LEMMA FileStep ==
    ASSUME IndInv, NEW m \in Msg, NEW path \in Path, Change(m, path),
           path.sub = "new" => path.flags = {},
           path.folder = file[m].folder => path.sub = "cur" \/ file[m].sub = "new",
           \/ stored' = stored /\ m \in stored
           \/ stored' = stored \union {m},
           \A s \in Thread :
              \/ pc'[s] = pc[s] /\ cmd'[s] = cmd[s] /\ found'[s] = found[s]
              \/ pc[s] \notin Sub /\ pc'[s] \notin Sub
    PROVE  /\ file' \in [Msg -> Path] /\ stored' \subseteq Msg
           /\ kept' \in [Thread -> SUBSET Meta]
           /\ seen' \in [Thread -> SUBSET Meta]
           /\ since' \in [Thread -> SUBSET Msg]
           /\ FileInv' /\ ListingInv'
<1>1. /\ file' \in [Msg -> Path]
      /\ kept' \in [Thread -> SUBSET Meta]
      /\ seen' \in [Thread -> SUBSET Meta]
      /\ since' \in [Thread -> SUBSET Msg]
    BY ChangeType DEF IndInv
<1>2. ListingInv'
    BY ChangeListing DEF IndInv
<1>3. stored' \subseteq Msg /\ m \in stored' /\ stored \subseteq stored'
    BY DEF IndInv, TypeOK
<1>4. file'[m] = path /\ \A n \in Msg \ {m} : file'[n] = file[n]
    BY DEF Change, IndInv, TypeOK
<1>5. FileInv'
    BY <1>3, <1>4 DEF FileInv, IndInv
<1> QED
    BY <1>1, <1>2, <1>3, <1>5

\* What AppendRaw writes.
LEMMA AppendStep ==
    ASSUME IndInv, NEW m \in Msg, NEW f \in Folder, NEW flags \in SUBSET Flag,
           AppendRaw(m, f, flags),
           \A s \in Thread :
              \/ pc'[s] = pc[s] /\ cmd'[s] = cmd[s] /\ found'[s] = found[s]
              \/ pc[s] \notin Sub /\ pc'[s] \notin Sub
    PROVE  /\ file' \in [Msg -> Path] /\ stored' \subseteq Msg
           /\ kept' \in [Thread -> SUBSET Meta]
           /\ seen' \in [Thread -> SUBSET Meta]
           /\ since' \in [Thread -> SUBSET Msg]
           /\ FileInv' /\ ListingInv'
<1> DEFINE path == [folder |-> f, sub |-> IF flags = {} THEN "new" ELSE "cur",
                    flags |-> flags]
<1>1. path \in Path /\ Change(m, path) /\ stored' = stored \union {m}
    BY DEF AppendRaw, Path, Sub
<1>2. file[m].folder = Nowhere
    BY DEF AppendRaw, IndInv, FileInv, Gone
<1>3. path.folder # file[m].folder /\ (path.sub = "new" => path.flags = {})
    BY <1>2, FolderAssumption
<1> HIDE DEF path
<1> QED
    BY <1>1, <1>3, FileStep

\* A path in view that still exists belongs to a message that was stored.
LEMMA ViewedPath ==
    ASSUME IndInv, NEW t \in Thread, NEW meta \in Meta, Exists(folder[t], meta)
    PROVE  /\ meta.msg \in Msg /\ meta.msg \in stored
           /\ folder[t] \in Folder /\ folder[t] # Nowhere
           /\ file[meta.msg] = PathOf(folder[t], meta)
           /\ file[meta.msg].folder = folder[t]
           /\ file[meta.msg].sub = meta.sub /\ file[meta.msg].flags = meta.flags
           /\ meta.sub \in Sub /\ meta.flags \in SUBSET Flag
           /\ meta.sub = "new" => meta.flags = {}
<1>1. /\ meta.msg \in Msg /\ meta.sub \in Sub /\ meta.flags \in SUBSET Flag
      /\ folder[t] \in Folder /\ folder[t] # Nowhere
    BY FolderAssumption DEF IndInv, TypeOK, Meta
<1>2. /\ file[meta.msg] = PathOf(folder[t], meta)
      /\ file[meta.msg].folder = folder[t]
      /\ file[meta.msg].sub = meta.sub /\ file[meta.msg].flags = meta.flags
    BY DEF Exists, PathOf
<1>3. meta.msg \in stored
    BY <1>1, <1>2 DEF IndInv, FileInv, Gone
<1>4. meta.sub = "new" => meta.flags = {}
    BY <1>1, <1>2 DEF IndInv, FileInv
<1> QED
    BY <1>1, <1>2, <1>3, <1>4

\* The flags a command wants are flags, and the path for them is a path.
LEMMA StoredPath ==
    ASSUME IndInv, NEW t \in Thread, NEW meta \in Meta
    PROVE  /\ Stored(t, meta) \in Path
           /\ Stored(t, meta).folder = folder[t]
           /\ Stored(t, meta).flags = Wanted(cmd[t], meta.flags)
           /\ Stored(t, meta).sub = "new" =>
                 meta.sub = "new" /\ Stored(t, meta).flags = {}
<1>1. meta.flags \in SUBSET Flag /\ meta.sub \in Sub /\ folder[t] \in Folder
      /\ cmd[t].flags \in SUBSET Flag /\ cmd[t] \in Command
    BY DEF IndInv, TypeOK, Meta, Command
<1>2. Wanted(cmd[t], meta.flags) \in SUBSET Flag
    BY <1>1, FlagAssumption DEF Wanted
<1>3. StoredSub(cmd[t], meta) \in Sub
    BY DEF StoredSub, Sub
<1>4. StoredSub(cmd[t], meta) = "new" => Wanted(cmd[t], meta.flags) = {} /\ meta.sub = "new"
    BY <1>1 DEF StoredSub, Sub
<1> QED
    BY <1>1, <1>2, <1>3, <1>4 DEF Stored, Path

\* The three ways to change a message one has seen: rename it in its folder, to
\* another folder, or remove it.
LEMMA UpdateStep ==
    ASSUME IndInv, NEW t \in Thread, NEW meta \in Meta,
           \/ StoreFlags(t, meta)
           \/ \E f \in Folder : Move(t, meta, f)
           \/ Unlink(folder[t], meta),
           UNCHANGED <<stored, pc, cmd, found>>
    PROVE  /\ file' \in [Msg -> Path] /\ stored' \subseteq Msg
           /\ kept' \in [Thread -> SUBSET Meta]
           /\ seen' \in [Thread -> SUBSET Meta]
           /\ since' \in [Thread -> SUBSET Msg]
           /\ FileInv' /\ ListingInv'
<1>1. Exists(folder[t], meta)
    BY DEF StoreFlags, Move, Unlink
<1>2. /\ meta.msg \in Msg /\ meta.msg \in stored
      /\ folder[t] \in Folder /\ folder[t] # Nowhere
      /\ file[meta.msg].folder = folder[t] /\ file[meta.msg].sub = meta.sub
      /\ meta.sub \in Sub /\ meta.flags \in SUBSET Flag
      /\ meta.sub = "new" => meta.flags = {}
    BY <1>1, ViewedPath
<1>3. CASE StoreFlags(t, meta)
    <2>1. /\ Stored(t, meta) \in Path /\ Change(meta.msg, Stored(t, meta))
          /\ Stored(t, meta).sub = "new" => meta.sub = "new" /\ Stored(t, meta).flags = {}
        BY <1>3, StoredPath DEF StoreFlags
    <2>2. Stored(t, meta).sub = "cur" \/ file[meta.msg].sub = "new"
        BY <1>2, <2>1 DEF Path, Sub
    <2> QED
        BY <1>2, <2>1, <2>2, FileStep
<1>4. CASE \E f \in Folder : Move(t, meta, f)
    <2>1. PICK f \in Folder : Move(t, meta, f)
        BY <1>4
    <2>2. /\ PathOf(f, meta) \in Path /\ Change(meta.msg, PathOf(f, meta))
          /\ PathOf(f, meta).sub = "new" => PathOf(f, meta).flags = {}
          /\ PathOf(f, meta).sub = file[meta.msg].sub
        BY <1>2, <2>1 DEF Move, PathOf, Path
    <2>3. PathOf(f, meta).sub = "cur" \/ file[meta.msg].sub = "new"
        BY <1>2, <2>2 DEF Sub
    <2> QED
        BY <1>2, <2>2, <2>3, FileStep
<1>5. CASE Unlink(folder[t], meta)
    <2>1. /\ Gone \in Path /\ Change(meta.msg, Gone)
          /\ Gone.sub = "new" => Gone.flags = {}
          /\ Gone.folder # file[meta.msg].folder
        BY <1>2, <1>5 DEF Unlink, Gone, Path, Sub
    <2> QED
        BY <1>2, <2>1, FileStep
<1> QED
    BY <1>3, <1>4, <1>5

-----------------------------------------------------------------------------
LEMMA DeliverInv ==
    ASSUME IndInv, NEW m \in Msg, NEW f \in Folder, Deliver(m, f)
    PROVE  IndInv'
<1>1. /\ file' \in [Msg -> Path] /\ stored' \subseteq Msg
      /\ kept' \in [Thread -> SUBSET Meta]
      /\ seen' \in [Thread -> SUBSET Meta]
      /\ since' \in [Thread -> SUBSET Msg]
      /\ FileInv' /\ ListingInv'
    BY AppendStep DEF Deliver
<1>2. WorkInv'
    BY DEF Deliver, viewVars, WorkInv, IndInv
<1>3. TypeOK'
    BY <1>1 DEF Deliver, CountChange, viewVars, TypeOK, IndInv
<1> QED
    BY <1>1, <1>2, <1>3 DEF IndInv

LEMMA ReadNewInv ==
    ASSUME IndInv, NEW t \in Thread, ReadNew(t)
    PROVE  IndInv'
<1> USE DEF IndInv
<1>1. PICK chance \in SUBSET (seen[t] \ kept[t]) :
          found' = [found EXCEPT ![t] = kept[t] \union chance]
    BY DEF ReadNew
<1>2. InSub(cmd[t].folder, "cur") \subseteq Meta
    BY DEF InSub, InFolder, Entry, Meta, Sub, Path, TypeOK
<1>3. TypeOK'
    BY <1>1, <1>2 DEF ReadNew, Goto, viewVars, TypeOK, Sub
<1>4. FileInv' /\ WorkInv'
    BY DEF ReadNew, Goto, viewVars, FileInv, WorkInv, TypeOK
<1>5. ASSUME NEW s \in Thread
      PROVE  /\ \A e \in kept'[s] : /\ file[e.msg] = PathOf(cmd[s].folder, e)
                                    /\ e.sub = pc'[s]
             /\ pc'[s] = "new" => \A n \in since[s] :
                   /\ file[n].folder = cmd[s].folder
                   /\ file[n].sub = "new" => Entry(n, file[n]) \in kept'[s]
             /\ pc'[s] = "cur" => \A n \in since[s] :
                   \E e \in found'[s] \union kept'[s] : e.msg = n
    <2>1. CASE s # t
        <3>1. pc'[s] = pc[s] /\ kept'[s] = kept[s] /\ found'[s] = found[s]
            BY <2>1 DEF ReadNew, Goto, TypeOK
        <3> QED
            BY <3>1 DEF ListingInv
    <2>2. CASE s = t
        <3>1. /\ pc[t] = "new" /\ pc'[t] = "cur" /\ kept'[t] = InSub(cmd[t].folder, "cur")
              /\ kept[t] \subseteq found'[t]
            BY <1>1 DEF ReadNew, Goto, TypeOK
        <3>2. ASSUME NEW e \in InSub(cmd[t].folder, "cur")
              PROVE  file[e.msg] = PathOf(cmd[t].folder, e) /\ e.sub = "cur"
            <4>1. PICK m \in Msg : /\ file[m].folder = cmd[t].folder /\ file[m].sub = "cur"
                                   /\ e = Entry(m, file[m])
                BY DEF InSub, InFolder
            <4>2. file[m] \in Path
                BY DEF TypeOK
            <4> QED
                BY <4>1, <4>2 DEF Entry, PathOf, Path
        <3>3. ASSUME NEW n \in since[t]
              PROVE  \E e \in found'[t] \union kept'[t] : e.msg = n
            <4>1. /\ n \in Msg /\ file[n].folder = cmd[t].folder
                  /\ file[n].sub = "new" => Entry(n, file[n]) \in kept[t]
                BY <3>1 DEF ListingInv, TypeOK
            <4>2. file[n] \in Path
                BY <4>1 DEF TypeOK
            <4>3. CASE file[n].sub = "new"
                BY <3>1, <4>1, <4>3 DEF Entry
            <4>4. CASE file[n].sub = "cur"
                <5>1. Entry(n, file[n]) \in kept'[t]
                    BY <3>1, <4>1, <4>4 DEF InSub, InFolder
                <5> QED
                    BY <5>1 DEF Entry
            <4> QED
                BY <4>2, <4>3, <4>4 DEF Path, Sub
        <3> QED
            BY <2>2, <3>1, <3>2, <3>3
    <2> QED
        BY <2>1, <2>2
<1>6. ListingInv'
    BY <1>5 DEF ListingInv, ReadNew, PathOf, Entry
<1> QED
    BY <1>3, <1>4, <1>6

\* The end of a listing, whether it succeeds or not.
LEMMA NoListingStep ==
    ASSUME IndInv, NEW t \in Thread, NoListing(t), file' = file,
           pc'[t] \notin Sub,
           \A s \in Thread \ {t} : pc'[s] = pc[s] /\ cmd'[s] = cmd[s]
    PROVE  /\ ListingInv'
           /\ found' \in [Thread -> SUBSET Meta]
           /\ kept' \in [Thread -> SUBSET Meta]
           /\ seen' \in [Thread -> SUBSET Meta]
           /\ since' \in [Thread -> SUBSET Msg]
<1>1. /\ found' \in [Thread -> SUBSET Meta]
      /\ kept' \in [Thread -> SUBSET Meta]
      /\ seen' \in [Thread -> SUBSET Meta]
      /\ since' \in [Thread -> SUBSET Msg]
    BY DEF NoListing, IndInv, TypeOK
<1>2. ASSUME NEW s \in Thread
      PROVE  /\ \A e \in kept'[s] : /\ file[e.msg] = PathOf(cmd'[s].folder, e)
                                    /\ e.sub = pc'[s]
             /\ pc'[s] = "new" => \A n \in since'[s] :
                   /\ file[n].folder = cmd'[s].folder
                   /\ file[n].sub = "new" => Entry(n, file[n]) \in kept'[s]
             /\ pc'[s] = "cur" => \A n \in since'[s] :
                   \E e \in found'[s] \union kept'[s] : e.msg = n
    <2>1. CASE s # t
        <3>1. /\ pc'[s] = pc[s] /\ cmd'[s] = cmd[s] /\ kept'[s] = kept[s]
              /\ since'[s] = since[s] /\ found'[s] = found[s]
            BY <2>1 DEF NoListing, IndInv, TypeOK
        <3> QED
            BY <3>1 DEF ListingInv, IndInv
    <2>2. CASE s = t
        BY <2>2 DEF NoListing, IndInv, TypeOK, Sub
    <2> QED
        BY <2>1, <2>2
<1>3. ListingInv'
    BY <1>2 DEF ListingInv, PathOf, Entry
<1> QED
    BY <1>1, <1>3

LEMMA ReadCurInv ==
    ASSUME IndInv, NEW t \in Thread, ReadCur(t)
    PROVE  IndInv'
<1> USE DEF IndInv
<1>1. PICK chance \in SUBSET (seen[t] \ kept[t]) :
          /\ snap' = [snap EXCEPT ![t] = found[t] \union kept[t] \union chance]
          /\ work' = [work EXCEPT ![t] = IF cmd[t].name \in WebRequest
                          THEN Chosen(found[t] \union kept[t] \union chance, cmd[t]) ELSE {}]
    BY DEF ReadCur
<1> DEFINE listing == found[t] \union kept[t] \union chance
<1>2. listing \subseteq Meta /\ Chosen(listing, cmd[t]) \subseteq Meta
    BY DEF TypeOK, Chosen
<1>3. /\ pc'[t] \in {"web", "ready"}
      /\ pc' \in [Thread -> Sub \union {"out", "ready", "store", "expunge", "copy", "web"}]
      /\ cmd' \in [Thread -> Command]
      /\ \A s \in Thread \ {t} : pc'[s] = pc[s] /\ cmd'[s] = cmd[s]
    <2> DEFINE next == [cmd[t] EXCEPT !.uids = {}]
    <2> cmd[t] \in Command
        BY DEF TypeOK
    <2> next \in Command /\ NoCommand \in Command
        BY CommandTypes
    <2>1. CASE cmd[t].name \in WebRequest
        <3>1. Goto(t, "web") /\ Run(t, next)
            BY <2>1 DEF ReadCur
        <3> HIDE DEF next
        <3> QED
            BY <3>1 DEF Goto, Run, TypeOK
    <2>2. CASE cmd[t].name \notin WebRequest
        <3>1. Goto(t, "ready") /\ Run(t, NoCommand)
            BY <2>2 DEF ReadCur
        <3> QED
            BY <3>1 DEF Goto, Run, TypeOK
    <2> QED
        BY <2>1, <2>2
<1>4. /\ ListingInv'
      /\ found' \in [Thread -> SUBSET Meta]
      /\ kept' \in [Thread -> SUBSET Meta]
      /\ seen' \in [Thread -> SUBSET Meta]
      /\ since' \in [Thread -> SUBSET Msg]
    BY <1>3, NoListingStep DEF ReadCur, Sub
<1>5. cmd[t] \in Command /\ cmd[t].folder \in Folder
    BY DEF TypeOK, Command
<1>6. /\ snap' \in [Thread -> SUBSET Meta] /\ work' \in [Thread -> SUBSET Meta]
      /\ folder' \in [Thread -> Folder]
    BY <1>1, <1>2, <1>5 DEF ReadCur, TypeOK
<1>7. TypeOK'
    BY <1>3, <1>4, <1>6 DEF ReadCur, TypeOK
<1>8. FileInv'
    BY DEF ReadCur, FileInv
<1>9. WorkInv'
    <2> \A s \in Thread \ {t} : work'[s] = work[s] /\ folder'[s] = folder[s]
        BY <1>1 DEF ReadCur, TypeOK
    <2> QED
        BY <1>3 DEF WorkInv
<1> QED
    BY <1>4, <1>7, <1>8, <1>9

LEMMA ListFailsInv ==
    ASSUME IndInv, NEW t \in Thread, ListFails(t)
    PROVE  IndInv'
<1> USE DEF IndInv
<1>1. /\ pc'[t] \in {"out", "ready"}
      /\ pc' \in [Thread -> Sub \union {"out", "ready", "store", "expunge", "copy", "web"}]
      /\ cmd' \in [Thread -> Command]
      /\ \A s \in Thread \ {t} : pc'[s] = pc[s] /\ cmd'[s] = cmd[s]
    BY CommandTypes DEF ListFails, Goto, Run, TypeOK
<1>2. /\ ListingInv'
      /\ found' \in [Thread -> SUBSET Meta]
      /\ kept' \in [Thread -> SUBSET Meta]
      /\ seen' \in [Thread -> SUBSET Meta]
      /\ since' \in [Thread -> SUBSET Msg]
    BY <1>1, NoListingStep DEF ListFails, Sub
<1>3. TypeOK' /\ FileInv'
    BY <1>1, <1>2 DEF ListFails, viewVars, TypeOK, FileInv
<1>4. WorkInv'
    BY <1>1 DEF ListFails, viewVars, WorkInv
<1> QED
    BY <1>2, <1>3, <1>4

-----------------------------------------------------------------------------
(* Steps that begin a listing. *)

LEMMA SelectInv ==
    ASSUME IndInv, NEW t \in Thread, NEW f \in Folder, Select(t, f)
    PROVE  IndInv'
<1> USE DEF IndInv
<1> DEFINE command == [NoCommand EXCEPT
                          !.name = IF pc[t] = "out" THEN "select" ELSE "refresh",
                          !.folder = f]
<1>1. command \in Command /\ command.folder = f
    BY FolderAssumption DEF NoCommand, Command, ImapCommand, Mode
<1>2. Run(t, command) /\ StartListing(t, f) /\ pc[t] \notin Sub
    BY DEF Select, Sub
<1> HIDE DEF command
<1>3. /\ cmd' \in [Thread -> Command] /\ cmd'[t].folder = f
      /\ \A s \in Thread \ {t} : cmd'[s] = cmd[s]
    BY <1>1, <1>2 DEF Run, TypeOK
<1>4. /\ ListingInv'
      /\ pc' \in [Thread -> Sub \union {"out", "ready", "store", "expunge", "copy", "web"}]
      /\ kept' \in [Thread -> SUBSET Meta]
      /\ seen' \in [Thread -> SUBSET Meta]
      /\ since' \in [Thread -> SUBSET Msg]
    BY <1>2, <1>3, StartingListing DEF Select
<1>5. TypeOK' /\ FileInv'
    BY <1>3, <1>4 DEF Select, viewVars, TypeOK, FileInv
<1>6. WorkInv'
    <2> pc'[t] = "new" /\ \A s \in Thread \ {t} : pc'[s] = pc[s]
        BY DEF Select, StartListing, Goto, TypeOK
    <2> QED
        BY <1>3 DEF Select, viewVars, WorkInv
<1> QED
    BY <1>4, <1>5, <1>6

LEMMA RefreshInv ==
    ASSUME IndInv, NEW t \in Thread, Refresh(t)
    PROVE  IndInv'
<1> USE DEF IndInv
<1> DEFINE command == [NoCommand EXCEPT !.name = "refresh", !.folder = folder[t]]
<1>1. folder[t] \in Folder
    BY DEF TypeOK
<1>2. command \in Command /\ command.folder = folder[t]
    BY <1>1, FolderAssumption DEF NoCommand, Command, ImapCommand, Mode
<1>3. Run(t, command) /\ StartListing(t, folder[t]) /\ pc[t] \notin Sub
    BY DEF Refresh, Sub
<1> HIDE DEF command
<1>4. /\ cmd' \in [Thread -> Command] /\ cmd'[t].folder = folder[t]
      /\ \A s \in Thread \ {t} : cmd'[s] = cmd[s]
    BY <1>2, <1>3 DEF Run, TypeOK
<1>5. /\ ListingInv'
      /\ pc' \in [Thread -> Sub \union {"out", "ready", "store", "expunge", "copy", "web"}]
      /\ kept' \in [Thread -> SUBSET Meta]
      /\ seen' \in [Thread -> SUBSET Meta]
      /\ since' \in [Thread -> SUBSET Msg]
    BY <1>1, <1>3, <1>4, StartingListing DEF Refresh
<1>6. TypeOK' /\ FileInv'
    BY <1>4, <1>5 DEF Refresh, viewVars, TypeOK, FileInv
<1>7. WorkInv'
    <2> pc'[t] = "new" /\ \A s \in Thread \ {t} : pc'[s] = pc[s]
        BY DEF Refresh, StartListing, Goto, TypeOK
    <2> QED
        BY <1>4 DEF Refresh, viewVars, WorkInv
<1> QED
    BY <1>5, <1>6, <1>7

LEMMA RequestInv ==
    ASSUME IndInv, NEW t \in Thread, NEW name \in WebRequest, NEW f \in Folder,
           NEW uids \in SUBSET Uid, Request(t, name, f, uids)
    PROVE  IndInv'
<1> USE DEF IndInv
<1> DEFINE command == [NoCommand EXCEPT !.name = name, !.folder = f, !.uids = uids]
<1>1. command \in Command /\ command.folder = f
    BY FolderAssumption DEF NoCommand, Command, Mode
<1>2. Run(t, command) /\ StartListing(t, f) /\ pc[t] \notin Sub
    BY DEF Request, Sub
<1> HIDE DEF command
<1>3. /\ cmd' \in [Thread -> Command] /\ cmd'[t].folder = f
      /\ \A s \in Thread \ {t} : cmd'[s] = cmd[s]
    BY <1>1, <1>2 DEF Run, TypeOK
<1>4. /\ ListingInv'
      /\ pc' \in [Thread -> Sub \union {"out", "ready", "store", "expunge", "copy", "web"}]
      /\ kept' \in [Thread -> SUBSET Meta]
      /\ seen' \in [Thread -> SUBSET Meta]
      /\ since' \in [Thread -> SUBSET Msg]
    BY <1>2, <1>3, StartingListing DEF Request
<1>5. TypeOK' /\ FileInv'
    BY <1>3, <1>4 DEF Request, CountChange, viewVars, TypeOK, FileInv
<1>6. WorkInv'
    <2> pc'[t] = "new" /\ \A s \in Thread \ {t} : pc'[s] = pc[s]
        BY DEF Request, StartListing, Goto, TypeOK
    <2> QED
        BY <1>3 DEF Request, viewVars, WorkInv
<1> QED
    BY <1>4, <1>5, <1>6

LEMMA CommandDoneInv ==
    ASSUME IndInv, NEW t \in Thread, CommandDone(t)
    PROVE  IndInv'
<1> USE DEF IndInv
<1>1. folder[t] \in Folder
    BY DEF TypeOK
<1>2. StartListing(t, folder[t]) /\ pc[t] \notin Sub /\ cmd' = cmd
    BY DEF CommandDone, Sub
<1>6. cmd[t].folder = folder[t]
    BY DEF CommandDone, WorkInv
<1>3. /\ ListingInv'
      /\ pc' \in [Thread -> Sub \union {"out", "ready", "store", "expunge", "copy", "web"}]
      /\ kept' \in [Thread -> SUBSET Meta]
      /\ seen' \in [Thread -> SUBSET Meta]
      /\ since' \in [Thread -> SUBSET Msg]
    BY <1>1, <1>2, <1>6, StartingListing DEF CommandDone, TypeOK
<1>4. TypeOK' /\ FileInv'
    BY <1>3 DEF CommandDone, viewVars, TypeOK, FileInv
<1>5. WorkInv'
    <2> pc'[t] = "new" /\ \A s \in Thread \ {t} : pc'[s] = pc[s]
        BY DEF CommandDone, StartListing, Goto, TypeOK
    <2> QED
        BY DEF CommandDone, viewVars, WorkInv
<1> QED
    BY <1>3, <1>4, <1>5

-----------------------------------------------------------------------------
(* Steps of commands and requests. *)

LEMMA AppendCommandInv ==
    ASSUME IndInv, NEW t \in Thread, NEW m \in Msg, NEW f \in Folder,
           NEW flags \in SUBSET Flag, AppendCommand(t, m, f, flags)
    PROVE  IndInv'
<1> USE DEF IndInv
<1> DEFINE command == [NoCommand EXCEPT !.name = "append", !.folder = folder[t]]
<1>1. command \in Command /\ command.folder = folder[t]
    BY FolderAssumption DEF NoCommand, Command, ImapCommand, Mode, TypeOK
<1>2. \/ pc[t] = "ready" /\ Goto(t, "store") /\ Run(t, command)
      \/ UNCHANGED <<pc, cmd>>
    BY DEF AppendCommand
<1> HIDE DEF command
<1>3. /\ pc' \in [Thread -> Sub \union {"out", "ready", "store", "expunge", "copy", "web"}]
      /\ cmd' \in [Thread -> Command]
      /\ \A s \in Thread \ {t} : pc'[s] = pc[s] /\ cmd'[s] = cmd[s]
      /\ pc[t] \in {"out", "ready"} /\ pc'[t] \in {"out", "ready", "store"}
      /\ pc'[t] = "store" => cmd'[t].folder = folder[t]
    BY <1>1, <1>2 DEF AppendCommand, Goto, Run, TypeOK
<1>4. /\ file' \in [Msg -> Path] /\ stored' \subseteq Msg
      /\ kept' \in [Thread -> SUBSET Meta]
      /\ seen' \in [Thread -> SUBSET Meta]
      /\ since' \in [Thread -> SUBSET Msg]
      /\ FileInv' /\ ListingInv'
    <2>1. \A s \in Thread :
              \/ pc'[s] = pc[s] /\ cmd'[s] = cmd[s] /\ found'[s] = found[s]
              \/ pc[s] \notin Sub /\ pc'[s] \notin Sub
        BY <1>3 DEF AppendCommand, Sub
    <2> QED
        BY <2>1, AppendStep DEF AppendCommand
<1>5. TypeOK'
    BY <1>3, <1>4 DEF AppendCommand, CountChange, viewVars, TypeOK
<1>6. WorkInv'
    BY <1>3 DEF AppendCommand, viewVars, WorkInv
<1> QED
    BY <1>4, <1>5, <1>6

LEMMA StoreInv ==
    ASSUME IndInv, NEW t \in Thread, NEW metas \in SUBSET snap[t], NEW mode \in Mode,
           NEW flags \in SUBSET Flag, Store(t, metas, mode, flags)
    PROVE  IndInv'
<1> USE DEF IndInv
<1> DEFINE command == [NoCommand EXCEPT !.name = "store", !.folder = folder[t],
                                        !.mode = mode, !.flags = flags]
<1>1. command \in Command /\ command.folder = folder[t]
    BY FolderAssumption DEF NoCommand, Command, ImapCommand, Mode, TypeOK
<1>2. Goto(t, "store") /\ Run(t, command) /\ pc[t] = "ready"
    BY DEF Store
<1> HIDE DEF command
<1>3. TypeOK'
    BY <1>1, <1>2 DEF Store, Goto, Run, CountChange, viewVars, readVars, TypeOK
<1>4. FileInv' /\ WorkInv'
    BY <1>1, <1>2 DEF Store, Goto, Run, viewVars, FileInv, WorkInv, TypeOK
<1>5. ListingInv'
    BY <1>2, QuietListing DEF Store, Goto, Run, TypeOK, Sub
<1> QED
    BY <1>3, <1>4, <1>5

LEMMA ExpungeInv ==
    ASSUME IndInv, NEW t \in Thread, NEW name \in {"expunge", "close"}, Expunge(t, name)
    PROVE  IndInv'
<1> USE DEF IndInv
<1> DEFINE command == [NoCommand EXCEPT !.name = name, !.folder = folder[t]]
<1>1. command \in Command /\ command.folder = folder[t]
    BY FolderAssumption DEF NoCommand, Command, ImapCommand, Mode, TypeOK
<1>2. Goto(t, "expunge") /\ Run(t, command) /\ pc[t] = "ready"
    BY DEF Expunge
<1> HIDE DEF command
<1>3. TypeOK'
    BY <1>1, <1>2 DEF Expunge, Goto, Run, CountChange, viewVars, readVars, TypeOK
<1>4. FileInv' /\ WorkInv'
    BY <1>1, <1>2 DEF Expunge, Goto, Run, viewVars, FileInv, WorkInv, TypeOK
<1>5. ListingInv'
    BY <1>2, QuietListing DEF Expunge, Goto, Run, TypeOK, Sub
<1> QED
    BY <1>3, <1>4, <1>5

LEMMA CopyInv ==
    ASSUME IndInv, NEW t \in Thread, NEW metas \in SUBSET snap[t], NEW f \in Folder,
           Copy(t, metas, f)
    PROVE  IndInv'
<1> USE DEF IndInv
<1> DEFINE command == [NoCommand EXCEPT !.name = "copy", !.folder = f]
<1>1. command \in Command
    BY FolderAssumption DEF NoCommand, Command, ImapCommand, Mode
<1>2. Goto(t, "copy") /\ Run(t, command) /\ pc[t] = "ready"
    BY DEF Copy
<1> HIDE DEF command
<1>3. TypeOK'
    BY <1>1, <1>2 DEF Copy, Goto, Run, CountChange, viewVars, readVars, TypeOK
<1>4. FileInv' /\ WorkInv'
    BY <1>2 DEF Copy, Goto, Run, viewVars, FileInv, WorkInv, TypeOK
<1>5. ListingInv'
    BY <1>2, QuietListing DEF Copy, Goto, Run, TypeOK, Sub
<1> QED
    BY <1>3, <1>4, <1>5

\* Steps that change a message in view, or nothing, and tick it off.
LEMMA VisitInv ==
    ASSUME IndInv, NEW t \in Thread, NEW meta \in work[t],
           \/ StoreFlags(t, meta)
           \/ \E f \in Folder : Move(t, meta, f)
           \/ Unlink(folder[t], meta)
           \/ UNCHANGED <<file, readVars>>,
           work' = [work EXCEPT ![t] = @ \ {meta}],
           UNCHANGED <<stored, pc, viewVars, cmd, found, changes>>
    PROVE  IndInv'
<1> USE DEF IndInv
<1>1. meta \in Meta
    BY DEF TypeOK
<1>2. /\ file' \in [Msg -> Path] /\ stored' \subseteq Msg
      /\ kept' \in [Thread -> SUBSET Meta]
      /\ seen' \in [Thread -> SUBSET Meta]
      /\ since' \in [Thread -> SUBSET Msg]
      /\ FileInv' /\ ListingInv'
    <2>1. CASE UNCHANGED <<file, readVars>>
        BY <2>1, QuietListing DEF readVars, TypeOK, FileInv
    <2>2. CASE \/ StoreFlags(t, meta)
               \/ \E f \in Folder : Move(t, meta, f)
               \/ Unlink(folder[t], meta)
        BY <1>1, <2>2, UpdateStep
    <2> QED
        BY <2>1, <2>2
<1>3. TypeOK'
    BY <1>2 DEF viewVars, TypeOK
<1>4. WorkInv'
    BY DEF viewVars, WorkInv, TypeOK
<1> QED
    BY <1>2, <1>3, <1>4

\* What a request does to a message is one of the three changes.
LEMMA WebChange ==
    ASSUME NEW t \in Thread, NEW meta, WebOne(t, meta)
    PROVE  \/ StoreFlags(t, meta)
           \/ \E f \in Folder : Move(t, meta, f)
           \/ Unlink(folder[t], meta) /\ folder[t] \in {Trash, Junk}
           \/ UNCHANGED <<file, readVars>>
    BY FolderAssumption DEF WebOne, WebFlag, WebDelete, WebSpam, WebNotSpam

LEMMA StoreOneInv ==
    ASSUME IndInv, NEW t \in Thread, StoreOne(t)
    PROVE  IndInv'
    BY VisitInv DEF StoreOne, StoreNothing

LEMMA ExpungeOneInv ==
    ASSUME IndInv, NEW t \in Thread, ExpungeOne(t)
    PROVE  IndInv'
    BY VisitInv DEF ExpungeOne

LEMMA WebOneInv ==
    ASSUME IndInv, NEW t \in Thread, NEW meta \in work[t], WebOne(t, meta)
    PROVE  IndInv'
    BY VisitInv, WebChange DEF WebOne

LEMMA CopyOneInv ==
    ASSUME IndInv, NEW t \in Thread, NEW m \in Msg, CopyOne(t, m)
    PROVE  IndInv'
<1> USE DEF IndInv
<1>1. PICK meta \in work[t] : /\ AppendRaw(m, cmd[t].folder, meta.flags)
                              /\ work' = [work EXCEPT ![t] = @ \ {meta}]
    BY DEF CopyOne
<1>2. meta \in Meta /\ cmd[t].folder \in Folder
    BY DEF TypeOK, Command
<1>3. meta.flags \in SUBSET Flag
    BY <1>2 DEF Meta
<1>4. /\ file' \in [Msg -> Path] /\ stored' \subseteq Msg
      /\ kept' \in [Thread -> SUBSET Meta]
      /\ seen' \in [Thread -> SUBSET Meta]
      /\ since' \in [Thread -> SUBSET Msg]
      /\ FileInv' /\ ListingInv'
    BY <1>1, <1>2, <1>3, AppendStep DEF CopyOne
<1>5. TypeOK' /\ WorkInv'
    BY <1>1, <1>4 DEF CopyOne, viewVars, TypeOK, WorkInv
<1> QED
    BY <1>4, <1>5

\* Steps that end a command.
LEMMA EndInv ==
    ASSUME IndInv, NEW t \in Thread,
           StoreFails(t) \/ CloseDone(t) \/ CopyDone(t) \/ Leave(t) \/ WebDone(t)
    PROVE  IndInv'
<1> USE DEF IndInv
<1>1. /\ UNCHANGED <<file, stored, found, readVars, changes>>
      /\ pc[t] \notin Sub
      /\ pc' = [pc EXCEPT ![t] = pc'[t]] /\ pc'[t] \in {"out", "ready"}
      /\ cmd' \in [Thread -> Command]
      /\ \A s \in Thread \ {t} : cmd'[s] = cmd[s]
    BY CommandTypes DEF StoreFails, CloseDone, CopyDone, Leave, WebDone, Goto, Run, Sub, TypeOK
<1>2. /\ folder' \in [Thread -> Folder] /\ snap' \in [Thread -> SUBSET Meta]
      /\ \A s \in Thread \ {t} : folder'[s] = folder[s]
    BY FolderAssumption
       DEF StoreFails, CloseDone, CopyDone, Leave, WebDone, NoView, viewVars, TypeOK
<1>3. /\ work' \in [Thread -> SUBSET Meta]
      /\ \A s \in Thread \ {t} : work'[s] = work[s]
    BY DEF StoreFails, CloseDone, CopyDone, Leave, WebDone, TypeOK
<1>4. TypeOK' /\ FileInv'
    BY <1>1, <1>2, <1>3 DEF readVars, TypeOK, FileInv
<1>5. ListingInv'
    <2>1. \A s \in Thread :
              \/ pc'[s] = pc[s] /\ cmd'[s] = cmd[s] /\ found'[s] = found[s]
              \/ pc[s] \notin Sub /\ pc'[s] \notin Sub
        BY <1>1 DEF Sub, TypeOK
    <2> QED
        BY <1>1, <2>1, QuietListing
<1>6. WorkInv'
    BY <1>1, <1>2, <1>3 DEF WorkInv, TypeOK
<1> QED
    BY <1>4, <1>5, <1>6

-----------------------------------------------------------------------------
LEMMA StepInv == IndInv /\ [Next]_vars => IndInv'
<1> SUFFICES ASSUME IndInv, [Next]_vars PROVE IndInv'
    OBVIOUS
<1>1. ASSUME NEW m \in Msg, NEW f \in Folder \ {Trash}, Deliver(m, f) PROVE IndInv'
    BY <1>1, DeliverInv
<1>2. ASSUME NEW t \in Thread, Listing(t) PROVE IndInv'
    BY <1>2, ReadNewInv, ReadCurInv, ListFailsInv DEF Listing
<1>3. ASSUME NEW t \in Thread, Imap(t) PROVE IndInv'
    <2>1. ASSUME NEW f \in Folder, Select(t, f) PROVE IndInv'
        BY <2>1, SelectInv
    <2>2. CASE Refresh(t)
        BY <2>2, RefreshInv
    <2>3. ASSUME NEW m \in Msg, NEW f \in Folder, NEW flags \in FlagSets,
                 AppendCommand(t, m, f, flags)
          PROVE  IndInv'
        BY <2>3, AppendCommandInv, FlagAssumption
    <2>4. ASSUME NEW metas \in (SUBSET snap[t]) \ {{}}, NEW mode \in Mode,
                 NEW flags \in FlagSets, Store(t, metas, mode, flags)
          PROVE  IndInv'
        BY <2>4, StoreInv, FlagAssumption
    <2>5. ASSUME NEW metas \in (SUBSET snap[t]) \ {{}}, NEW f \in Folder, Copy(t, metas, f)
          PROVE  IndInv'
        BY <2>5, CopyInv
    <2>6. ASSUME NEW name \in {"expunge", "close"}, Expunge(t, name) PROVE IndInv'
        BY <2>6, ExpungeInv
    <2>7. CASE StoreOne(t)
        BY <2>7, StoreOneInv
    <2>8. CASE ExpungeOne(t)
        BY <2>8, ExpungeOneInv
    <2>9. CASE CommandDone(t)
        BY <2>9, CommandDoneInv
    <2>10. ASSUME NEW m \in Msg, CopyOne(t, m) PROVE IndInv'
        BY <2>10, CopyOneInv
    <2>11. CASE StoreFails(t) \/ CloseDone(t) \/ CopyDone(t) \/ Leave(t)
        BY <2>11, EndInv
    <2> QED
        BY <1>3, <2>1, <2>2, <2>3, <2>4, <2>5, <2>6, <2>7, <2>8, <2>9, <2>10, <2>11 DEF Imap
<1>4. ASSUME NEW t \in Thread, Web(t) PROVE IndInv'
    <2>1. ASSUME NEW name \in WebRequest, NEW f \in Folder,
                 NEW uids \in (SUBSET Uid) \ {{}}, Request(t, name, f, uids)
          PROVE  IndInv'
        BY <2>1, RequestInv
    <2>2. ASSUME NEW meta \in work[t], WebOne(t, meta) PROVE IndInv'
        BY <2>2, WebOneInv
    <2>3. CASE WebDone(t)
        BY <2>3, EndInv
    <2> QED
        BY <1>4, <2>1, <2>2, <2>3 DEF Web
<1>5. CASE UNCHANGED vars
    BY <1>5 DEF vars, IndInv, TypeOK, FileInv, ListingInv, WorkInv, Exists, PathOf, Entry
<1> QED
    BY <1>1, <1>2, <1>3, <1>4, <1>5 DEF Next

\* The inductive invariant: types, where flags can be, what a listing under way
\* has found, what an EXPUNGE under way is to remove.
THEOREM Invariance == Spec => []IndInv
<1> QED
    BY InitInv, StepInv, PTL DEF Spec

\* The steps that change a message which is in the mailbox, one by one.
LEMMA Changes ==
    ASSUME IndInv, [Next]_vars, NEW m \in Msg, file[m].folder # Nowhere, file'[m] # file[m]
    PROVE  \E t \in Thread : \E meta \in work[t] :
              /\ work' = [work EXCEPT ![t] = @ \ {meta}]
              /\ meta \in Meta /\ meta.msg = m /\ Exists(folder[t], meta)
              /\ \/ pc[t] \in {"store", "web"} /\ file'[m] = Stored(t, meta)
                 \/ \E f \in Folder : file'[m] = PathOf(f, meta)
                 \/ pc[t] = "expunge" /\ file'[m] = Gone
                 \/ folder[t] \in {Trash, Junk} /\ file'[m] = Gone
<1> USE DEF IndInv
<1>1. \A n \in Msg, f \in Folder, flags \in SUBSET Flag :
          AppendRaw(n, f, flags) => file'[m] = file[m]
    <2> SUFFICES ASSUME NEW n \in Msg, NEW f \in Folder, NEW flags \in SUBSET Flag,
                        AppendRaw(n, f, flags)
                 PROVE  file'[m] = file[m]
        OBVIOUS
    <2>1. n # m
        BY DEF AppendRaw, FileInv, Gone
    <2> QED
        BY <2>1 DEF AppendRaw, Change, TypeOK
<1>2. \A t \in Thread : \A meta \in work[t] : \A path :
          Change(meta.msg, path) => meta.msg = m /\ file'[m] = path
    <2> SUFFICES ASSUME NEW t \in Thread, NEW meta \in work[t], NEW path,
                        Change(meta.msg, path)
                 PROVE  meta.msg = m /\ file'[m] = path
        OBVIOUS
    <2> QED
        BY DEF Change, TypeOK
<1>3. \A t \in Thread : \A meta \in work[t] : meta \in Meta
    BY DEF TypeOK
<1>4. ASSUME NEW t \in Thread, StoreOne(t)
      PROVE  \E meta \in work[t] :
                /\ work' = [work EXCEPT ![t] = @ \ {meta}]
                /\ meta.msg = m /\ Exists(folder[t], meta)
                /\ pc[t] = "store" /\ file'[m] = Stored(t, meta)
    BY <1>2, <1>4 DEF StoreOne, StoreFlags, StoreNothing
<1>5. ASSUME NEW t \in Thread, ExpungeOne(t)
      PROVE  \E meta \in work[t] :
                /\ work' = [work EXCEPT ![t] = @ \ {meta}]
                /\ meta.msg = m /\ Exists(folder[t], meta)
                /\ pc[t] = "expunge" /\ file'[m] = Gone
    BY <1>2, <1>5 DEF ExpungeOne, Unlink
<1>6. ASSUME NEW t \in Thread, NEW meta \in work[t], WebOne(t, meta)
      PROVE  /\ work' = [work EXCEPT ![t] = @ \ {meta}]
             /\ meta.msg = m /\ Exists(folder[t], meta)
             /\ \/ pc[t] = "web" /\ file'[m] = Stored(t, meta)
                \/ \E f \in Folder : file'[m] = PathOf(f, meta)
                \/ folder[t] \in {Trash, Junk} /\ file'[m] = Gone
    <2>1. CASE StoreFlags(t, meta)
        BY <1>2, <1>6, <2>1 DEF WebOne, StoreFlags
    <2>2. CASE \E f \in Folder : Move(t, meta, f)
        BY <1>2, <1>6, <2>2 DEF WebOne, Move
    <2>3. CASE Unlink(folder[t], meta) /\ folder[t] \in {Trash, Junk}
        BY <1>2, <1>6, <2>3 DEF WebOne, Unlink
    <2>4. ~UNCHANGED <<file, readVars>>
        OBVIOUS
    <2> QED
        BY <1>6, <2>1, <2>2, <2>3, <2>4, WebChange
<1>7. ASSUME NEW n \in Msg, NEW f \in Folder, Deliver(n, f) PROVE FALSE
    BY <1>1, <1>7 DEF Deliver
<1>8. ASSUME NEW t \in Thread, NEW n \in Msg, CopyOne(t, n) PROVE FALSE
    <2>1. PICK meta \in work[t] : AppendRaw(n, cmd[t].folder, meta.flags)
        BY <1>8 DEF CopyOne
    <2>2. cmd[t].folder \in Folder /\ meta.flags \in SUBSET Flag
        BY <1>3 DEF TypeOK, Command, Meta
    <2> QED
        BY <1>1, <2>1, <2>2
<1>9. ASSUME NEW t \in Thread, NEW n \in Msg, NEW f \in Folder, NEW flags \in FlagSets,
             AppendCommand(t, n, f, flags)
      PROVE  FALSE
    BY <1>1, <1>9, FlagAssumption DEF AppendCommand
<1>10. ASSUME NEW t \in Thread, Listing(t) PROVE FALSE
    BY <1>10 DEF Listing, ReadNew, ReadCur, ListFails
<1>11. ASSUME NEW t \in Thread, Imap(t)
       PROVE  StoreOne(t) \/ ExpungeOne(t)
    BY <1>8, <1>9, <1>11 DEF Imap, Select, Refresh, Leave, Store, Copy, Expunge,
       StoreFails, CommandDone, CloseDone, CopyDone
<1>12. ASSUME NEW t \in Thread, Web(t)
       PROVE  \E meta \in work[t] : WebOne(t, meta)
    BY <1>12 DEF Web, Request, WebDone
<1>13. \E t \in Thread : \/ StoreOne(t) \/ ExpungeOne(t)
                         \/ \E meta \in work[t] : WebOne(t, meta)
    BY <1>7, <1>10, <1>11, <1>12 DEF Next, vars
<1> QED
    BY <1>3, <1>4, <1>5, <1>6, <1>13

\* Nothing is lost by an old view: what disappears is \Deleted at that moment,
\* or in the trash or the junk folder.
THEOREM NothingVanishes == Spec => ExpungedOnlyDeleted
<1>1. ASSUME IndInv, [Next]_vars, NEW m \in Msg,
             file[m].folder # Nowhere, file'[m].folder = Nowhere
      PROVE  Deleted \in file[m].flags \/ file[m].folder \in {Trash, Junk}
    <2>1. PICK t \in Thread : \E meta \in work[t] :
              /\ meta \in Meta /\ meta.msg = m /\ Exists(folder[t], meta)
              /\ \/ pc[t] \in {"store", "web"} /\ file'[m] = Stored(t, meta)
                 \/ \E f \in Folder : file'[m] = PathOf(f, meta)
                 \/ pc[t] = "expunge" /\ file'[m] = Gone
                 \/ folder[t] \in {Trash, Junk} /\ file'[m] = Gone
        BY <1>1, Changes
    <2>2. PICK meta \in work[t] :
              /\ meta \in Meta /\ meta.msg = m /\ Exists(folder[t], meta)
              /\ \/ pc[t] \in {"store", "web"} /\ file'[m] = Stored(t, meta)
                 \/ \E f \in Folder : file'[m] = PathOf(f, meta)
                 \/ pc[t] = "expunge" /\ file'[m] = Gone
                 \/ folder[t] \in {Trash, Junk} /\ file'[m] = Gone
        BY <2>1
    <2>3. /\ folder[t] # Nowhere /\ file[m].folder = folder[t] /\ file[m].flags = meta.flags
        BY <1>1, <2>2, ViewedPath
    <2>4. file'[m] # Stored(t, meta)
        BY <1>1, <2>2, <2>3, StoredPath
    <2>5. \A f \in Folder : file'[m] # PathOf(f, meta)
        BY <1>1, FolderAssumption DEF PathOf
    <2>6. pc[t] = "expunge" => Deleted \in meta.flags
        BY <1>1 DEF IndInv, WorkInv
    <2> QED
        BY <2>2, <2>3, <2>4, <2>5, <2>6
<1>2. IndInv /\ [Next]_vars =>
          [\A m \in Msg :
              file[m].folder # Nowhere /\ file'[m].folder = Nowhere =>
                  Deleted \in file[m].flags \/ file[m].folder \in {Trash, Junk}]_vars
    BY <1>1
<1> QED
    BY <1>2, Invariance, PTL DEF Spec, ExpungedOnlyDeleted

\* Flags are changed from what they are, not from what an old view shows.
THEOREM FlagsAccumulate == Spec => NoLostUpdate
<1>1. ASSUME IndInv, [Next]_vars, NEW m \in Msg,
             file[m].folder # Nowhere, file'[m].folder # Nowhere,
             file'[m].flags # file[m].flags
      PROVE  /\ file'[m].folder = file[m].folder
             /\ \E t \in Thread : /\ pc[t] \in {"store", "web"}
                                  /\ work'[t] # work[t]
                                  /\ file'[m].flags = Wanted(cmd[t], file[m].flags)
    <2>1. PICK t \in Thread : \E meta \in work[t] :
              /\ work' = [work EXCEPT ![t] = @ \ {meta}]
              /\ meta \in Meta /\ meta.msg = m /\ Exists(folder[t], meta)
              /\ \/ pc[t] \in {"store", "web"} /\ file'[m] = Stored(t, meta)
                 \/ \E f \in Folder : file'[m] = PathOf(f, meta)
                 \/ pc[t] = "expunge" /\ file'[m] = Gone
                 \/ folder[t] \in {Trash, Junk} /\ file'[m] = Gone
        BY <1>1, Changes
    <2>2. PICK meta \in work[t] :
              /\ work' = [work EXCEPT ![t] = @ \ {meta}]
              /\ meta \in Meta /\ meta.msg = m /\ Exists(folder[t], meta)
              /\ \/ pc[t] \in {"store", "web"} /\ file'[m] = Stored(t, meta)
                 \/ \E f \in Folder : file'[m] = PathOf(f, meta)
                 \/ pc[t] = "expunge" /\ file'[m] = Gone
                 \/ folder[t] \in {Trash, Junk} /\ file'[m] = Gone
        BY <2>1
    <2>3. file[m].folder = folder[t] /\ file[m].flags = meta.flags
        BY <1>1, <2>2, ViewedPath
    <2>4. file'[m] # Gone
        BY <1>1 DEF Gone
    <2>5. \A f \in Folder : file'[m] # PathOf(f, meta)
        BY <1>1, <2>3 DEF PathOf
    <2>6. pc[t] \in {"store", "web"} /\ file'[m] = Stored(t, meta)
        BY <2>2, <2>4, <2>5
    <2>7. /\ file'[m].folder = folder[t]
          /\ file'[m].flags = Wanted(cmd[t], meta.flags)
        BY <1>1, <2>2, <2>6, StoredPath
    <2>8. work'[t] # work[t]
        BY <1>1, <2>2 DEF IndInv, TypeOK
    <2> QED
        BY <2>3, <2>6, <2>7, <2>8
<1>2. IndInv /\ [Next]_vars =>
          [\A m \in Msg :
              file[m].folder # Nowhere /\ file'[m].folder # Nowhere
              /\ file'[m].flags # file[m].flags =>
                  /\ file'[m].folder = file[m].folder
                  /\ \E t \in Thread : /\ pc[t] \in {"store", "web"}
                                       /\ work'[t] # work[t]
                                       /\ file'[m].flags = Wanted(cmd[t], file[m].flags)]_vars
    BY <1>1
<1> QED
    BY <1>2, Invariance, PTL DEF Spec, NoLostUpdate

\* A listing misses nothing that stays in the folder.
THEOREM NothingMissed == Spec => ListingComplete
<1>1. ASSUME IndInv, NEW t \in Thread, ReadCur(t), NEW m \in since[t]
      PROVE  \E e \in snap'[t] : e.msg = m
    <2>1. found[t] \union kept[t] \subseteq snap'[t]
        BY <1>1 DEF ReadCur, IndInv, TypeOK
    <2>2. \E e \in found[t] \union kept[t] : e.msg = m
        BY <1>1 DEF ReadCur, IndInv, ListingInv
    <2> QED
        BY <2>1, <2>2
<1>2. IndInv /\ [Next]_vars =>
          [\A t \in Thread :
              ReadCur(t) => \A m \in since[t] : \E e \in snap'[t] : e.msg = m]_vars
    BY <1>1
<1> QED
    BY <1>2, Invariance, PTL DEF Spec, ListingComplete
=============================================================================

-------------------------------- MODULE MCSite ---------------------------------
(* A small instance of Site: files with everything an operator may write; two *)
(* threads, names, sessions and invitations; one browser; two messages.       *)
EXTENDS Site

CONSTANTS
    plain, simple, slash, hash, word,                     \* words of the file
    t1, t2, k1, k2, ann, bob, i1, i2,                     \* Administration
    m1, m2                                                \* Backup

(* The threads are alike, and so are names, sessions and invitations.         *)
MCSymmetry == Permutations({t1, t2}) \union Permutations({k1, k2})
                  \union Permutations({ann, bob}) \union Permutations({i1, i2})

-------------------------------------------------------------------------------
(* Files with accounts and quotas, between other sections, in two sections of *)
(* one name, with repeated keys and with words that need care ...             *)
MCTables == {<< >>,
    <<Header("users"), Pair(Word(plain), Word(simple))>>,
    <<Header("users"), Pair(Word(plain), Word(simple)),
      Header("quotas"), Pair(Word(plain), Word(5))>>,
    <<Header("quotas"), Pair(Word(plain), Word(5)),
      Header("misc"), Pair(Word("acme"), Word(simple)),
      Header("users"), Pair(Word(simple), Word(plain)), Pair(Word(plain), Word(plain))>>,
    <<Header("users"), Pair(Word(plain), Word(hash)), Header("misc"), Comment,
      Header("users"), Pair(Word(slash), Word(slash)),
      Header("quotas"), Pair(Word(simple), Word(word))>>}
(* ... behind settings that are there, are not, are there twice, or do not    *)
(* parse.                                                                     *)
MCTops == {<< >>, <<Comment>>, <<Junk>>,
    <<Pair(Word("admin_user"), Word(plain))>>, <<Noted(Word("admin_user"), Word(plain))>>,
    <<Pair(Word("acme"), Word(hash)), Pair(Word("web_tls_listen"), Word(""))>>,
    <<Pair(Word("domains"), Word(simple)), Comment, Pair(Word("domains"), Word(slash)),
      Pair(Word("web_tls_listen"), Word(simple))>>}
MCTexts == {top \o table : top \in MCTops, table \in MCTables}

MCPlain == {plain, simple}
MCEdit(o, n, v) == [op |-> o, name |-> Word(n), val |-> Word(v)]
MCEdits ==
    {MCEdit(o, n, v) : o \in {"add", "password", "rename", "setup"}, n \in MCPlain, v \in MCPlain}
    \union {MCEdit("remove", n, "") : n \in MCPlain}
    \union {MCEdit("quota", n, v) : n \in MCPlain, v \in {0, 7}}
    \union {MCEdit(o, simple, plain) : o \in {"acme", "domains", "public_host"}}
    \union {MCEdit("add", slash, plain), MCEdit("rename", plain, hash),
            MCEdit("domains", simple, slash)}

-------------------------------------------------------------------------------
(* A folder so deep that a path is cut in two, one that takes two components, *)
(* and one left out; two key files of one name.                               *)
MCFolders == <<"deep", "cur", "new", "tmp">>
MCLength  == [d \in {"deep", "cur", "new", "tmp"} |->
    CASE d = "deep" -> 10 [] d = "new" -> 4 [] OTHER -> 1]
MCSlashes == [d \in {"deep", "cur", "new", "tmp"} |->
    CASE d = "deep" -> {3, 6, 8} [] d = "new" -> {1} [] OTHER -> {}]
MCSize   == [m \in {m1, m2} |-> IF m = m1 THEN 3 ELSE 5]
MCExtras == <<"dkim", "cert", "key">>
MCBase   == [k \in {"dkim", "cert", "key"} |-> IF k = "cert" THEN "crt" ELSE "pem"]

-------------------------------------------------------------------------------
(* Of what rests, one initial state is enough; and of the shapes of           *)
(* config.toml, one that the restore gets right and one that it does not.     *)
Resting ==
    /\ bShape \in {"named", "no newline"}
    /\ part = "edits" \/ session = [k \in {k1, k2} |-> None]
    /\ part = "gate" \/ (accounts = {} /\ ~trusted)
    /\ part = "backup" \/ (bPlace = [m \in {m1, m2} |-> Move!Nowhere] /\ bShape = "named")
    /\ part = "backup" \/ bHost = Move!Fresh

MCInit == SiteInit /\ Resting
MCSpec == MCInit /\ [][SiteNext]_<<part, vars, aVars, wVars, bVars>>
===============================================================================

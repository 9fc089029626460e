------------------------------ MODULE ConfigText ------------------------------
(* config.toml as text: how the server reads it (Config::parse) and how the   *)
(* editor of useredit.rs changes it line by line while it keeps what the      *)
(* operator wrote by hand.  Administration.tla takes the edits for what they  *)
(* mean; here they are what they do to the lines.                             *)
(*                                                                            *)
(* A line is a section header, a pair, junk without an equals sign, or a      *)
(* comment.  Neither parser undoes the escapes the editor writes, and both    *)
(* cut a value at a number sign even inside quotes: a text carries how often  *)
(* it was escaped and whether it was cut.                                     *)
EXTENDS Naturals, Sequences, FiniteSets, SequencesExt

CONSTANTS
    Plain,      \* words without special characters
    Special,    \* words with a backslash or a quote
    Hashy,      \* words with a number sign
    Number,     \* quotas in MiB that parse
    Texts,      \* the files an operator may have written
    Edits,      \* the edits looked at
    MaxEscapes, \* bound: escapes told apart
    MaxEdits    \* bound: edits made one after another

VARIABLES text, last, made

vars == <<text, last, made>>

-------------------------------------------------------------------------------
(* Lines.                                                                     *)

Word(w) == [word |-> w, esc |-> 0, cut |-> FALSE]
Blank == Word("")

Header(s) == [kind |-> "header", section |-> s]
Junk      == [kind |-> "junk"]
Comment   == [kind |-> "comment"]

(* Instead of a new text: the edit is refused. *)
Absent == <<[kind |-> "refused"]>>

(* `note': a comment follows the value on the same line *)
Pair(k, v) == [kind |-> "pair", key |-> k, val |-> v, note |-> FALSE]
Noted(k, v) == [Pair(k, v) EXCEPT !.note = TRUE]

(* A word as the operator, the editor or a parser leaves it. *)
IsText(x) ==
    /\ x \in [word : {x.word}, esc : 0 .. MaxEscapes, cut : BOOLEAN]
    /\ x.cut => x.word \in Hashy
(* No section is without a name. *)
IsLine(l) ==
    \/ l.kind \in {"junk", "comment"}
    \/ l.kind = "header" /\ l.section # ""
    \/ l.kind = "pair" /\ IsText(l.key) /\ IsText(l.val)
IsFile(t) ==
    Len(t) \in Nat /\ t = [i \in 1 .. Len(t) |-> t[i]] /\ \A i \in DOMAIN t : IsLine(t[i])

IsEdit(e) ==
    /\ e.op \in {"add", "password", "remove", "quota", "rename", "setup", "acme", "domains",
                 "public_host"}
    /\ e.name = Word(e.name.word)
    /\ e.op # "remove" => e.val = Word(e.val.word)
    /\ e.op = "quota" => e.val.word \in Number

TextAssumption ==
    /\ (Plain \union Number) \intersect (Special \union Hashy) = {}
    /\ "true" \notin Special \union Hashy /\ "" \notin Hashy
    /\ Number \subseteq Nat /\ MaxEscapes \in Nat /\ MaxEdits \in Nat
    /\ (\A t \in Texts : IsFile(t)) /\ (\A e \in Edits : IsEdit(e))

(* escape_toml_str *)
Escaped(x) ==
    IF (x.cut \/ x.word \in Special) /\ x.esc < MaxEscapes
    THEN [x EXCEPT !.esc = @ + 1] ELSE x

(* What both parsers take a value for. *)
Reading(x) == IF x.word \in Hashy THEN [x EXCEPT !.cut = TRUE] ELSE x

(* The section that line i is in; the empty one before the first header. *)
SectionAt(t, i) ==
    LET headers == {j \in 1 .. i : t[j].kind = "header"} IN
    IF headers = {} THEN "" ELSE t[CHOOSE j \in headers : \A h \in headers : h <= j].section

PairsOf(t, s) == {i \in DOMAIN t : t[i].kind = "pair" /\ SectionAt(t, i) = s}

(* The last line of a section with a key counts. *)
Table(t, s) ==
    [k \in {t[i].key : i \in PairsOf(t, s)} |->
        LET same == {i \in PairsOf(t, s) : t[i].key = k} IN
        Reading(t[CHOOSE i \in same : \A j \in same : j <= i].val)]

-------------------------------------------------------------------------------
(* Config::parse: what the server runs with.  One line of junk is an error; a *)
(* quota that is not a number is none at all, which is 0.                     *)

Parses(t) == \A i \in DOMAIN t : t[i].kind # "junk"

QuotaOf(x) == IF x.word \in Number /\ ~x.cut THEN x.word ELSE 0

Parsed(t) ==
    [top    |-> Table(t, ""),
     users  |-> Table(t, "users"),
     quotas |-> LET q == Table(t, "quotas") IN [k \in DOMAIN q |-> QuotaOf(q[k])]]

-------------------------------------------------------------------------------
(* The editor.                                                                *)

(* parse_sections: the same, but a quota that is not a number is left out.    *)
Quotas(t) ==
    LET good == {i \in PairsOf(t, "quotas") : Reading(t[i].val).word \in Number} IN
    [k \in {t[i].key : i \in good} |->
        LET same == {i \in good : t[i].key = k} IN
        t[CHOOSE i \in same : \A j \in same : j <= i].val.word]
Users(t) == Table(t, "users")

Put(f, k, v) == [x \in DOMAIN f \union {k} |-> IF x = k THEN v ELSE f[x]]
Take(f, k) == [x \in DOMAIN f \ {k} |-> f[x]]

(* rewrite_sections: the lines outside the two tables stay as they are, and   *)
(* the tables are written anew behind them.                                   *)
Kept(t) ==
    LET kept == {i \in DOMAIN t : SectionAt(t, i) \notin {"users", "quotas"}} IN
    [n \in 1 .. Cardinality(kept) |->
        t[CHOOSE i \in kept : Cardinality({j \in kept : j <= i}) = n]]

Block(s, f) ==
    <<Header(s)>> \o [i \in 1 .. Cardinality(DOMAIN f) |->
                        LET k == SetToSeq(DOMAIN f)[i] IN Pair(Escaped(k), f[k])]

Rewritten(t, users, quotas) ==
    LET had(s) == \E i \in DOMAIN t : t[i] = Header(s)
        one(s, f) == IF had(s) \/ DOMAIN f # {} THEN Block(s, f) ELSE << >>
    IN  Kept(t)
            \o one("users", [k \in DOMAIN users |-> Escaped(users[k])])
            \o one("quotas", [k \in DOMAIN quotas |-> Word(quotas[k])])

Tops(t, k) == {i \in PairsOf(t, "") : t[i].key = k}
FirstHeader(t) ==
    LET headers == {i \in DOMAIN t : t[i].kind = "header"} IN
    IF headers = {} THEN Len(t) + 1 ELSE CHOOSE i \in headers : \A j \in headers : i <= j

(* Mutant: a new key goes to the end of the file. *)
SetTopAtEnd(t, k, v) ==
    IF Tops(t, k) # {}
    THEN [i \in DOMAIN t |-> IF i \in Tops(t, k) THEN Pair(k, Escaped(v)) ELSE t[i]]
    ELSE Append(t, Pair(k, Escaped(v)))

(* set_top_level_string, _bool and _string_list: every top-level line with    *)
(* the key is replaced; a new one goes before the first section.              *)
SetTop(t, k, v) ==
    IF Tops(t, k) # {}
    THEN [i \in DOMAIN t |-> IF i \in Tops(t, k) THEN Pair(k, Escaped(v)) ELSE t[i]]
    ELSE InsertAt(t, FirstHeader(t), Pair(k, Escaped(v)))

(* top_level_string: the first such line, and nothing is cut from its value.  *)
TopIs(t, k, v) ==
    Tops(t, k) # {} /\
        LET i == CHOOSE j \in Tops(t, k) : \A h \in Tops(t, k) : j <= h IN
        t[i].val = v /\ ~t[i].note

(* add_user, set_password, remove_user, set_quota, rename_user,               *)
(* complete_setup, set_primary_domain and the other settings, enable_acme;    *)
(* Absent is an error, and nothing is written.                                *)
AddUser(t, e) ==
    IF e.name \in DOMAIN Users(t) THEN Absent
    ELSE Rewritten(t, Put(Users(t), e.name, e.val), Quotas(t))

SetPassword(t, e) ==
    IF e.name \notin DOMAIN Users(t) THEN Absent
    ELSE Rewritten(t, Put(Users(t), e.name, e.val), Quotas(t))

RemoveUser(t, e) ==
    IF e.name \notin DOMAIN Users(t) THEN Absent
    ELSE Rewritten(t, Take(Users(t), e.name), Take(Quotas(t), e.name))

SetQuota(t, e) ==
    Rewritten(t, Users(t), IF e.val.word = 0 THEN Take(Quotas(t), e.name)
                                             ELSE Put(Quotas(t), e.name, e.val.word))

RenameUser(t, e) ==
    IF e.name \notin DOMAIN Users(t) \/ e.val \in DOMAIN Users(t) THEN Absent
    ELSE LET users  == Put(Take(Users(t), e.name), e.val, Users(t)[e.name])
             quotas == IF e.name \in DOMAIN Quotas(t)
                       THEN Put(Take(Quotas(t), e.name), e.val, Quotas(t)[e.name])
                       ELSE Quotas(t)
             out    == Rewritten(t, users, quotas)
         IN  IF TopIs(out, Word("admin_user"), e.name) THEN SetTop(out, Word("admin_user"), e.val)
                                                 ELSE out

CompleteSetup(t, e) ==
    LET out == AddUser(t, e) IN
    IF out = Absent THEN Absent
    ELSE SetTop(SetTop(out, Word("admin_user"), e.name), Word("domains"), e.val)

(* web_tls_listen is only set where there is none, or an empty one, which is  *)
(* looked for in every section.                                               *)
Listens(t) == {i \in DOMAIN t : t[i].kind = "pair" /\ t[i].key = Word("web_tls_listen")}
EnableAcme(t, e) ==
    LET out == SetTop(SetTop(t, Word("acme"), Word("true")), Word("tls_cert_file"), e.val)
    IN  IF Listens(t) = {} \/ \E i \in Listens(t) : t[i].val = Blank
        THEN SetTop(out, Word("web_tls_listen"), e.name) ELSE out

Result(t, e) ==
    CASE e.op = "add"      -> AddUser(t, e)
      [] e.op = "password" -> SetPassword(t, e)
      [] e.op = "remove"   -> RemoveUser(t, e)
      [] e.op = "quota"    -> SetQuota(t, e)
      [] e.op = "rename"   -> RenameUser(t, e)
      [] e.op = "setup"    -> CompleteSetup(t, e)
      [] e.op = "acme"     -> EnableAcme(t, e)
      [] e.op \in {"domains", "public_host"} -> SetTop(t, Word(e.op), e.val)

-------------------------------------------------------------------------------
NoEdit == [op |-> "none", name |-> Blank, val |-> Blank]

Init == text = << >> /\ last = NoEdit /\ made = 0

(* The operator wrote the file ...                                            *)
Write(t) == made = 0 /\ text' = t /\ last' = NoEdit /\ made' = 1

(* ... and the server edits it.                                               *)
Edit(e) ==
    /\ made \in 1 .. MaxEdits
    /\ Result(text, e) # Absent
    /\ text' = Result(text, e)
    /\ last' = e
    /\ made' = made + 1

Refused(e) ==
    /\ made \in 1 .. MaxEdits
    /\ Result(text, e) = Absent
    /\ UNCHANGED vars

Next ==
    \/ \E t \in Texts : Write(t)
    \/ \E e \in Edits : Edit(e) \/ Refused(e)
    \/ made > MaxEdits /\ UNCHANGED vars

Spec == Init /\ [][Next]_vars

-------------------------------------------------------------------------------
(* What an edit means, in terms of what the server runs with.                 *)
Meant(e, c) ==
    CASE e.op \in {"add", "password"} -> [c EXCEPT !.users = Put(@, e.name, e.val)]
      [] e.op = "remove" -> [c EXCEPT !.users = Take(@, e.name), !.quotas = Take(@, e.name)]
      [] e.op = "quota"  -> [c EXCEPT !.quotas = IF e.val.word = 0 THEN Take(@, e.name)
                                                 ELSE Put(@, e.name, e.val.word)]
      [] e.op = "rename" ->
            [users  |-> Put(Take(c.users, e.name), e.val, c.users[e.name]),
             quotas |-> IF e.name \in DOMAIN c.quotas
                        THEN Put(Take(c.quotas, e.name), e.val, c.quotas[e.name])
                        ELSE c.quotas,
             top    |-> IF Word("admin_user") \in DOMAIN c.top /\ c.top[Word("admin_user")] = e.name
                        THEN Put(c.top, Word("admin_user"), e.val) ELSE c.top]
      [] e.op = "setup"  ->
            [c EXCEPT !.users = Put(@, e.name, e.val),
                      !.top = Put(Put(@, Word("admin_user"), e.name), Word("domains"), e.val)]
      [] e.op = "acme"   ->
            [c EXCEPT !.top =
                LET top == Put(Put(@, Word("acme"), Word("true")), Word("tls_cert_file"), e.val) IN
                IF Word("web_tls_listen") \in DOMAIN @ /\ @[Word("web_tls_listen")] # Blank
                THEN top ELSE Put(top, Word("web_tls_listen"), e.name)]
      [] e.op \in {"domains", "public_host"} -> [c EXCEPT !.top = Put(@, Word(e.op), e.val)]

(* Texts that no edit damages: nothing special in the two tables, quotas that *)
(* are numbers, and the admin and the TLS port named once, before the first   *)
(* section, the admin without a comment behind.                               *)
Safe(t) ==
    /\ \A i \in PairsOf(t, "users") \union PairsOf(t, "quotas") :
           {t[i].key.word, t[i].val.word} \subseteq Plain \union Number
    /\ \A i \in PairsOf(t, "quotas") : t[i].val.word \in Number
    /\ Cardinality(Tops(t, Word("admin_user"))) <= 1
    /\ \A i \in Tops(t, Word("admin_user")) : ~t[i].note
    /\ Cardinality(Listens(t)) <= 1 /\ Listens(t) \subseteq PairsOf(t, "")

(* Edits with words that need no care, which are not all that the handlers    *)
(* let through (normalize_user, set_primary_domain).                          *)
Harmless(e) == e.name.word \in Plain /\ (e.op \in {"remove", "quota"} \/ e.val.word \in Plain)

(* An edit does what it says and nothing else, as the server reads the file:  *)
(* whatever repeated keys, repeated or unknown sections, comments and special *)
(* values elsewhere the operator has left in it, and however many edits came  *)
(* before (rewrite_sections, set_top_level_string).                           *)
EditsExact ==
    [][made' # made /\ last' # NoEdit /\ Parses(text) /\ Safe(text) /\ Harmless(last')
        => Parses(text') /\ Parsed(text') = Meant(last', Parsed(text))]_vars
===============================================================================

------------------------------ MODULE DkimTransit -----------------------------
(* A message is signed when it is sent, passes relays that may change it, and *)
(* is verified by the server that receives it: dkim.rs, with the signing of   *)
(* queue.rs at each delivery attempt.                                         *)
(*                                                                            *)
(* The value of a header field and a line of the body are sequences of words  *)
(* and gaps, a gap being all the white space between two words: a blank,      *)
(* several, or a fold of the field over two lines.                            *)
EXTENDS Naturals, Sequences, FiniteSets

CONSTANTS
    Word,              \* what stands between gaps
    Forged,            \* a word that no message holds
    FieldName,         \* of header fields
    Signed,            \* the names of the fields that are signed
    Messages,          \* what is sent
    Keys,              \* what the domain may have published: the key, another, none
    MaxChanges         \* bound

Gap   == {"blank", "wide", "fold"}
Trace == "received"
Unread == "unread"

(* No two gaps in a row.                                                      *)
Line    == {s \in Seq(Word \union Gap) : \A i \in 2..Len(s) : s[i - 1] \in Gap => s[i] \in Word}
Message == [fields : Seq([name : FieldName, value : Line]), body : Seq(Line)]

DkimTransitAssumption ==
    /\ Word \intersect Gap = {} /\ Forged \in Word
    /\ Signed \union {Trace} \subseteq FieldName /\ Messages \subseteq Message
    /\ MaxChanges \in Nat

VARIABLES
    sent,      \* as handed to the sending server: fields and body
    msg,       \* on its way
    sig,       \* its signature field, none or one
    key,       \* published
    place,     \* "queue", "way" or "read"
    changes,
    result     \* of the verification

vars == <<sent, msg, sig, key, place, changes, result>>

Init ==
    /\ sent \in Messages /\ msg = sent
    /\ sig = {} /\ key \in Keys
    /\ place = "queue" /\ changes = 0 /\ result = Unread

-------------------------------------------------------------------------------
Trimmed(s) ==
    IF s # << >> /\ s[Len(s)] = "blank" THEN SubSeq(s, 1, Len(s) - 1) ELSE s
Unled(s) == IF s # << >> /\ s[1] = "blank" THEN Tail(s) ELSE s
(* collapse_wsp, and unfolding.                                               *)
Collapsed(s) == [i \in DOMAIN s |-> IF s[i] \in Gap THEN "blank" ELSE s[i]]

(* canonicalize_header_relaxed: names are compared in lower case anyway.      *)
CanonField(f) == [f EXCEPT !.value = Unled(Trimmed(Collapsed(@)))]

(* Mutant: empty lines are dropped before white space at their end is. *)
CanonBodyEarly(b) ==
    LET full == {i \in DOMAIN b : b[i] # << >>}
        last == IF full = {} THEN 0 ELSE CHOOSE i \in full : \A j \in full : j <= i
    IN  [i \in 1..last |-> Trimmed(Collapsed(b[i]))]
(* canonicalize_body_relaxed: empty lines at the end do not count.            *)
CanonBody(b) ==
    LET lines == [i \in DOMAIN b |-> Trimmed(Collapsed(b[i]))]
        full  == {i \in DOMAIN b : lines[i] # << >>}
    IN  SubSeq(lines, 1, IF full = {} THEN 0 ELSE CHOOSE i \in full : \A j \in full : j <= i)

At(fields, name) == {i \in DOMAIN fields : fields[i].name = name}
LeastOf(S)    == CHOOSE i \in S : \A j \in S : i <= j
GreatestOf(S) == CHOOSE i \in S : \A j \in S : j <= i

Present(fields) == {n \in Signed : At(fields, n) # {}}

(* sign: of a field that is there more than once, the first.  The hashes are  *)
(* what they are of; sealed is with the private key.  The fields are hashed   *)
(* in the order that h= itself gives, each with its name: the text stands for *)
(* them and for nothing else.                                                 *)
Seal(m) ==
    LET h == Present(m.fields)
    IN  [h |-> h, bh |-> CanonBody(m.body),
         sealed |-> [n \in h |-> CanonField(m.fields[LeastOf(At(m.fields, n))])]]

(* dkim_raw_for_send: without a field to sign, without a key, or for a sender *)
(* of another domain, the message goes unsigned.                              *)
Send ==
    /\ place = "queue" /\ place' = "way"
    /\ \/ Present(msg.fields) # {} /\ sig' = {Seal(msg)}
       \/ sig' = {}
    /\ UNCHANGED <<sent, msg, key, changes, result>>

-------------------------------------------------------------------------------
(* Relays.                                                                    *)
Change(m) ==
    /\ place = "way" /\ changes < MaxChanges
    /\ changes' = changes + 1 /\ msg' = m
    /\ UNCHANGED <<sent, sig, key, place, result>>

Field(name, value) == [name |-> name, value |-> value]

AddTrace == Change([msg EXCEPT !.fields = <<Field(Trace, <<Forged>>)>> \o @])
AddField(name) ==
    \/ Change([msg EXCEPT !.fields = <<Field(name, <<Forged>>)>> \o @])
    \/ Change([msg EXCEPT !.fields = @ \o <<Field(name, <<Forged>>)>>])
DropField(i) ==
    Change([msg EXCEPT !.fields = SubSeq(@, 1, i - 1) \o SubSeq(@, i + 1, Len(@))])

(* The sequence with one thing in it respaced, replaced or taken out, or with *)
(* white space at an end.                                                     *)
Respaced(s, gaps) ==
    (UNION {{[s EXCEPT ![i] = g] : g \in gaps} : i \in {i \in DOMAIN s : s[i] \in Gap}})
    \union {s \o <<g>> : g \in {g \in gaps : s # << >> => s[Len(s)] \notin Gap}}
Altered(s) == {[s EXCEPT ![i] = Forged] : i \in {i \in DOMAIN s : s[i] \notin Gap}}
    \union {SubSeq(s, 1, i - 1) \o SubSeq(s, i + 1, Len(s)) :
              i \in {i \in DOMAIN s : 1 < i /\ i < Len(s) /\ s[i] \in Gap}}

ChangeField(i) ==
    \E v \in Respaced(msg.fields[i].value, Gap) \union Altered(msg.fields[i].value) :
        Change([msg EXCEPT !.fields[i].value = v])
ChangeLine(i) ==
    \E l \in Respaced(msg.body[i], {"blank", "wide"}) \union Altered(msg.body[i]) :
        Change([msg EXCEPT !.body[i] = l])
AddLine(l) == Change([msg EXCEPT !.body = Append(@, l)])

-------------------------------------------------------------------------------
(* verify_one: of each signed field the last is taken, one that is missing is *)
(* passed over.                                                               *)
Resealed(m, h) ==
    [n \in {n \in h : At(m.fields, n) # {}} |-> CanonField(m.fields[GreatestOf(At(m.fields, n))])]

Status(s) ==
    CASE s.bh # CanonBody(msg.body) -> "fail"
      [] key = "none" -> "temperror"
      [] key = "revoked" -> "fail"
      [] key = "malformed" -> "permerror"
      [] OTHER -> IF key = "own" /\ s.sealed = Resealed(msg, s.h) THEN "pass" ELSE "fail"

Verify ==
    /\ place = "way" /\ place' = "read"
    /\ result' = IF sig = {} THEN "none" ELSE Status(CHOOSE s \in sig : TRUE)
    /\ UNCHANGED <<sent, msg, sig, key, changes>>

Rest == place = "read" /\ UNCHANGED vars

Next ==
    \/ Send \/ AddTrace \/ (\E n \in Signed : AddField(n))
    \/ (\E i \in DOMAIN msg.fields : DropField(i) \/ ChangeField(i))
    \/ (\E i \in DOMAIN msg.body : ChangeLine(i)) \/ (\E l \in {<< >>, <<"wide">>} : AddLine(l))
    \/ Verify \/ Rest

Spec == Init /\ [][Next]_vars

-------------------------------------------------------------------------------
(* What a line says: its words, in order, and before which of them is a gap.  *)
Says(s, margin) ==
    LET words == {i \in DOMAIN s : s[i] \notin Gap}
        nth(i) == Cardinality({j \in words : j <= i})
    IN  {<<nth(i), s[i], i > 1 /\ s[i - 1] \in Gap /\ (margin \/ nth(i) > 1)>> : i \in words}
SaysBody(b) ==
    {<<i, Says(b[i], TRUE)>> : i \in {i \in DOMAIN b : \E j \in i..Len(b) : Says(b[j], TRUE) # {}}}

Once == \A n \in Signed : Cardinality(At(sent.fields, n)) <= 1

Authentic ==
    /\ SaysBody(msg.body) = SaysBody(sent.body)
    /\ \A n \in Signed :
          LET was == At(sent.fields, n)
              is  == At(msg.fields, n)
          IN  was # {} =>
                /\ is # {}
                /\ Says(msg.fields[GreatestOf(is)].value, FALSE)
                     = Says(sent.fields[LeastOf(was)].value, FALSE)

(* A message whose signed fields were there once is verified exactly if the   *)
(* relays left what it says alone, whatever they did to white space, empty    *)
(* lines at its end and fields at its top (sign, verify_one, the              *)
(* canonicalizations).                                                        *)
VerifiedIffAuthentic ==
    sig # {} /\ Once /\ place = "read" => (result = "pass" <=> Authentic /\ key = "own")
===============================================================================

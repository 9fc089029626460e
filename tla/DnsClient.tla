------------------------------- MODULE DnsClient ------------------------------
(* The resolver of dns.rs: a query goes to one name server after another, is  *)
(* repeated once to a server whose response was truncated, and a response is  *)
(* read record by record.  A name in it may end in a pointer to another       *)
(* place of the response, and nothing but the limit on pointers keeps a       *)
(* reader from going round in a circle.                                       *)
(*                                                                            *)
(* A response is a sequence of cells, each a number: where a name is read, 0  *)
(* ends it, Pointer + n leads to cell n, up to MaxLabel is a label of as many *)
(* cells, and anything else is no label.  The fixed part of a record is one   *)
(* cell, the length of its data.                                              *)
EXTENDS Naturals, Sequences

CONSTANTS
    Servers,    \* how many are configured
    Responses,  \* cells of the responses that may arrive
    Records,    \* answer records a response announces
    Pointer, MaxLabel, MaxHops

DnsClientAssumption ==
    /\ Servers \in Nat \ {0} /\ Records \in Nat \ {0} /\ MaxHops \in Nat
    /\ MaxLabel \in Nat /\ Pointer \in Nat /\ MaxLabel < Pointer
    /\ Responses \subseteq Seq(Nat)

VARIABLES
    server, again,     \* the one asked, and whether for the second time
    cells,             \* the response being read
    cut,               \* it is truncated
    pos, hops, jumped, after,  \* of the name being read
    labels,            \* of that name
    part, start,       \* what the name is of, and where it begins
    steps,             \* taken to read it
    answers, kept,     \* of this response, and of a truncated one before it
    outcome

vars == <<server, again, cells, cut, pos, hops, jumped, after, labels, part, start,
          steps, answers, kept, outcome>>
asking  == <<server, again, kept>>
reading == <<pos, hops, jumped, after, labels, part, start, steps>>

Nothing == << >>
Waiting == [is |-> "waiting", answers |-> Nothing]

Init ==
    /\ server = 1 /\ again = FALSE /\ cells = << >> /\ cut = FALSE
    /\ pos = 0 /\ hops = 0 /\ jumped = FALSE /\ after = 0 /\ labels = 0
    /\ part = "idle" /\ start = 0 /\ steps = 0
    /\ answers = Nothing /\ kept = Nothing /\ outcome = Waiting

(* parse_name begins at cell p.                                               *)
Name(p, of) ==
    /\ pos' = p /\ start' = p /\ part' = of
    /\ hops' = 0 /\ jumped' = FALSE /\ after' = p /\ labels' = 0 /\ steps' = 0
NoName == pos' = 0 /\ start' = 0 /\ part' = "idle" /\ hops' = 0 /\ jumped' = FALSE
          /\ after' = 0 /\ labels' = 0 /\ steps' = 0

Received(c, truncated) ==
    /\ outcome = Waiting /\ part = "idle"
    /\ cells' = c /\ cut' = truncated /\ answers' = Nothing
    /\ Name(1, "question")
    /\ UNCHANGED <<asking, outcome>>

(* query: no response, one that is too short or not to this query, or an      *)
(* error code: on to the next server, or back to what a truncated one held.   *)
Failed ==
    /\ NoName /\ cells' = << >> /\ cut' = FALSE /\ answers' = Nothing
    /\ IF again THEN outcome' = [is |-> "answered", answers |-> kept] /\ UNCHANGED asking
       ELSE IF server < Servers
         THEN server' = server + 1 /\ UNCHANGED <<again, kept, outcome>>
       ELSE outcome' = [is |-> "failed", answers |-> Nothing] /\ UNCHANGED asking

Unanswered == outcome = Waiting /\ part = "idle" /\ Failed

(* The response has been read: a truncated one is asked for once more.        *)
Complete(a) ==
    /\ NoName /\ cells' = << >> /\ cut' = FALSE /\ answers' = Nothing
    /\ IF cut /\ ~again
         THEN again' = TRUE /\ kept' = a /\ UNCHANGED <<server, outcome>>
         ELSE outcome' = [is |-> "answered", answers |-> a] /\ UNCHANGED asking

(* No such name: no answers, and no error.                                    *)
NoSuchName ==
    /\ outcome = Waiting /\ part = "idle" /\ Complete(Nothing)

-------------------------------------------------------------------------------
Reading == part \in {"question", "owner", "target"}
Cell    == cells[pos]
Inside  == pos \in DOMAIN cells

(* The record whose fixed part is cell p is taken, with the name in its data. *)
Take(p, name) ==
    LET a == Append(answers, [from |-> p + 1, to |-> p + 1 + cells[p], name |-> name])
    IN  IF Len(a) = Records THEN Complete(a)
        ELSE /\ Name(p + 1 + cells[p], "owner")
             /\ answers' = a /\ UNCHANGED <<asking, cells, cut, outcome>>

(* Its owner has been read; MX, PTR, CNAME and NS records name somebody.      *)
Record(end) ==
    IF end > Len(cells) \/ end + cells[end] > Len(cells)
    THEN Complete(answers)
    ELSE \/ Take(end, 0)
         \/ Name(end + 1, "target") /\ UNCHANGED <<asking, cells, cut, answers, outcome>>

(* The reader goes on after the name.  One in the data that cannot be read is *)
(* left out, any other fails the response.                                    *)
EndName(end) ==
    CASE part = "question" ->
           Name(end, "owner") /\ UNCHANGED <<asking, cells, cut, answers, outcome>>
      [] part = "owner"  -> Record(end)
      [] part = "target" -> Take(start - 1, labels)

BadName == Reading /\ (IF part = "target" THEN Take(start - 1, 0) ELSE Failed)

Step(p) == pos' = p /\ steps' = steps + 1

OutOfBounds == ~Inside /\ BadName
End == Inside /\ Cell = 0 /\ Reading /\ EndName(IF jumped THEN after ELSE pos + 1)

Label ==
    /\ Reading /\ Inside /\ Cell \in 1..MaxLabel
    /\ pos + Cell <= Len(cells)
    /\ Step(pos + Cell + 1) /\ labels' = labels + 1
    /\ after' = IF jumped THEN after ELSE pos + Cell + 1
    /\ UNCHANGED <<asking, cells, cut, hops, jumped, part, start, answers, outcome>>

(* Mutant: pointers are not counted. *)
HopNot == hops' = hops
Hop == hops' = hops + 1

Jump ==
    /\ Reading /\ Inside /\ Cell >= Pointer /\ hops < MaxHops
    /\ Hop /\ jumped' = TRUE
    /\ after' = IF jumped THEN after ELSE pos + 1
    /\ Step(Cell - Pointer)
    /\ UNCHANGED <<asking, cells, cut, labels, part, start, answers, outcome>>

BadCell ==
    /\ Inside
    /\ \/ Cell >= Pointer /\ hops = MaxHops
       \/ Cell > MaxLabel /\ Cell < Pointer
       \/ Cell \in 1..MaxLabel /\ pos + Cell > Len(cells)
    /\ BadName

Rest == outcome # Waiting /\ UNCHANGED vars

Next ==
    \/ (\E c \in Responses, truncated \in BOOLEAN : Received(c, truncated))
    \/ Unanswered \/ NoSuchName \/ OutOfBounds \/ End \/ Label \/ Jump \/ BadCell \/ Rest

Spec == Init /\ [][Next]_vars

-------------------------------------------------------------------------------
(* Reading a name ends, whatever the response leads to (parse_name), and the  *)
(* data of every answer taken lies within the response (query_once).          *)
NamesEnd ==
    /\ steps <= (MaxHops + 1) * (Len(cells) + 1)
    /\ \A i \in DOMAIN answers : answers[i].to <= Len(cells) + 1
===============================================================================

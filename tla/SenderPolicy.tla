----------------------------- MODULE SenderPolicy -----------------------------
(* What is looked up about a message from outside before it is accepted, and  *)
(* the verdict: spf.rs, dmarc.rs, spamscore.rs and inbound_trust_check of     *)
(* smtp.rs.  SPF is evaluated query by query, each of which may fail; records *)
(* include and redirect to each other, also in circles, and a budget of       *)
(* queries shared by all of them is what ends the evaluation.                 *)
(*                                                                            *)
(* An address is a number of Bits bits, so that a prefix length means what it *)
(* does in the code; one address family stands for both.                      *)
EXTENDS Naturals, Sequences, FiniteSets

CONSTANTS
    Domain,
    Org,          \* Org[d]: the organizational domain of d
    Zones,        \* what may be published: a set of functions on Domain
    Bits, Client, \* width of an address, and the address of the client
    MaxLookups, MaxDepth,
    Policies,     \* DMARC records that may be published
    Signatures,   \* DKIM signatures a message may carry
    Settings      \* configurations

Addr == 0..2^Bits - 1
(* A term of a record, and what a domain publishes.  Of its records only the  *)
(* first in the answer counts (find_spf_record); there may be none.           *)
Terms ==
    [mech : {"all", "ip", "a", "mx", "include", "redirect", "skip", "bad"},
     q : {"pass", "fail", "softfail", "neutral"}, dom : Domain, net : Nat, len : Nat]
Published ==
    [spf : {s \in SUBSET Seq(Terms) : \A r1, r2 \in s : r1 = r2},
     addrs : SUBSET Addr, mx : Seq(Domain)]

SenderPolicyAssumption ==
    /\ MaxLookups \in Nat \ {0} /\ MaxDepth \in Nat /\ MaxLookups <= MaxDepth + 1
    /\ Bits \in Nat /\ Client \in Addr /\ Zones \subseteq [Domain -> Published]
    /\ Org \in [Domain -> Domain] /\ \A d \in Domain : Org[Org[d]] = Org[d]

VARIABLES
    zone, sender,     \* published records, and the domain of MAIL FROM or HELO
    stack, ret,       \* records under evaluation, and what the innermost came to
    lookups,          \* spent of the budget
    asked,            \* SPF queries sent
    exhausted,        \* the budget cut the evaluation short
    failed,           \* a query went unanswered
    phase, spf, dkim, dmarc, \* results
    truth,             \* what they would be had every query been answered
    verdict

vars == <<zone, sender, stack, ret, lookups, asked, exhausted, failed, phase, spf,
          dkim, dmarc, truth, verdict>>
given   == <<zone, sender>>
results == <<phase, spf, dkim, dmarc, truth, verdict>>

Unknown == "unknown"
NoRecord == [p |-> "absent", sp |-> "absent", strict |-> FALSE]

(* evaluate_domain is entered with this; redirect replaces it by another.     *)
Frame(d, n) == [dom |-> d, depth |-> n, read |-> FALSE, todo |-> << >>,
                redirect |-> {}, hosts |-> << >>, mx |-> FALSE]

Nothing == [d \in Domain |-> [spf |-> {}, addrs |-> {}, mx |-> << >>]]
Undecided == [fails |-> FALSE, policy |-> "none", just |-> FALSE]

Init ==
    /\ zone \in Zones /\ sender \in Domain
    /\ stack = <<Frame(sender, 0)>> /\ ret = Unknown
    /\ lookups = 0 /\ asked = 0 /\ exhausted = FALSE /\ failed = FALSE
    /\ phase = "spf" /\ spf = Unknown /\ dkim = {}
    /\ dmarc = Undecided /\ truth = Unknown /\ verdict = Unknown

-------------------------------------------------------------------------------
(* ipv4_in_network; a longer prefix than the address counts as all of it.     *)
InNetwork(a, net, len) ==
    LET kept == IF len > Bits THEN Bits ELSE len
    IN  a \div 2^(Bits - kept) = net \div 2^(Bits - kept)

Hit(d, len) == \E a \in zone[d].addrs : InNetwork(Client, a, len)

Top  == Head(stack)
Term == Head(Top.todo)
Active   == phase = "spf" /\ ret = Unknown /\ stack # << >>
OnTerm(kinds) == Active /\ Top.read /\ Top.todo # << >> /\ ~Top.mx /\ Term.mech \in kinds

SetTop(f) == stack' = <<f>> \o Tail(stack)
NextTerm(f) == [f EXCEPT !.todo = Tail(@), !.mx = FALSE, !.hosts = << >>]
(* The innermost record comes to r.                                           *)
Comes(r) == ret' = r /\ UNCHANGED <<stack, lookups, asked, exhausted, failed>>
Advance  == SetTop(NextTerm(Top)) /\ UNCHANGED <<ret, lookups, asked, exhausted, failed>>

Spent == lookups >= MaxLookups
Exhaust ==
    /\ ret' = "permerror" /\ exhausted' = TRUE
    /\ UNCHANGED <<stack, lookups, asked, failed>>

Count == lookups' = lookups + 1 /\ asked' = asked + 1

(* evaluate_domain: the record of the domain.                                 *)
AskTxt ==
    /\ Active /\ ~Top.read
    /\ IF Spent \/ Top.depth > MaxDepth THEN Exhaust
       ELSE /\ Count /\ UNCHANGED exhausted
            /\ \/ /\ ret' = "temperror" /\ failed' = TRUE /\ UNCHANGED stack
               \/ /\ zone[Top.dom].spf = {}
                  /\ ret' = "none" /\ UNCHANGED <<stack, failed>>
               \/ \E record \in zone[Top.dom].spf :
                     /\ SetTop([Top EXCEPT !.read = TRUE, !.todo = record])
                     /\ UNCHANGED <<ret, failed>>
    /\ UNCHANGED <<given, results>>

(* exp=, exists:, ptr, and what is not known.                                 *)
SkipTerm == OnTerm({"skip"}) /\ Advance /\ UNCHANGED <<given, results>>

(* all, ip4: and ip6:                                                         *)
Static ==
    /\ OnTerm({"all", "ip", "bad"})
    /\ CASE Term.mech = "bad" -> Comes("permerror")
         [] Term.mech = "all" -> Comes(Term.q)
         [] Term.mech = "ip" /\ InNetwork(Client, Term.net, Term.len) -> Comes(Term.q)
         [] OTHER -> Advance
    /\ UNCHANGED <<given, results>>

(* match_a; resolve_a answers an unanswered query with no address.            *)
MatchA ==
    /\ OnTerm({"a"})
    /\ IF Spent THEN Exhaust
       ELSE /\ Count /\ UNCHANGED exhausted
            /\ \/ Hit(Term.dom, Term.len) /\ ret' = Term.q /\ UNCHANGED <<stack, failed>>
               \/ /\ ~Hit(Term.dom, Term.len)
                  /\ SetTop(NextTerm(Top)) /\ UNCHANGED <<ret, failed>>
               \/ SetTop(NextTerm(Top)) /\ failed' = TRUE /\ UNCHANGED ret
    /\ UNCHANGED <<given, results>>

(* match_mx: the exchanges, then the addresses of one after another.          *)
MatchMx ==
    /\ OnTerm({"mx"})
    /\ IF Spent THEN Exhaust
       ELSE /\ Count /\ UNCHANGED exhausted
            /\ \/ /\ SetTop([Top EXCEPT !.mx = TRUE, !.hosts = zone[Term.dom].mx])
                  /\ UNCHANGED <<ret, failed>>
               \/ ret' = "temperror" /\ failed' = TRUE /\ UNCHANGED stack
    /\ UNCHANGED <<given, results>>

MxHost ==
    /\ Active /\ Top.mx /\ Top.hosts # << >>
    /\ IF Spent THEN Exhaust
       ELSE /\ Count /\ UNCHANGED exhausted
            /\ LET on == SetTop([Top EXCEPT !.hosts = Tail(@)]) /\ UNCHANGED ret
                   hit == Hit(Head(Top.hosts), Term.len)
               IN \/ hit /\ ret' = Term.q /\ UNCHANGED <<stack, failed>>
                  \/ ~hit /\ on /\ UNCHANGED failed
                  \/ on /\ failed' = TRUE
    /\ UNCHANGED <<given, results>>

MxNone == Active /\ Top.mx /\ Top.hosts = << >> /\ Advance /\ UNCHANGED <<given, results>>

(* include: starts counting redirects anew.                                   *)
Include ==
    /\ OnTerm({"include"})
    /\ IF Spent THEN Exhaust
       ELSE /\ stack' = <<Frame(Term.dom, 0)>> \o stack
            /\ UNCHANGED <<ret, lookups, asked, exhausted, failed>>
    /\ UNCHANGED <<given, results>>

(* Mutant: an included record that ends in fail fails the including one. *)
IncludedFail(q, r) ==
    CASE r = "pass" -> q
      [] r \in {"temperror", "permerror", "fail"} -> r
      [] OTHER -> Unknown
(* What an included record that came to r makes of the term it was read for:  *)
(* pass is a match, an error an error, anything else no match.                *)
Included(q, r) ==
    CASE r = "pass" -> q
      [] r \in {"temperror", "permerror"} -> r
      [] OTHER -> Unknown

Return ==
    /\ phase = "spf" /\ ret # Unknown /\ Len(stack) > 1
    /\ LET caller == stack[2]
       IN  /\ ret' = Included(Head(caller.todo).q, ret)
           /\ stack' = <<NextTerm(caller)>> \o Tail(Tail(stack))
    /\ UNCHANGED <<given, results, lookups, asked, exhausted, failed>>

(* redirect= is remembered, and used if no term matched.                      *)
Redirect ==
    /\ OnTerm({"redirect"})
    /\ SetTop([NextTerm(Top) EXCEPT !.redirect = {Term.dom}])
    /\ UNCHANGED <<given, results, ret, lookups, asked, exhausted, failed>>

EndOfRecord ==
    /\ Active /\ Top.read /\ Top.todo = << >>
    /\ IF Top.redirect = {} THEN Comes("neutral")
       ELSE IF Spent THEN Exhaust
       ELSE \E d \in Top.redirect :
              /\ SetTop(Frame(d, Top.depth + 1))
              /\ UNCHANGED <<ret, lookups, asked, exhausted, failed>>
    /\ UNCHANGED <<given, results>>

-------------------------------------------------------------------------------
(* What a term decides, a record means, and the record of each domain, when   *)
(* every query is answered and there is no budget: the first term with an     *)
(* effect decides, else the last redirect.  Meant(zn)[n]: n records deep.     *)
Decides(zn, deeper, t) ==
    LET At(d) == \E a \in zn[d].addrs : InNetwork(Client, a, t.len)
    IN  CASE t.mech = "all" -> t.q
          [] t.mech = "bad" -> "permerror"
          [] t.mech = "ip" /\ InNetwork(Client, t.net, t.len) -> t.q
          [] t.mech = "a" /\ At(t.dom) -> t.q
          [] t.mech = "mx" /\ (\E i \in DOMAIN zn[t.dom].mx : At(zn[t.dom].mx[i])) -> t.q
          [] t.mech = "include" ->
               LET r == deeper[t.dom]
               IN  IF r = "pass" THEN t.q ELSE IF r \in {"temperror", "permerror"} THEN r ELSE Unknown
          [] OTHER -> Unknown

RecordMeans(zn, deeper, rec) ==
    LET telling == {i \in DOMAIN rec : Decides(zn, deeper, rec[i]) # Unknown}
        onward  == {i \in DOMAIN rec : rec[i].mech = "redirect"}
    IN  IF telling # {}
          THEN Decides(zn, deeper, rec[CHOOSE i \in telling : \A j \in telling : i <= j])
        ELSE IF onward # {}
          THEN deeper[rec[CHOOSE i \in onward : \A j \in onward : j <= i].dom]
        ELSE "neutral"

OneDeeper(zn, deeper) == [d \in Domain |->
    IF zn[d].spf = {} THEN "none" ELSE RecordMeans(zn, deeper, CHOOSE r \in zn[d].spf : TRUE)]

Meant(zn) ==
    LET At[n \in 0..MaxLookups] ==
          IF n = 0 THEN [d \in Domain |-> "permerror"] ELSE OneDeeper(zn, At[n - 1])
    IN  At

(* evaluate_domain has returned to check_spf; what is published about SPF is  *)
(* of no more use.                                                            *)
SpfDone ==
    /\ phase = "spf" /\ ret # Unknown /\ Len(stack) = 1
    /\ spf' = ret /\ phase' = "dkim"
    /\ truth' = IF exhausted THEN ret ELSE Meant(zone)[MaxLookups][sender]
    /\ stack' = << >> /\ ret' = Unknown /\ zone' = Nothing
    /\ lookups' = 0 /\ asked' = 0 /\ exhausted' = FALSE
    /\ UNCHANGED <<sender, failed, dkim, dmarc, verdict>>

(* verify: the key of a signature is looked up; one that is not there cannot  *)
(* be told from a query that failed.                                          *)
Verify ==
    /\ phase = "dkim" /\ phase' = "dmarc"
    /\ \E sigs \in SUBSET Signatures, unanswered \in SUBSET Domain :
         /\ unanswered \subseteq {s.dom : s \in sigs}
         /\ dkim' = {[dom |-> s.dom, truth |-> s.status,
                      status |-> IF s.dom \in unanswered THEN "temperror" ELSE s.status] : s \in sigs}
         /\ failed' = (failed \/ unanswered # {})
    /\ UNCHANGED <<given, stack, ret, lookups, asked, exhausted, spf, dmarc, truth, verdict>>

-------------------------------------------------------------------------------
(* domains_align.                                                             *)
Aligned(strict, from, d) == from = d \/ (~strict /\ Org[from] = Org[d])

(* Mutant: a subdomain without a record of its own is given the policy of the *)
(* organization itself. *)
PolicyOfOrg(rec, from) == rec.p
(* p= is for the organizational domain, sp= for those below it.               *)
Policy(rec, from) == IF from = Org[from] \/ rec.sp = "absent" THEN rec.p ELSE rec.sp

Passes(rec, from, s, sigs) ==
    \/ s = "pass" /\ Aligned(rec.strict, from, sender)
    \/ \E d \in sigs : Aligned(rec.strict, from, d)

(* evaluate: the record of the From domain, else that of its organization; a  *)
(* query that fails counts as no record.                                      *)
Found(own, org, from, unanswered) ==
    IF own # NoRecord /\ "own" \notin unanswered THEN own
    ELSE IF from # Org[from] /\ "org" \notin unanswered THEN org ELSE NoRecord

Wanted(rec, from) ==
    rec # NoRecord /\ (IF from # Org[from] /\ rec.sp # "absent" THEN rec.sp ELSE rec.p) = "reject"

Evaluated ==
    /\ phase = "dmarc" /\ phase' = "score"
    /\ \E from \in Domain, own, org \in Policies \union {NoRecord},
          unanswered \in SUBSET {"own", "org"} :
         LET rec  == Found(own, org, from, unanswered)
             best == Found(own, org, from, {})
             pass == Passes(rec, from, spf, {d.dom : d \in {x \in dkim : x.status = "pass"}})
         IN  /\ dmarc' = [fails |-> rec # NoRecord /\ ~pass, policy |-> Policy(rec, from),
                          just |-> Wanted(best, from)
                            /\ ~Passes(best, from, truth, {d.dom : d \in {x \in dkim : x.truth = "pass"}})]
             /\ failed' = (failed \/ unanswered # {})
    /\ truth' = Unknown
    /\ dkim' = {[d EXCEPT !.truth = Unknown] : d \in dkim}
    /\ UNCHANGED <<given, stack, ret, lookups, asked, exhausted, spf, verdict>>

-------------------------------------------------------------------------------
DkimIs(status) == \E d \in dkim : d.status = status

(* DNS block lists that list the client; points for its reverse DNS and for   *)
(* missing header fields.                                                     *)
Hits   == 0..1
Points == 0..2

(* SpamScore::compute.                                                        *)
Score(hits, points) ==
    5 * hits + points
    + (CASE spf = "fail" -> 3 [] spf = "softfail" -> 1 [] OTHER -> 0)
    + (IF DkimIs("fail") /\ ~DkimIs("pass") THEN 2 ELSE 0)
    + (IF dmarc.fails THEN 3 ELSE 0)

(* inbound_trust_check and should_file_to_junk: the first that applies.       *)
Outcome(cfg, hits, score) ==
    LET temp  == spf = "temperror" \/ DkimIs("temperror")
        fails(policy) == dmarc.fails /\ dmarc.policy = policy
    IN  CASE cfg.blocklist /\ hits > 0 -> "blocklisted"
          [] cfg.reject > 0 /\ score >= cfg.reject -> "spam"
          [] cfg.dmarc /\ fails("reject") /\ ~temp -> "refused"
          [] cfg.spf /\ spf = "fail" /\ fails("reject") -> "refused"
          [] cfg.junk > 0 /\ score >= cfg.junk -> "junk"
          [] cfg.dmarc /\ fails("quarantine") -> "tagged"
          [] OTHER -> "inbox"

Decide ==
    /\ phase = "score" /\ phase' = "done"
    /\ \E cfg \in Settings, hits \in Hits, points \in Points :
         verdict' = Outcome(cfg, hits, Score(hits, points))
    /\ dkim' = {} /\ spf' = Unknown
    /\ UNCHANGED <<given, stack, ret, lookups, asked, exhausted, failed, truth, dmarc>>

Rest == phase = "done" /\ UNCHANGED vars

Evaluate ==
    \/ AskTxt \/ SkipTerm \/ Static \/ MatchA \/ MatchMx \/ MxHost \/ MxNone \/ Include
    \/ Return \/ Redirect \/ EndOfRecord
Next == Evaluate \/ SpfDone \/ Verify \/ Evaluated \/ Decide \/ Rest

Spec == Init /\ [][Next]_vars

-------------------------------------------------------------------------------
(* However records refer to each other, the evaluation ends within its budget *)
(* of queries and never finds it spent too early; and unless it is spent or a *)
(* query fails, SPF comes to what the records mean (evaluate_domain,          *)
(* evaluate_record, match_mechanism).                                         *)
WithinBudget == asked <= MaxLookups /\ (exhausted => asked = MaxLookups)
Faithful     == phase = "dkim" /\ ~failed => spf = truth
SpfMeant     == WithinBudget /\ Faithful

(* A message is refused for its sender's policy only if the domain of From,   *)
(* or for a subdomain its organization, asks for it, and neither SPF nor a    *)
(* signature vouches for that domain, all queries answered (evaluate,         *)
(* inbound_trust_check).                                                      *)
Justified == verdict = "refused" => dmarc.just
RefusalJustified == ~failed => Justified

(* smtp.rs:628 "Never rejects on TempError (DNS failure)": a message that     *)
(* would be accepted had every query been answered is not refused.            *)
NoRefusalOnDnsFailure == failed => Justified
===============================================================================

------------------------------- MODULE MCNetwork -------------------------------
(* A small instance of Network: two users with mailboxes and a remote         *)
(* address; three domains; a resolver and responses of five cells; a renewal  *)
(* loop with a thread beside it; a router and two ports.                      *)
EXTENDS Network, TLC

CONSTANTS ann, bob, eve, sub, org, other

MCAddress == {ann, bob, eve}
MCLocal   == {ann, bob}

-------------------------------------------------------------------------------
(* A domain, the organization it belongs to, and another organization.        *)
MCDomain == {sub, org, other}
MCOrg    == [d \in MCDomain |-> IF d = sub THEN org ELSE d]

Term(mech, q, dom, net, len) == [mech |-> mech, q |-> q, dom |-> dom, net |-> net, len |-> len]
All(q) == Term("all", q, sub, 0, 0)
To(mech, q, dom) == Term(mech, q, dom, 0, 0)

(* Each domain has no record or one of these: networks that hold the client   *)
(* and some that do not, and circles of includes and redirects.               *)
MCRecords == {{}} \union {{r} : r \in {
    <<All("fail")>>,
    <<Term("ip", "pass", sub, 4, 3), All("fail")>>,
    <<Term("a", "pass", sub, 0, 9), All("softfail")>>,
    <<Term("a", "pass", org, 0, 4), To("redirect", "pass", other)>>,
    <<Term("mx", "pass", other, 0, 3), All("fail")>>,
    <<To("include", "fail", org), All("neutral")>>,
    <<To("redirect", "pass", sub)>>,
    <<To("include", "pass", other), To("include", "softfail", sub), All("fail")>>,
    <<To("bad", "pass", sub)>>,
    <<To("skip", "pass", sub), To("redirect", "pass", org), To("include", "pass", other)>>}}
MCAddrs == [d \in MCDomain |-> IF d = sub THEN {1, 5} ELSE IF d = org THEN {6} ELSE {}]
MCMx    == [d \in MCDomain |-> IF d = other THEN <<org, sub>> ELSE << >>]
MCZones == {[d \in MCDomain |-> [spf |-> f[d], addrs |-> MCAddrs[d], mx |-> MCMx[d]]] :
               f \in [MCDomain -> MCRecords]}

Record(p, sp, strict) == [p |-> p, sp |-> sp, strict |-> strict]
MCPolicies == {Record("none", "reject", FALSE), Record("reject", "absent", FALSE),
               Record("reject", "none", TRUE), Record("quarantine", "absent", TRUE)}
MCSignatures == {[dom |-> sub, status |-> "pass"], [dom |-> org, status |-> "temperror"],
                 [dom |-> other, status |-> "fail"]}
MCSettings ==
    {[dmarc |-> TRUE,  spf |-> TRUE,  blocklist |-> FALSE, reject |-> 0, junk |-> 4],
     [dmarc |-> TRUE,  spf |-> FALSE, blocklist |-> TRUE,  reject |-> 9, junk |-> 4],
     [dmarc |-> FALSE, spf |-> TRUE,  blocklist |-> FALSE, reject |-> 8, junk |-> 0]}

-------------------------------------------------------------------------------
Field(n, v) == [name |-> n, value |-> v]

(* With every kind of gap, without a body, without anything to sign, and with *)
(* a field that is there twice.                                               *)
MCMessages == {
    [fields |-> <<Field("from", <<"a">>), Field("subject", <<"a", "blank", "b">>)>>,
     body |-> <<<<"a", "wide", "b">>, << >>, <<"blank", "b">>>>],
    [fields |-> <<Field("subject", <<"b", "fold", "a">>), Field("to", <<"a">>)>>, body |-> << >>],
    [fields |-> <<Field("to", <<"a">>)>>, body |-> <<<<"a">>>>],
    [fields |-> <<Field("subject", <<"a">>), Field("from", <<"a">>), Field("subject", <<"b">>)>>,
     body |-> <<<<"a">>, << >>>>]}
MCSigned == {"from", "subject"}

(* Five cells: ends, labels that fit and do not, pointers forth and back.     *)
MCResponses ==
    {<<a, b>> \o rest : a \in {0, 1}, b \in {0, 101}, rest \in [1..3 -> {0, 1, 5, 103}]}

-------------------------------------------------------------------------------
(* Of what rests, one initial state is enough.                                *)
Resting ==
    /\ part = "session" \/ port = CHOOSE p \in Port : TRUE
    /\ part = "session" \/ live = {}
    /\ part = "policy" \/ pZone = CHOOSE z \in MCZones : TRUE
    /\ part = "policy" \/ pSender = sub
    /\ part = "transit" \/ kSent = CHOOSE m \in MCMessages : TRUE
    /\ part = "transit" \/ kKey = "own"
    /\ part = "certificate" \/ (cDated = FALSE /\ cAcme = FALSE)
    /\ part = "router" \/ (mOverride = FALSE /\ mAuto = FALSE)

MCInit == part \in Part /\ Resting /\ NetworkInit
(* A router that tells its address tells a public one.                        *)
MCNext == NetworkNext /\ mWan' \in {Router!None, "public"}
MCSpec == MCInit /\ [][MCNext]_<<part, vars, pVars, kVars, dVars, cVars, mVars>>
===============================================================================

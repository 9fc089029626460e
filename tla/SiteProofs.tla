-------------------------------- MODULE SiteProofs ------------------------------
(* Proofs about what requests from the browser do, for any number of browsers *)
(* and threads, any accounts, sessions and invitations: that redirects end,   *)
(* that what is done was asked for, that edits of the configuration survive   *)
(* and reach the live tables, that an invitation is used once, that the setup *)
(* does not come back, and that a restore brings over what a backup promises. *)
EXTENDS Site, FiniteSetTheorems, TLAPS

allVars == <<part, vars, aVars, wVars, bVars>>

-------------------------------------------------------------------------------
(* The way of a request to its handler (WebGate).                             *)

GateRequest ==
    [method : {"GET", "POST"}, page : Gate!Page, tls : BOOLEAN, peer : {"loopback", "remote"},
     proxied : BOOLEAN, site : {"none", "own", "cross", "untold"},
     csrf : Nat \X Nat, foreign : BOOLEAN]

Places == {"idle", "sent", "routed", "setup", "page", "handler", "show", "post"}

GateType ==
    /\ accounts \subseteq User /\ seed \in Nat /\ trusted \in BOOLEAN /\ minted \in Nat
    /\ jar \in [Browser -> Nat] /\ form \in [Browser -> Nat \X Nat]
    /\ wReq \in [Browser -> GateRequest] /\ wPc \in [Browser -> Places]
    /\ DOMAIN actor = Browser /\ hops \in [Browser -> Nat]

(* The admin's account, once there, stays.                                    *)
AdminStays == accounts # {} => Admin \in accounts

(* A request that a foreign page caused has no token; whoever is past the     *)
(* head of a handler is a user, and on an admin page the admin.               *)
RoleKept(b) ==
    /\ wReq[b].foreign => wReq[b].csrf = <<0, 0>>
    /\ wPc[b] \in {"handler", "post"} => actor[b] \in User
    /\ wPc[b] = "post" /\ wReq[b].page = "admin" => actor[b] = Admin

(* A request that is on its way for the second and last time asks for a page  *)
(* that can redirect no more than once, or not at all; one through a proxy    *)
(* that is not trusted never gets anywhere.                                   *)
Onward(r) == r.method = "GET" /\ (accounts # {} \/ r.page = "setup")
AtLogin(r) == r.method = "GET" /\ accounts # {} /\ r.page = "login"

HopsLeft(b) ==
    /\ wPc[b] = "idle" => hops[b] = 0
    /\ wPc[b] \in {"sent", "routed"} /\ ~Gate!Circles(wReq[b]) =>
          /\ Gate!ToHttps(wReq[b]) => hops[b] = 0
          /\ \/ hops[b] <= 1
             \/ hops[b] <= 2 /\ Onward(wReq[b])
             \/ hops[b] <= 3 /\ AtLogin(wReq[b])
    /\ wPc[b] = "setup" => hops[b] <= 1 \/ (hops[b] <= 2 /\ wReq[b].method = "GET")
    /\ wPc[b] = "page" =>
          /\ accounts # {}
          /\ \/ hops[b] <= 1
             \/ hops[b] <= 2 /\ Onward(wReq[b])
             \/ hops[b] <= 3 /\ AtLogin(wReq[b])
    /\ wPc[b] \notin {"idle", "sent", "routed"} =>
          ~Gate!ToHttps(wReq[b]) /\ wReq[b].page # "probe"
    /\ hops[b] <= 3 \/ Gate!Circles(wReq[b])

GateInv ==
    /\ GateType /\ AdminStays
    /\ \A b \in Browser : RoleKept(b) /\ HopsLeft(b)
    /\ ActsAreMeant

(* What the assumptions on the gate come to.                                  *)
LEMMA GateConstants ==
    Admin \in User /\ TlsActive \in BOOLEAN
BY GateAssumption DEF Gate!WebGateAssumption

(* At the start nobody has asked for anything.                                *)
LEMMA GateInit == Gate!Init => GateInv
BY GateConstants
   DEF Gate!Init, Gate!NoReq, Gate!NoToken, Gate!Page, GateInv, GateType, GateRequest, Places,
       AdminStays, RoleKept, HopsLeft, ActsAreMeant, Gate!ActsAreMeant


(* Of a request that a browser sends.                                         *)
LEMMA GateSent ==
    ASSUME NEW r \in Gate!Requests, NEW c \in Nat \X Nat,
           NEW s \in {"own", "cross", "untold"}, NEW f \in BOOLEAN
    PROVE  [r EXCEPT !.csrf = c, !.site = s, !.foreign = f] \in GateRequest
BY GateConstants DEF Gate!Requests, GateRequest, Gate!NoToken

(* A request that follows a redirect.                                         *)
Followed(r, p, s) == [r EXCEPT !.method = "GET", !.page = p, !.tls = s]

(* What a redirect makes of a request.                                        *)
LEMMA GateFollowed ==
    ASSUME NEW r \in GateRequest, NEW p \in Gate!Page, NEW s \in BOOLEAN
    PROVE  /\ Followed(r, p, s) \in GateRequest
           /\ Followed(r, p, s).csrf = r.csrf /\ Followed(r, p, s).foreign = r.foreign
           /\ Followed(r, p, s).method = "GET" /\ Followed(r, p, s).page = p
           /\ Followed(r, p, s).tls = s
           /\ Followed(r, p, s).peer = r.peer /\ Followed(r, p, s).proxied = r.proxied
BY DEF GateRequest, Followed

(* A redirect that leads to HTTPS leads there, and none leads away from it,   *)
(* but for the circle, which a request never leaves.                          *)
LEMMA GateSecure ==
    ASSUME NEW r \in GateRequest, NEW q \in GateRequest,
           q.peer = r.peer, q.proxied = r.proxied, r.page # "probe",
           q.tls = TRUE \/ (q.tls = r.tls /\ ~Gate!ToHttps(r))
    PROVE  /\ ~Gate!ToHttps(q) \/ Gate!Circles(q)
           /\ Gate!Circles(r) /\ q.page = r.page => Gate!Circles(q)
BY GateConstants DEF GateRequest, Gate!ToHttps, Gate!Secure, Gate!IsHttps, Gate!Circles

LEMMA GateCircles ==
    ASSUME NEW r \in GateRequest, Gate!Circles(r) PROVE Gate!ToHttps(r)
BY DEF GateRequest, Gate!ToHttps, Gate!Secure, Gate!IsHttps, Gate!Circles

(* Whether a request is led to HTTPS depends on it and on the configuration.  *)
LEMMA GateAlike ==
    ASSUME NEW b \in Browser, wReq'[b] = wReq[b], trusted' = trusted
    PROVE  /\ Gate!ToHttps(wReq[b])' = Gate!ToHttps(wReq[b])
           /\ Gate!Circles(wReq[b])' = Gate!Circles(wReq[b])
BY DEF Gate!ToHttps, Gate!Secure, Gate!IsHttps, Gate!Circles

(* What a step leaves of the variables of the browser it serves, and of those *)
(* of the others.                                                             *)
Moved(b, from, to) ==
    /\ wPc[b] = from /\ wPc'[b] = to
    /\ wPc' \in [Browser -> Places] /\ wReq' \in [Browser -> GateRequest]
    /\ DOMAIN actor' = Browser /\ hops' \in [Browser -> Nat]
    /\ \A c \in Browser \ {b} : /\ wPc'[c] = wPc[c] /\ wReq'[c] = wReq[c]
                                /\ actor'[c] = actor[c] /\ hops'[c] = hops[c]

(* With an answer the browser is at rest.                                     *)
LEMMA GateAnswered ==
    ASSUME GateType, NEW b \in Browser, NEW from, Gate!Answered(b, from)
    PROVE  Moved(b, from, "idle") /\ wReq'[b] = Gate!NoReq /\ hops'[b] = 0
<1>1. Gate!NoReq \in GateRequest
  BY DEF Gate!NoReq, GateRequest, Gate!Page, Gate!NoToken
<1>2. QED
  BY <1>1 DEF GateType, Gate!Answered, Gate!Step, Places, Moved

(* With a redirect it sends another request.                                  *)
LEMMA GateRedirected ==
    ASSUME GateType, NEW b \in Browser, NEW from, NEW p \in Gate!Page, NEW s \in BOOLEAN,
           Gate!Redirected(b, from, p, s), actor' = actor
    PROVE  /\ Moved(b, from, "sent") /\ (hops[b] <= 3 => hops'[b] = hops[b] + 1)
           /\ wReq'[b] = Followed(wReq[b], p, s)
<1>1. Followed(wReq[b], p, s) \in GateRequest
  BY GateFollowed DEF GateType
<1>2. /\ wReq' = [wReq EXCEPT ![b] = Followed(wReq[b], p, s)]
      /\ hops' = [hops EXCEPT ![b] = IF @ < 4 THEN @ + 1 ELSE 4]
      /\ wPc[b] = from /\ wPc' = [wPc EXCEPT ![b] = "sent"]
  BY DEF GateType, Gate!Redirected, Gate!Step, Gate!Many, Followed
<1>3. QED
  BY <1>1, <1>2 DEF GateType, Places, Moved

(* With any other step of the server it goes on.                              *)
LEMMA GateStepped ==
    ASSUME GateType, NEW b \in Browser, NEW from, NEW to \in Places, Gate!Step(b, from, to),
           UNCHANGED <<wReq, hops>>, DOMAIN actor' = Browser,
           \A c \in Browser \ {b} : actor'[c] = actor[c]
    PROVE  Moved(b, from, to) /\ wReq'[b] = wReq[b] /\ hops'[b] = hops[b]
BY DEF GateType, Gate!Step, Moved


(* What a step does to the accounts and tokens.                               *)
StoreKept ==
    /\ accounts' \subseteq User /\ seed' \in Nat /\ trusted' = trusted /\ minted' \in Nat
    /\ jar' \in [Browser -> Nat] /\ form' \in [Browser -> Nat \X Nat]
    /\ AdminStays' /\ (accounts # {} => accounts' # {})

(* The other browsers are where they were.                                    *)
LEMMA GateServed ==
    ASSUME GateInv, StoreKept, NEW b \in Browser, NEW from, NEW to, Moved(b, from, to),
           RoleKept(b)', HopsLeft(b)', ActsAreMeant'
    PROVE  GateInv'
<1>1. GateType'
  BY DEF GateInv, GateType, StoreKept, Moved
<1>2. ASSUME NEW c \in Browser, c # b PROVE RoleKept(c)' /\ HopsLeft(c)'
  <2>1. /\ wPc'[c] = wPc[c] /\ wReq'[c] = wReq[c] /\ actor'[c] = actor[c] /\ hops'[c] = hops[c]
    BY <1>2 DEF Moved
  <2>2. RoleKept(c)'
    BY <2>1 DEF GateInv, RoleKept
  <2>3. HopsLeft(c) /\ (accounts # {} => accounts' # {})
    BY DEF GateInv, StoreKept
  <2>4. /\ Gate!ToHttps(wReq[c])' = Gate!ToHttps(wReq[c])
        /\ Gate!Circles(wReq[c])' = Gate!Circles(wReq[c])
    BY <2>1, GateAlike DEF StoreKept
  <2>5. HopsLeft(c)'
    BY <2>1, <2>3, <2>4 DEF HopsLeft, Onward, AtLogin
  <2>6. QED
    BY <2>2, <2>5
<1>3. QED
  BY <1>1, <1>2 DEF GateInv, StoreKept

(* An answer.                                                                 *)
LEMMA GateAfterAnswer ==
    ASSUME GateInv, StoreKept, NEW b \in Browser, NEW from, Gate!Answered(b, from),
           ActsAreMeant'
    PROVE  GateInv'
<1>1. Moved(b, from, "idle") /\ wReq'[b] = Gate!NoReq /\ hops'[b] = 0
  BY GateAnswered DEF GateInv
<1>2. RoleKept(b)' /\ HopsLeft(b)'
  BY <1>1 DEF Moved, RoleKept, HopsLeft, Gate!NoReq
<1>3. QED
  BY <1>1, <1>2, GateServed

(* A redirect, which must leave enough for what may follow.                   *)
LEMMA GateAfterRedirect ==
    ASSUME GateInv, StoreKept, NEW b \in Browser, NEW from \in {"routed", "setup", "page"},
           NEW p \in Gate!Page, NEW s \in BOOLEAN, Gate!Redirected(b, from, p, s),
           actor' = actor, acts' = acts,
           wReq[b].page # "probe", s \/ (s = wReq[b].tls /\ ~Gate!ToHttps(wReq[b])),
           \/ Gate!Circles(wReq[b]) /\ p = wReq[b].page
           \/ hops[b] = 0
           \/ hops[b] <= 1 /\ (accounts' # {} \/ p = "setup")
           \/ hops[b] <= 2 /\ accounts' # {} /\ p = "login"
    PROVE  GateInv'
<1>1. /\ Moved(b, from, "sent") /\ (hops[b] <= 3 => hops'[b] = hops[b] + 1)
      /\ wReq'[b] = Followed(wReq[b], p, s)
  BY GateRedirected DEF GateInv
<1>2. wReq[b] \in GateRequest /\ hops[b] \in Nat
  BY DEF GateInv, GateType
<1>3. /\ wReq'[b] \in GateRequest /\ wReq'[b].method = "GET" /\ wReq'[b].page = p
      /\ wReq'[b].csrf = wReq[b].csrf /\ wReq'[b].foreign = wReq[b].foreign
      /\ wReq'[b].tls = s /\ wReq'[b].peer = wReq[b].peer
      /\ wReq'[b].proxied = wReq[b].proxied
  BY <1>1, <1>2, GateFollowed
<1>4. RoleKept(b)'
  BY <1>1, <1>3 DEF Moved, GateInv, RoleKept
<1>5. /\ ~Gate!ToHttps(wReq'[b]) \/ Gate!Circles(wReq'[b])
      /\ Gate!Circles(wReq[b]) /\ p = wReq[b].page => Gate!Circles(wReq'[b])
  BY <1>2, <1>3, GateSecure
<1>6. /\ Gate!ToHttps(wReq[b])' = Gate!ToHttps(wReq'[b])
      /\ Gate!Circles(wReq[b])' = Gate!Circles(wReq'[b])
  BY DEF StoreKept, Gate!ToHttps, Gate!Secure, Gate!IsHttps, Gate!Circles
<1>7. HopsLeft(b)'
  BY <1>1, <1>2, <1>3, <1>5, <1>6 DEF Moved, HopsLeft, Onward, AtLogin
<1>8. ActsAreMeant'
  BY DEF GateInv, ActsAreMeant, Gate!ActsAreMeant
<1>9. QED
  BY <1>1, <1>4, <1>7, <1>8, GateServed

(* A step on the way.                                                         *)
LEMMA GateAfterStep ==
    ASSUME GateInv, StoreKept, NEW b \in Browser, NEW from, NEW to \in Places,
           Gate!Step(b, from, to), UNCHANGED <<wReq, hops, acts>>, DOMAIN actor' = Browser,
           \A c \in Browser \ {b} : actor'[c] = actor[c],
           RoleKept(b)', HopsLeft(b)'
    PROVE  GateInv'
<1>1. Moved(b, from, to)
  BY GateStepped DEF GateInv
<1>2. ActsAreMeant'
  BY DEF GateInv, ActsAreMeant, Gate!ActsAreMeant
<1>3. QED
  BY <1>1, <1>2, GateServed


(* Most steps leave the accounts and the tokens alone.                        *)
LEMMA GateStoreSame ==
    ASSUME GateInv, UNCHANGED <<accounts, seed, trusted, minted, jar, form>> PROVE StoreKept
BY DEF GateInv, GateType, AdminStays, StoreKept

(* The steps of route before the pages, with the session looked up first.     *)
LEMMA GateRouting ==
    ASSUME GateInv, NEW b \in Browser,
           \/ Gate!GiveUp(b) \/ Gate!Lookup(b) \/ Gate!Probe(b) \/ Gate!RedirectTls(b)
           \/ Gate!ToSetup(b) \/ Gate!Inner(b)
    PROVE  GateInv'
<1>1. StoreKept
  BY GateStoreSame
     DEF Gate!GiveUp, Gate!Lookup, Gate!Probe, Gate!RedirectTls, Gate!ToSetup, Gate!Inner,
         Gate!store, Gate!held
<1>2. /\ RoleKept(b) /\ HopsLeft(b) /\ wReq[b] \in GateRequest /\ hops[b] \in Nat
      /\ wPc[b] \in Places /\ DOMAIN actor = Browser /\ wPc \in [Browser -> Places]
  BY DEF GateInv, GateType
<1>3. CASE Gate!Lookup(b)
  <2>1. /\ Gate!Step(b, "sent", "routed") /\ UNCHANGED <<wReq, hops, acts, accounts, trusted>>
        /\ DOMAIN actor' = Browser /\ \A c \in Browser \ {b} : actor'[c] = actor[c]
    BY <1>2, <1>3 DEF Gate!Lookup, Gate!store, Gate!held
  <2>2. wPc[b] = "sent" /\ wPc'[b] = "routed"
    BY <1>2, <2>1 DEF Gate!Step
  <2>3. RoleKept(b)'
    BY <1>2, <2>1, <2>2 DEF RoleKept
  <2>4. /\ Gate!ToHttps(wReq[b])' = Gate!ToHttps(wReq[b])
        /\ Gate!Circles(wReq[b])' = Gate!Circles(wReq[b])
    BY <2>1, GateAlike
  <2>5. HopsLeft(b)'
    BY <1>2, <2>1, <2>2, <2>4 DEF HopsLeft, Onward, AtLogin
  <2>6. QED
    BY <1>1, <2>1, <2>3, <2>5, GateAfterStep DEF Places
<1>4. CASE Gate!Probe(b) \/ Gate!GiveUp(b)
  BY <1>1, <1>4, GateAfterAnswer
     DEF Gate!Probe, Gate!GiveUp, GateInv, ActsAreMeant, Gate!ActsAreMeant
<1>5. CASE Gate!RedirectTls(b)
  <2>1. /\ Gate!ToHttps(wReq[b]) /\ Gate!Redirected(b, "routed", wReq[b].page, TRUE)
        /\ UNCHANGED <<actor, acts>> /\ wPc[b] = "routed"
    BY <1>5 DEF Gate!RedirectTls, Gate!Redirected, Gate!Step
  <2>2. /\ hops[b] = 0 \/ Gate!Circles(wReq[b])
        /\ wReq[b].page # "probe" /\ wReq[b].page \in Gate!Page
    BY <1>2, <2>1 DEF HopsLeft, Gate!ToHttps, GateRequest
  <2>3. QED
    BY <1>1, <2>1, <2>2, GateAfterRedirect
<1>6. CASE Gate!ToSetup(b)
  <2>1. /\ ~Gate!ToHttps(wReq[b]) /\ accounts = {} /\ wReq[b].page \notin {"setup", "probe"}
        /\ Gate!Redirected(b, "routed", "setup", wReq[b].tls)
        /\ UNCHANGED <<actor, acts>> /\ wPc[b] = "routed"
    BY <1>6 DEF Gate!ToSetup, Gate!Pending, Gate!Redirected, Gate!Step
  <2>2. hops[b] <= 1
    BY <1>2, <2>1, GateCircles DEF HopsLeft, Onward, AtLogin
  <2>3. "setup" \in Gate!Page /\ wReq[b].tls \in BOOLEAN
    BY <1>2 DEF Gate!Page, GateRequest
  <2>4. QED
    BY <1>1, <1>2, <2>1, <2>2, <2>3, GateAfterRedirect
<1>7. CASE Gate!Inner(b)
  <2> DEFINE to == IF accounts = {} THEN "setup" ELSE "page"
  <2>1. /\ ~Gate!ToHttps(wReq[b]) /\ wReq[b].page # "probe"
        /\ (accounts = {} => wReq[b].page = "setup")
        /\ Gate!Step(b, "routed", to)
        /\ UNCHANGED <<wReq, hops, acts, accounts, trusted, actor>>
    BY <1>7 DEF Gate!Inner, Gate!Pending, Gate!store, Gate!held
  <2>2. wPc[b] = "routed" /\ wPc'[b] = to
    BY <1>2, <2>1 DEF Gate!Step
  <2>3. RoleKept(b)'
    BY <1>2, <2>1, <2>2 DEF RoleKept
  <2>4. /\ Gate!ToHttps(wReq[b])' = Gate!ToHttps(wReq[b])
        /\ Gate!Circles(wReq[b])' = Gate!Circles(wReq[b])
    BY <2>1, GateAlike
  <2>5. HopsLeft(b)'
    BY <1>2, <2>1, <2>2, <2>4, GateCircles DEF HopsLeft, Onward, AtLogin
  <2>6. to \in Places
    BY DEF Places
  <2> HIDE DEF to
  <2>7. QED
    BY <1>1, <1>2, <2>1, <2>3, <2>5, <2>6, GateAfterStep
<1>8. QED
  BY <1>3, <1>4, <1>5, <1>6, <1>7


(* Setting up, signing in and out.                                            *)
LEMMA GateSigning ==
    ASSUME GateInv, NEW b \in Browser,
           \/ Gate!SetupPage(b) \/ Gate!Setup(b) \/ Gate!SetupLate(b) \/ Gate!SetupOver(b)
           \/ Gate!LoginPage(b) \/ (\E u \in User : Gate!Login(b, u)) \/ Gate!Logout(b)
           \/ Gate!ToLogin(b) \/ Gate!Revoke(b)
    PROVE  GateInv'
<1>1. /\ RoleKept(b) /\ HopsLeft(b) /\ wReq[b] \in GateRequest /\ hops[b] \in Nat
      /\ wPc[b] \in Places /\ DOMAIN actor = Browser /\ wReq[b].tls \in BOOLEAN
      /\ {"setup", "login", "user"} \subseteq Gate!Page
  BY DEF GateInv, GateType, GateRequest, Gate!Page
<1>2. ASSUME wPc[b] = "page"
      PROVE  /\ wReq[b].page # "probe" /\ ~Gate!ToHttps(wReq[b]) /\ accounts # {}
             /\ hops[b] <= 3 /\ (wReq[b].method = "POST" => hops[b] <= 1)
             /\ (wReq[b].page # "login" => hops[b] <= 2)
  BY <1>1, <1>2, GateCircles DEF HopsLeft, Onward, AtLogin
<1>3. CASE Gate!SetupPage(b) \/ Gate!SetupLate(b) \/ Gate!LoginPage(b)
  <2>1. PICK from \in {"setup", "page"} : Gate!Answered(b, from)
    BY <1>3 DEF Gate!SetupPage, Gate!SetupLate, Gate!LoginPage
  <2>2. UNCHANGED <<accounts, seed, trusted, minted, jar, form, acts>>
    BY <1>3 DEF Gate!SetupPage, Gate!SetupLate, Gate!LoginPage, Gate!store, Gate!held
  <2>3. ActsAreMeant'
    BY <2>2 DEF GateInv, ActsAreMeant, Gate!ActsAreMeant
  <2>4. QED
    BY <2>1, <2>2, <2>3, GateStoreSame, GateAfterAnswer
<1>4. CASE Gate!Setup(b)
  <2>1. /\ wPc[b] = "setup" /\ wReq[b].method = "POST" /\ accounts' = User
        /\ UNCHANGED <<seed, trusted, form, actor, acts>>
        /\ minted' = minted + 1 /\ jar' = [jar EXCEPT ![b] = minted + 1]
        /\ Gate!Redirected(b, "setup", "user", wReq[b].tls)
    BY <1>4 DEF Gate!Setup, Gate!SignedIn
  <2>2. StoreKept
    BY <2>1, GateConstants DEF GateInv, GateType, AdminStays, StoreKept
  <2>3. hops[b] <= 1 /\ wReq[b].page # "probe" /\ ~Gate!ToHttps(wReq[b]) /\ accounts' # {}
    BY <1>1, <2>1, GateConstants, GateCircles DEF HopsLeft
  <2>4. QED
    BY <1>1, <2>1, <2>2, <2>3, GateAfterRedirect
<1>5. CASE Gate!SetupOver(b)
  <2>1. /\ Gate!Redirected(b, "page", "login", wReq[b].tls) /\ wReq[b].page = "setup"
        /\ UNCHANGED <<accounts, seed, trusted, minted, jar, form, actor, acts>> /\ wPc[b] = "page"
    BY <1>5 DEF Gate!SetupOver, Gate!store, Gate!held, Gate!Redirected, Gate!Step
  <2>2. QED
    BY <1>1, <1>2, <2>1, GateStoreSame, GateAfterRedirect
<1>6. ASSUME NEW u \in User, Gate!Login(b, u) PROVE GateInv'
  <2>1. /\ wPc[b] = "page" /\ wReq[b].method = "POST"
        /\ UNCHANGED <<accounts, seed, trusted, form, actor, acts>>
        /\ minted' = minted + 1 /\ jar' = [jar EXCEPT ![b] = minted + 1]
        /\ Gate!Redirected(b, "page", "user", wReq[b].tls)
    BY <1>6 DEF Gate!Login, Gate!SignedIn
  <2>2. StoreKept
    BY <2>1 DEF GateInv, GateType, AdminStays, StoreKept
  <2>3. QED
    BY <1>1, <1>2, <2>1, <2>2, GateAfterRedirect
<1>7. CASE Gate!Logout(b)
  <2>1. /\ Gate!Redirected(b, "page", "login", wReq[b].tls) /\ wReq[b].page = "logout"
        /\ UNCHANGED <<accounts, seed, trusted, minted, form, actor, acts>> /\ wPc[b] = "page"
        /\ jar' = [jar EXCEPT ![b] = 0]
    BY <1>7 DEF Gate!Logout, Gate!Cleared, Gate!Redirected, Gate!Step, Gate!NoToken
  <2>2. StoreKept
    BY <2>1 DEF GateInv, GateType, AdminStays, StoreKept
  <2>3. QED
    BY <1>1, <1>2, <2>1, <2>2, GateAfterRedirect
<1>8. CASE Gate!ToLogin(b)
  <2>1. /\ Gate!Redirected(b, "page", "login", wReq[b].tls) /\ wReq[b].page # "login"
        /\ UNCHANGED <<accounts, seed, trusted, minted, jar, form, actor, acts>> /\ wPc[b] = "page"
    BY <1>8 DEF Gate!ToLogin, Gate!Inside, Gate!store, Gate!held, Gate!Redirected, Gate!Step
  <2>2. QED
    BY <1>1, <1>2, <2>1, GateStoreSame, GateAfterRedirect
<1>9. CASE Gate!Revoke(b)
  <2>1. /\ Gate!Redirected(b, "page", "login", wReq[b].tls) /\ wReq[b].page # "login"
        /\ UNCHANGED <<accounts, seed, trusted, minted, form, actor, acts>> /\ wPc[b] = "page"
        /\ jar' = [jar EXCEPT ![b] = 0]
    BY <1>9 DEF Gate!Revoke, Gate!Inside, Gate!Cleared, Gate!Redirected, Gate!Step,
                Gate!NoToken
  <2>2. StoreKept
    BY <2>1 DEF GateInv, GateType, AdminStays, StoreKept
  <2>3. QED
    BY <1>1, <1>2, <2>1, <2>2, GateAfterRedirect
<1>10. QED
  BY <1>3, <1>4, <1>5, <1>6, <1>7, <1>8, <1>9


(* The handlers.                                                              *)
LEMMA GateHandling ==
    ASSUME GateInv, NEW b \in Browser,
           \/ Gate!Enter(b) \/ Gate!Denied(b) \/ Gate!Allowed(b) \/ Gate!Show(b)
           \/ Gate!Expired(b) \/ Gate!Act(b)
    PROVE  GateInv'
<1>1. /\ RoleKept(b) /\ HopsLeft(b) /\ wReq[b] \in GateRequest /\ hops[b] \in Nat
      /\ accounts \subseteq User /\ DOMAIN actor = Browser
  BY DEF GateInv, GateType
<1>2. CASE Gate!Enter(b) \/ Gate!Allowed(b)
  <2>1. PICK from \in {"page", "handler"}, to \in {"show", "handler", "post"} :
              Gate!Step(b, from, to)
    BY <1>2 DEF Gate!Enter, Gate!Allowed
  <2>2. UNCHANGED <<accounts, seed, trusted, minted, jar, form, wReq, actor, hops, acts>>
    BY <1>2 DEF Gate!Enter, Gate!Allowed, Gate!store, Gate!held
  <2>3. wPc[b] = from /\ wPc'[b] = to
    BY <2>1 DEF GateInv, GateType, Gate!Step
  <2>4. RoleKept(b)'
    <3>1. CASE Gate!Enter(b)
      BY <1>1, <2>2, <2>3, <3>1 DEF GateInv, GateType, Gate!Enter, Gate!Step, RoleKept
    <3>2. CASE Gate!Allowed(b)
      BY <1>1, <2>2, <2>3, <3>2 DEF GateInv, GateType, Gate!Allowed, Gate!Step, RoleKept
    <3>3. QED
      BY <1>2, <3>1, <3>2
  <2>5. /\ Gate!ToHttps(wReq[b])' = Gate!ToHttps(wReq[b])
        /\ Gate!Circles(wReq[b])' = Gate!Circles(wReq[b])
    BY <2>2, GateAlike
  <2>6. HopsLeft(b)'
    BY <1>1, <2>1, <2>2, <2>3, <2>5 DEF HopsLeft
  <2>7. to \in Places
    BY DEF Places
  <2>8. QED
    BY <1>1, <2>1, <2>2, <2>4, <2>6, <2>7, GateStoreSame, GateAfterStep
<1>3. CASE Gate!Denied(b) \/ Gate!Expired(b)
  <2>1. PICK from \in {"handler", "post"} : Gate!Answered(b, from)
    BY <1>3 DEF Gate!Denied, Gate!Expired
  <2>2. UNCHANGED <<accounts, seed, trusted, minted, jar, form, acts>>
    BY <1>3 DEF Gate!Denied, Gate!Expired, Gate!store, Gate!held
  <2>3. ActsAreMeant'
    BY <2>2 DEF GateInv, ActsAreMeant, Gate!ActsAreMeant
  <2>4. QED
    BY <2>1, <2>2, <2>3, GateStoreSame, GateAfterAnswer
<1>4. CASE Gate!Show(b)
  <2>1. /\ Gate!Answered(b, "show") /\ form' = [form EXCEPT ![b] = <<jar[b], seed>>]
        /\ UNCHANGED <<accounts, seed, trusted, minted, jar, acts>>
    BY <1>4 DEF Gate!Show, Gate!store
  <2>2. StoreKept
    BY <2>1 DEF GateInv, GateType, AdminStays, StoreKept
  <2>3. ActsAreMeant'
    BY <2>1 DEF GateInv, ActsAreMeant, Gate!ActsAreMeant
  <2>4. QED
    BY <2>1, <2>2, <2>3, GateAfterAnswer
<1>5. CASE Gate!Act(b)
  <2>1. /\ Gate!AuthPost(b) /\ Gate!Answered(b, "post") /\ wPc[b] = "post"
        /\ acts' = {[user |-> actor[b], page |-> wReq[b].page, foreign |-> wReq[b].foreign]}
        /\ UNCHANGED <<seed, trusted, minted, jar, form>>
        /\ \/ UNCHANGED <<accounts, sessions>>
           \/ wReq[b].page = "admin" /\ \E u \in accounts : Gate!WithoutAccount(u)
    BY <1>5 DEF Gate!Act, Gate!held, Gate!Answered, Gate!Step
  <2>2. StoreKept
    BY <2>1 DEF GateInv, GateType, AdminStays, StoreKept, Gate!WithoutAccount
  <2>3. ~wReq[b].foreign
    <3>1. wReq[b].csrf = <<jar[b], seed>> /\ jar[b] # 0
      BY <2>1 DEF Gate!AuthPost, Gate!CsrfOk, Gate!NoToken
    <3>2. QED
      BY <1>1, <3>1 DEF RoleKept
  <2>4. actor[b] \in User /\ (wReq[b].page = "admin" => actor[b] = Admin)
    BY <1>1, <2>1 DEF RoleKept
  <2>5. ActsAreMeant'
    BY <2>1, <2>3, <2>4 DEF ActsAreMeant, Gate!ActsAreMeant
  <2>6. QED
    BY <2>1, <2>2, <2>5, GateAfterAnswer
<1>6. QED
  BY <1>2, <1>3, <1>4, <1>5

(* The browser's side, and what happens elsewhere.                            *)
LEMMA GateAround ==
    ASSUME GateInv,
           \/ \E b \in Browser, r \in Gate!Requests : Gate!Send(b, r) \/ Gate!SendForeign(b, r)
           \/ Gate!Restart \/ Gate!SetupElsewhere \/ \E u \in User : Gate!RemoveElsewhere(u)
    PROVE  GateInv'
<1>1. ASSUME NEW b \in Browser, NEW r \in Gate!Requests, Gate!Send(b, r) \/ Gate!SendForeign(b, r)
      PROVE  GateInv'
  <2>1. PICK c \in {form[b], <<0, 0>>}, s \in {"own", "cross", "untold"}, f \in BOOLEAN :
          /\ wReq' = [wReq EXCEPT ![b] = [r EXCEPT !.csrf = c, !.site = s, !.foreign = f]]
          /\ f => c = <<0, 0>>
    BY <1>1 DEF Gate!Send, Gate!SendForeign, Gate!NoToken
  <2>2. /\ Gate!Step(b, "idle", "sent")
        /\ UNCHANGED <<accounts, seed, trusted, minted, jar, form, actor, hops>> /\ acts' = {}
    BY <1>1 DEF Gate!Send, Gate!SendForeign, Gate!store, Gate!held
  <2> DEFINE q == [r EXCEPT !.csrf = c, !.site = s, !.foreign = f]
  <2>3. c \in Nat \X Nat
    BY <2>1 DEF GateInv, GateType
  <2>4. q \in GateRequest
    BY <2>3, GateSent, Zenon
  <2>5. q.foreign => q.csrf = <<0, 0>>
    BY <2>1, <2>4 DEF Gate!Requests
  <2> HIDE DEF q
  <2>6. wReq' = [wReq EXCEPT ![b] = q]
    BY <2>1 DEF q
  <2>7. /\ Moved(b, "idle", "sent") /\ wReq'[b] = q /\ hops'[b] = 0 /\ hops[b] = 0
    BY <2>2, <2>4, <2>6 DEF GateInv, GateType, HopsLeft, Gate!Step, Moved, Places
  <2>8. RoleKept(b)' /\ HopsLeft(b)'
    BY <2>5, <2>7 DEF Moved, RoleKept, HopsLeft
  <2>9. ActsAreMeant'
    BY <2>2 DEF GateInv, ActsAreMeant, Gate!ActsAreMeant
  <2>10. QED
    BY <2>2, <2>7, <2>8, <2>9, GateStoreSame, GateServed
<1>2. CASE Gate!Restart
  <2>1. Gate!NoReq \in GateRequest /\ ~Gate!NoReq.foreign
    BY DEF Gate!NoReq, GateRequest, Gate!Page, Gate!NoToken
  <2>2. GateType' /\ AdminStays' /\ ActsAreMeant'
    BY <1>2, <2>1 DEF Gate!Restart, Gate!held, GateInv, GateType, AdminStays, Places,
                      ActsAreMeant, Gate!ActsAreMeant
  <2>3. ASSUME NEW b \in Browser PROVE RoleKept(b)' /\ HopsLeft(b)'
    BY <1>2, <2>1 DEF Gate!Restart, RoleKept, HopsLeft
  <2>4. QED
    BY <2>2, <2>3 DEF GateInv
<1>3. ASSUME Gate!SetupElsewhere \/ \E u \in User : Gate!RemoveElsewhere(u) PROVE GateInv'
  <2>1. UNCHANGED <<seed, trusted, minted, jar, form, wReq, wPc, actor, hops, acts>>
    BY <1>3 DEF Gate!SetupElsewhere, Gate!RemoveElsewhere, Gate!held
  <2>2. accounts' \subseteq User /\ AdminStays' /\ (accounts # {} => accounts' # {})
    BY <1>3, GateConstants
       DEF Gate!SetupElsewhere, Gate!RemoveElsewhere, Gate!WithoutAccount, GateInv, GateType,
           AdminStays
  <2>3. GateType' /\ ActsAreMeant'
    BY <2>1, <2>2 DEF GateInv, GateType, ActsAreMeant, Gate!ActsAreMeant
  <2>4. ASSUME NEW b \in Browser PROVE RoleKept(b)' /\ HopsLeft(b)'
    <3>1. RoleKept(b)'
      BY <2>1 DEF GateInv, RoleKept
    <3>2. /\ Gate!ToHttps(wReq[b])' = Gate!ToHttps(wReq[b]) /\ HopsLeft(b)
          /\ Gate!Circles(wReq[b])' = Gate!Circles(wReq[b])
      BY <2>1, GateAlike DEF GateInv
    <3>3. HopsLeft(b)'
      BY <2>1, <2>2, <3>2 DEF HopsLeft, Onward, AtLogin
    <3>4. QED
      BY <3>1, <3>3
  <2>5. QED
    BY <2>2, <2>3, <2>4 DEF GateInv
<1>4. QED
  BY <1>1, <1>2, <1>3

(* The invariant of the gate in every behaviour of the sum.                   *)
LEMMA GateInvariant == SiteSpec => []GateInv
<1>1. SiteInit => GateInv
  BY GateInit DEF SiteInit
<1>2. GateInv /\ [SiteNext]_allVars => GateInv'
  <2>1. ASSUME GateInv, Gate!Next PROVE GateInv'
    BY <2>1, GateRouting, GateSigning, GateHandling, GateAround DEF Gate!Next, Gate!Serve
  <2>2. ASSUME GateInv, UNCHANGED wVars PROVE GateInv'
    <3>1. GateType' /\ AdminStays' /\ ActsAreMeant'
      BY <2>2 DEF wVars, GateInv, GateType, AdminStays, ActsAreMeant, Gate!ActsAreMeant
    <3>2. ASSUME NEW b \in Browser PROVE RoleKept(b)' /\ HopsLeft(b)'
      BY <2>2, GateAlike DEF wVars, GateInv, RoleKept, HopsLeft, Onward, AtLogin
    <3>3. QED
      BY <3>1, <3>2 DEF GateInv
  <2>3. QED
    BY <2>1, <2>2 DEF SiteNext, allVars
<1>3. QED
  BY <1>1, <1>2, PTL DEF SiteSpec, allVars

(* Redirects end: whatever is signed out, removed or set up meanwhile, nobody *)
(* is redirected more than three times in a row, but through a proxy that     *)
(* ends TLS and is not trusted (route, tls_ux_decision).                      *)
THEOREM RedirectsStop == SiteSpec => []RedirectsEnd
<1>1. GateInv => RedirectsEnd
  BY DEF GateInv, GateType, HopsLeft, RedirectsEnd, Gate!RedirectsEnd
<1>2. QED
  BY <1>1, GateInvariant, PTL

(* What is done is done at the wish of the user it is done for, and on the    *)
(* admin's pages that is the admin (require_auth_post, is_admin).             *)
THEOREM NothingUnasked == SiteSpec => []ActsAreMeant
<1>1. GateInv => ActsAreMeant
  BY DEF GateInv
<1>2. QED
  BY <1>1, GateInvariant, PTL


-------------------------------------------------------------------------------
(* The accounts (Administration).                                             *)

EditKinds == {"setup", "add", "password", "own", "remove", "rename", "quota", "redeem"}

(* What the request that a thread serves holds.                               *)
Meaning(t) ==
    /\ aReq[t] \in Accounts!Request
    /\ aPc[t] \in {"edit", "finish"} \union Accounts!Editing \union Accounts!Reloading =>
           aReq[t].kind \in EditKinds
    /\ aPc[t] \in {"looked", "settle"} => aReq[t].kind = "redeem"
    /\ aPc[t] = "sign" => aReq[t].kind = "login"
    /\ aPc[t] # "idle" => aReq[t].name \in Name
    /\ aPc[t] # "idle" /\ aReq[t].kind \in {"setup", "add", "password", "own", "redeem"} =>
           aReq[t].pwd \in Pwd
    /\ aPc[t] # "idle" /\ aReq[t].kind = "rename" => aReq[t].new \in Name
    /\ aPc[t] # "idle" /\ aReq[t].kind = "redeem" => aReq[t].tok \in Token

AccType ==
    /\ DOMAIN aPc = Thread /\ DOMAIN aReq = Thread
    /\ DOMAIN copy = Thread /\ DOMAIN fd = Thread
    /\ \A t \in Thread : aPc[t] \in {"idle", "looked", "edit", "sign", "finish", "settle"}
                                    \union Accounts!Editing \union Accounts!Reloading
    /\ \A t \in Thread : Meaning(t)
    /\ invite \in [Token -> Name \union {None, Gone}] /\ used \in [Token -> Nat]
    /\ session \in [Sid -> Name \union {None}]

(* What the assumptions on accounts come to.                                  *)
LEMMA AccConstants ==
    None \notin Name \union Pwd \union Sid \union Token /\ Gone \notin Name \union {None}
BY AccountsAssumption DEF Accounts!AdminAssumption

(* What the setup makes of a configuration without accounts.                  *)
Founder(n, p) == [Accounts!Idle EXCEPT !.name = n, !.pwd = p]
SetUpBy(n, p) == Accounts!CompleteSetup(Founder(n, p), Accounts!Blank)

LEMMA SetupMakes ==
    ASSUME NEW n \in Name, NEW p \in Pwd
    PROVE  /\ SetUpBy(n, p) \in Accounts!Document
           /\ SetUpBy(n, p).admin = n /\ SetUpBy(n, p).users[n] = p
<1> DEFINE table == [x \in Name |-> IF x = n THEN p ELSE None]
<1>1. Founder(n, p).name = n /\ Founder(n, p).pwd = p
  BY DEF Founder, Accounts!Idle
<1>2. SetUpBy(n, p) = [users |-> table, quotas |-> {}, admin |-> n]
  <2>1. Accounts!AddUser(Founder(n, p), Accounts!Blank)
            = [Accounts!Blank EXCEPT !.users[n] = p]
    BY <1>1 DEF Accounts!AddUser
  <2>2. [Accounts!Blank EXCEPT !.users[n] = p]
            = [users |-> [Accounts!Blank.users EXCEPT ![n] = p], quotas |-> {}, admin |-> None]
    BY DEF Accounts!Blank
  <2>3. [Accounts!Blank.users EXCEPT ![n] = p] = table
    BY DEF Accounts!Blank
  <2>4. Accounts!AddUser(Founder(n, p), Accounts!Blank)
            = [users |-> table, quotas |-> {}, admin |-> None]
    BY <2>1, <2>2, <2>3
  <2> HIDE DEF table
  <2>5. SetUpBy(n, p)
            = [Accounts!AddUser(Founder(n, p), Accounts!Blank) EXCEPT !.admin = n]
    BY <1>1 DEF SetUpBy, Accounts!CompleteSetup
  <2>6. QED
    BY <2>4, <2>5
<1>3. table \in [Name -> Pwd \union {None}] /\ table[n] = p
  OBVIOUS
<1> HIDE DEF table
<1>4. QED
  BY <1>2, <1>3 DEF Accounts!Document

(* A thread takes up a request, which says what is needed for it.             *)
Taken(t, r, label) ==
    /\ aPc[t] = "idle" /\ aPc' = [aPc EXCEPT ![t] = label]
    /\ aReq' = [aReq EXCEPT ![t] = r] /\ r \in Accounts!Request
    /\ label \in {"edit", "sign", "looked"} /\ r.name \in Name
    /\ label = "edit" => r.kind \in EditKinds \ {"redeem"}
    /\ label = "looked" => r.kind = "redeem" /\ r.tok \in Token /\ invite[r.tok] = r.name
    /\ label = "sign" => r.kind = "login"
    /\ r.kind \in {"setup", "add", "password", "own", "redeem"} => r.pwd \in Pwd
    /\ r.kind = "rename" => r.new \in Name
    /\ UNCHANGED <<config, temp, users, quotas, admin, invite, session, copy, fd, faults,
                   ideal, used>>
    /\ met' = met
         \union (IF \E u \in Accounts!InService : "rename" \in {r.kind, aReq[u].kind}
                 THEN {"rename"} ELSE {})
         \union (IF \E u \in Accounts!InService : {r.kind, aReq[u].kind} = {"setup"}
                 THEN {"setup"} ELSE {})
    /\ r.kind = "setup" <=> \A n \in Name : users[n] = None
    /\ r.kind = "remove" => \E k \in Sid : /\ session[k] \in Name /\ session[k] = admin
                                           /\ users[session[k]] # None /\ r.name # admin

(* Every request begins like that.                                            *)
LEMMA AccTaken ==
    ASSUME AccType, NEW t \in Thread, Accounts!Requests(t)
    PROVE  \E r, label : Taken(t, r, label)
<1> USE DEF Accounts!Begin, Accounts!Goto, Accounts!Stay, Accounts!files, Accounts!live,
            Accounts!Idle, Accounts!Request, EditKinds
<1>1. ASSUME NEW n \in Name, Accounts!Login(t, n) PROVE \E r, label : Taken(t, r, label)
  <2> DEFINE r == [Accounts!Idle EXCEPT !.kind = "login", !.name = n]
  <2>1. Taken(t, r, "sign")
    BY <1>1 DEF Accounts!Login, Taken
  <2>2. QED
    BY <2>1
<1>2. ASSUME NEW n \in Name, NEW p \in Pwd, Accounts!Setup(t, n, p)
      PROVE  \E r, label : Taken(t, r, label)
  <2> DEFINE r == [Accounts!Idle EXCEPT !.kind = "setup", !.name = n, !.pwd = p]
  <2>1. Taken(t, r, "edit")
    BY <1>2 DEF Accounts!Setup, Accounts!SetupPending, Taken
  <2>2. QED
    BY <2>1
<1>3. ASSUME NEW k \in Sid, NEW p \in Pwd, Accounts!OwnPassword(t, k, p)
      PROVE  \E r, label : Taken(t, r, label)
  <2> DEFINE r == [Accounts!Idle EXCEPT !.kind = "own", !.name = session[k], !.pwd = p]
  <2>1. session[k] \in Name /\ users[session[k]] # None
    BY <1>3 DEF Accounts!OwnPassword, Accounts!Signed, AccType
  <2>2. Taken(t, r, "edit")
    BY <1>3, <2>1 DEF Accounts!OwnPassword, Taken
  <2>3. QED
    BY <2>2
<1>4. ASSUME NEW k \in Token, NEW p \in Pwd, Accounts!RedeemLookup(t, k, p)
      PROVE  \E r, label : Taken(t, r, label)
  <2> DEFINE r == [Accounts!Idle EXCEPT !.kind = "redeem", !.tok = k, !.name = invite[k],
                                        !.pwd = p]
  <2>1. Taken(t, r, "looked")
    BY <1>4 DEF Accounts!RedeemLookup, Accounts!SetupPending, Accounts!Pending, Taken
  <2>2. QED
    BY <2>1
<1>5. ASSUME NEW k \in Sid, NEW r \in Accounts!Request, Accounts!AdminForm(t, k, r),
             r.name \in Name, r.kind \in EditKinds \ {"redeem", "setup"},
             r.kind \in {"add", "password", "own"} => r.pwd \in Pwd,
             r.kind = "rename" => r.new \in Name, r.kind = "remove" => r.name # session[k]
      PROVE  \E q, label : Taken(t, q, label)
  <2>1. session[k] \in Name /\ session[k] = admin /\ users[session[k]] # None
    BY <1>5 DEF Accounts!AdminForm, Accounts!IsAdmin, Accounts!Signed, AccType
  <2>2. Taken(t, r, "edit")
    BY <1>5, <2>1 DEF Accounts!AdminForm, Taken
  <2>3. QED
    BY <2>2
<1>6. ASSUME NEW k \in Sid, NEW n \in Name,
             \/ Accounts!UserRemove(t, k, n) \/ Accounts!UserQuota(t, k, n)
             \/ \E m \in Name : Accounts!UserRename(t, k, n, m)
             \/ \E p \in Pwd : Accounts!UserAdd(t, k, n, p) \/ Accounts!UserPassword(t, k, n, p)
      PROVE  \E r, label : Taken(t, r, label)
  <2>1. CASE Accounts!UserRemove(t, k, n)
    BY <1>5, <2>1 DEF Accounts!UserRemove
  <2>2. CASE Accounts!UserQuota(t, k, n)
    BY <1>5, <2>2 DEF Accounts!UserQuota
  <2>3. ASSUME NEW m \in Name, Accounts!UserRename(t, k, n, m)
        PROVE  \E r, label : Taken(t, r, label)
    BY <1>5, <2>3 DEF Accounts!UserRename
  <2>4. ASSUME NEW p \in Pwd, Accounts!UserAdd(t, k, n, p)
        PROVE  \E r, label : Taken(t, r, label)
    BY <1>5, <2>4 DEF Accounts!UserAdd
  <2>5. ASSUME NEW p \in Pwd, Accounts!UserPassword(t, k, n, p)
        PROVE  \E r, label : Taken(t, r, label)
    BY <1>5, <2>5 DEF Accounts!UserPassword
  <2>6. QED
    BY <1>6, <2>1, <2>2, <2>3, <2>4, <2>5
<1>7. QED
  BY <1>1, <1>2, <1>3, <1>4, <1>6 DEF Accounts!Requests, Accounts!Forms


(* The part of the types that depends on where the threads are.               *)
AccPlaces ==
    /\ DOMAIN aPc = Thread /\ DOMAIN aReq = Thread
    /\ \A t \in Thread : aPc[t] \in {"idle", "looked", "edit", "sign", "finish", "settle"}
                                    \union Accounts!Editing \union Accounts!Reloading
    /\ \A t \in Thread : Meaning(t)

(* A request goes on ...                                                      *)
LEMMA AccGoes ==
    ASSUME AccType, NEW t \in Thread, aPc[t] # "idle", aReq' = aReq,
           NEW label \in {"edit", "finish"} \union Accounts!Editing \union Accounts!Reloading
                         \union {"settle"},
           aPc' = [aPc EXCEPT ![t] = label], aReq[t].kind \in EditKinds,
           label = "settle" => aReq[t].kind = "redeem"
    PROVE  AccPlaces'
<1>1. ASSUME NEW u \in Thread PROVE Meaning(u)'
  BY DEF AccType, Meaning, Accounts!Editing, Accounts!Reloading
<1>2. QED
  BY <1>1 DEF AccType, AccPlaces

(* ... or is answered.                                                        *)
LEMMA AccAnswered ==
    ASSUME AccType, NEW t \in Thread, Accounts!Done(t)
    PROVE  AccPlaces' /\ DOMAIN copy' = Thread /\ aPc'[t] = "idle"
<1>1. Accounts!Idle \in Accounts!Request
  BY DEF Accounts!Idle, Accounts!Request
<1>2. ASSUME NEW u \in Thread PROVE Meaning(u)'
  BY <1>1 DEF AccType, Meaning, Accounts!Done, Accounts!Editing, Accounts!Reloading
<1>3. QED
  BY <1>2 DEF AccType, AccPlaces, Accounts!Done

(* Every step keeps the types.                                                *)
LEMMA AccTypeStep == AccType /\ Accounts!Next => AccType'
<1> SUFFICES ASSUME AccType, Accounts!Next PROVE AccType'
  OBVIOUS
<1> USE DEF Accounts!files, Accounts!live, Accounts!Stay, Accounts!Goto
<1>1. ASSUME NEW t \in Thread, NEW r, NEW label, Taken(t, r, label) PROVE AccType'
  <2>1. ASSUME NEW u \in Thread PROVE Meaning(u)'
    BY <1>1 DEF AccType, Meaning, Taken, Accounts!Editing, Accounts!Reloading, EditKinds
  <2>2. QED
    BY <1>1, <2>1 DEF AccType, Taken
<1>2. ASSUME NEW t \in Thread, AccPlaces', DOMAIN copy' = Thread, DOMAIN fd' = Thread,
             UNCHANGED <<invite, session, used>>
      PROVE  AccType'
  BY <1>2 DEF AccType, AccPlaces
<1>3. ASSUME NEW t \in Thread,
             \/ Accounts!RedeemProceed(t) \/ Accounts!EditRead(t) \/ Accounts!TempCreate(t)
             \/ Accounts!TempWrite(t) \/ Accounts!TempRename(t) \/ Accounts!ReloadRead(t)
             \/ Accounts!ReloadUsers(t) \/ Accounts!ReloadQuotas(t) \/ Accounts!ReloadAdmin(t)
      PROVE  AccType'
  <2>1. /\ aPc[t] \in {"looked", "edit"} \union Accounts!Editing \union Accounts!Reloading
        /\ \E label \in {"edit", "finish"} \union Accounts!Editing \union Accounts!Reloading :
               aPc' = [aPc EXCEPT ![t] = label]
        /\ aReq' = aReq
    BY <1>3 DEF Accounts!RedeemProceed, Accounts!EditRead, Accounts!TempCreate,
                Accounts!TempWrite, Accounts!TempRename, Accounts!ReloadRead,
                Accounts!ReloadUsers, Accounts!ReloadQuotas, Accounts!ReloadAdmin,
                Accounts!Editing, Accounts!Reloading
  <2>2. aReq[t].kind \in EditKinds /\ aPc[t] # "idle"
    BY <2>1 DEF AccType, Meaning, EditKinds, Accounts!Editing, Accounts!Reloading
  <2>3. AccPlaces'
    <3>1. PICK label \in {"edit", "finish"} \union Accounts!Editing \union Accounts!Reloading :
            aPc' = [aPc EXCEPT ![t] = label]
      BY <2>1
    <3>2. label # "settle"
      BY DEF Accounts!Editing, Accounts!Reloading
    <3>3. label \in {"edit", "finish"} \union Accounts!Editing \union Accounts!Reloading
                    \union {"settle"}
      OBVIOUS
    <3>4. QED
      BY <2>1, <2>2, <3>1, <3>2, <3>3, AccGoes
  <2>4. /\ DOMAIN copy' = Thread /\ DOMAIN fd' = Thread
        /\ UNCHANGED <<invite, session, used>>
    BY <1>3 DEF AccType, Accounts!RedeemProceed, Accounts!EditRead, Accounts!TempCreate,
                Accounts!TempWrite, Accounts!TempRename, Accounts!ReloadRead,
                Accounts!ReloadUsers, Accounts!ReloadQuotas, Accounts!ReloadAdmin
  <2>5. QED
    BY <1>2, <2>3, <2>4
<1>4. ASSUME NEW t \in Thread, Accounts!EditFails(t) \/ Accounts!ReloadFails(t)
                               \/ Accounts!FinishPlain(t) \/ Accounts!FinishQuota(t)
      PROVE  AccType'
  <2>1. /\ Accounts!Done(t) /\ DOMAIN fd' = Thread /\ UNCHANGED <<invite, session, used>>
    BY <1>4 DEF AccType, Accounts!EditFails, Accounts!ReloadFails, Accounts!FinishPlain,
                Accounts!FinishQuota
  <2>2. QED
    BY <1>2, <2>1, AccAnswered
<1>5. ASSUME NEW k \in Token, Accounts!Consume(k)
      PROVE  invite' \in [Token -> Name \union {None, Gone}]
  BY <1>5 DEF AccType, Accounts!Consume
<1>6. ASSUME NEW t \in Thread, Accounts!RedeemExists(t) \/ Accounts!EditRefused(t)
      PROVE  AccType'
  <2>1. Accounts!Done(t) /\ UNCHANGED <<session, used, fd>>
    BY <1>6 DEF Accounts!RedeemExists, Accounts!EditRefused
  <2>2. (aReq[t].kind = "redeem" /\ Accounts!Consume(aReq[t].tok)) \/ UNCHANGED invite
    BY <1>6 DEF AccType, Meaning, Accounts!RedeemExists, Accounts!EditRefused
  <2>3. aReq[t].kind = "redeem" => aReq[t].tok \in Token
    BY <1>6 DEF AccType, Meaning, Accounts!RedeemExists, Accounts!EditRefused
  <2>4. invite' \in [Token -> Name \union {None, Gone}]
    BY <1>5, <2>2, <2>3 DEF AccType
  <2>5. QED
    BY <2>1, <2>4, AccAnswered DEF AccType, AccPlaces
<1>7. ASSUME NEW t \in Thread,
             \/ Accounts!FinishSignIn(t) \/ Accounts!FinishPassword(t)
             \/ Accounts!FinishRemove(t) \/ Accounts!RemapSessions(t) \/ Accounts!RedeemSignIn(t)
      PROVE  AccType'
  <2>1. Accounts!Done(t) /\ UNCHANGED <<invite, used, fd>>
    BY <1>7 DEF Accounts!FinishSignIn, Accounts!FinishPassword, Accounts!FinishRemove,
                Accounts!RemapSessions, Accounts!RedeemSignIn
  <2>2. /\ aReq[t].name \in Name
        /\ aPc[t] = "finish" /\ aReq[t].kind = "rename" => aReq[t].new \in Name
    BY <1>7 DEF AccType, Meaning, Accounts!FinishSignIn, Accounts!FinishPassword,
                Accounts!FinishRemove, Accounts!RemapSessions, Accounts!RedeemSignIn
  <2>3. session' \in [Sid -> Name \union {None}]
    BY <1>7, <2>2
       DEF AccType, Accounts!FinishSignIn, Accounts!FinishPassword, Accounts!FinishRemove,
           Accounts!RemapSessions, Accounts!RedeemSignIn, Accounts!SignIn, Accounts!SignOut,
           Accounts!Unused
  <2>4. QED
    BY <2>1, <2>3, AccAnswered DEF AccType, AccPlaces
<1>8. ASSUME NEW t \in Thread, Accounts!RedeemConsume(t) PROVE AccType'
  <2>1. /\ aPc[t] = "finish" /\ aReq[t].kind = "redeem" /\ Accounts!Consume(aReq[t].tok)
        /\ aPc' = [aPc EXCEPT ![t] = "settle"] /\ UNCHANGED <<session, aReq, copy, fd>>
        /\ used' = [used EXCEPT ![aReq[t].tok] = @ + 1]
    BY <1>8 DEF Accounts!RedeemConsume
  <2>2. aReq[t].tok \in Token
    BY <2>1 DEF AccType, Meaning
  <2>3. AccPlaces'
    BY <2>1, AccGoes DEF EditKinds
  <2>4. invite' \in [Token -> Name \union {None, Gone}] /\ used' \in [Token -> Nat]
    BY <1>5, <2>1, <2>2 DEF AccType
  <2>5. QED
    BY <2>1, <2>3, <2>4 DEF AccType, AccPlaces
<1>9. CASE Accounts!Others
  <2>1. /\ UNCHANGED <<aPc, aReq, copy, fd, used>>
        /\ session' \in [Sid -> Name \union {None}]
        /\ invite' \in [Token -> Name \union {None, Gone}]
    BY <1>9 DEF AccType, Accounts!Others, Accounts!Aside, Accounts!RevokeOnRequest,
                Accounts!Logout, Accounts!UserLogout, Accounts!SignOut, Accounts!InviteCreate,
                Accounts!Issue, Accounts!InviteRevoke, Accounts!Revoke,
                Accounts!InviteRegenerate, Accounts!Reissue, Accounts!Pending
  <2>2. QED
    BY <2>1 DEF AccType, Meaning
<1>10. CASE Accounts!Rest
  BY <1>10 DEF Accounts!Rest, Accounts!vars, AccType, Meaning
<1>11. ASSUME NEW t \in Thread, Accounts!Requests(t) PROVE AccType'
  BY <1>1, <1>11, AccTaken
<1>12. QED
  BY <1>3, <1>4, <1>6, <1>7, <1>8, <1>9, <1>10, <1>11 DEF Accounts!Next, Accounts!Steps

(* The accounts in every behaviour of the sum.                                *)
LEMMA AccTypeInvariant == SiteSpec => []AccType
<1>1. SiteInit => AccType
  <2>1. ASSUME Accounts!Init PROVE AccType
    <3>1. Accounts!Idle \in Accounts!Request
      BY DEF Accounts!Idle, Accounts!Request
    <3>2. ASSUME NEW t \in Thread PROVE Meaning(t)
      BY <2>1, <3>1 DEF Accounts!Init, Meaning, Accounts!Editing, Accounts!Reloading
    <3>3. session \in [Sid -> Name \union {None}]
      BY <2>1 DEF Accounts!Init
    <3>4. QED
      BY <2>1, <3>2, <3>3 DEF Accounts!Init, AccType
  <2>2. QED
    BY <2>1 DEF SiteInit
<1>2. AccType /\ [SiteNext]_allVars => AccType'
  <2>1. ASSUME AccType, UNCHANGED aVars PROVE AccType'
    BY <2>1 DEF aVars, AccType, Meaning
  <2>2. QED
    BY <2>1, AccTypeStep DEF SiteNext, allVars
<1>3. QED
  BY <1>1, <1>2, PTL DEF SiteSpec, allVars

(* A thread answers, whatever became of its request.                          *)
Ended(t) ==
    /\ aPc[t] # "idle" /\ Accounts!Done(t)
    /\ UNCHANGED <<config, users, admin, ideal, used>>
    /\ aPc[t] \in Accounts!Editing \/ UNCHANGED <<temp, fd>>
    /\ aPc[t] \in Accounts!Reloading => "fault" \in met'
    /\ IF aPc[t] = "finish" /\ aReq[t].kind = "quota"
       THEN Accounts!CapLive(aReq[t].name, aReq[t].cap) ELSE UNCHANGED quotas
    /\ met' \in {met, met \union {"fault"}}
    /\ \A k \in Token : invite'[k] = invite[k] \/ (invite[k] \in Name /\ invite'[k] = Gone)

(* Nothing but sessions and invitations changes.                              *)
Bystander ==
    /\ UNCHANGED <<config, temp, users, quotas, admin, aPc, aReq, copy, fd, ideal, met, used>>
    /\ \/ \A k \in Token : invite'[k] = invite[k] \/ (invite[k] \in Name /\ invite'[k] = Gone)
       \/ \E k \in Token, n \in Name : invite[k] = None /\ invite' = [invite EXCEPT ![k] = n]
       \/ \E k, new \in Token :
            /\ invite[k] \in Name /\ invite[new] = None
            /\ invite' = [invite EXCEPT ![k] = Gone, ![new] = invite[k]]

(* The steps on the way from the lookup to the end of the reload.             *)
Advance(t) ==
    \/ Accounts!RedeemProceed(t) \/ Accounts!EditRead(t) \/ Accounts!TempCreate(t)
    \/ Accounts!TempWrite(t) \/ Accounts!TempRename(t) \/ Accounts!ReloadRead(t)
    \/ Accounts!ReloadUsers(t) \/ Accounts!ReloadQuotas(t) \/ Accounts!ReloadAdmin(t)
    \/ Accounts!RedeemConsume(t)

(* Every step of the accounts is one of these.                                *)
LEMMA AccSteps ==
    ASSUME AccType, Accounts!Next
    PROVE  \/ \E t \in Thread : \E r, label : Taken(t, r, label)
           \/ \E t \in Thread : Ended(t) \/ Advance(t)
           \/ Bystander
<1> USE DEF Accounts!files, Accounts!live, Accounts!Stay
<1>1. ASSUME NEW t \in Thread,
             \/ Accounts!FinishSignIn(t) \/ Accounts!FinishPlain(t) \/ Accounts!FinishPassword(t)
             \/ Accounts!FinishRemove(t) \/ Accounts!RemapSessions(t)
             \/ Accounts!RedeemSignIn(t) \/ Accounts!FinishQuota(t)
      PROVE  Ended(t)
  BY <1>1 DEF AccType, Accounts!FinishSignIn, Accounts!FinishPlain, Accounts!FinishPassword,
              Accounts!FinishRemove, Accounts!RemapSessions, Accounts!RedeemSignIn,
              Accounts!FinishQuota, Accounts!Reloading, Accounts!Editing, Ended
<1>2. ASSUME NEW t \in Thread, Accounts!EditFails(t) \/ Accounts!ReloadFails(t) PROVE Ended(t)
  BY <1>2 DEF AccType, Accounts!EditFails, Accounts!ReloadFails, Accounts!Reloading,
              Accounts!Editing, Ended
<1>3. ASSUME NEW k \in Token, Accounts!Consume(k)
      PROVE  /\ met' \in {met, met \union {"fault"}}
             /\ \A j \in Token : invite'[j] = invite[j] \/ (invite[j] \in Name /\ invite'[j] = Gone)
  BY <1>3 DEF AccType, Accounts!Consume
<1>4. ASSUME NEW t \in Thread, Accounts!RedeemExists(t) \/ Accounts!EditRefused(t)
      PROVE  Ended(t)
  <2>1. aReq[t].kind = "redeem" => aReq[t].tok \in Token
    BY <1>4 DEF AccType, Meaning, Accounts!RedeemExists, Accounts!EditRefused
  <2>2. /\ \/ aReq[t].kind = "redeem" /\ Accounts!Consume(aReq[t].tok)
           \/ UNCHANGED <<invite, met>>
        /\ aPc[t] \in {"looked", "edit"} /\ Accounts!Done(t)
        /\ UNCHANGED <<config, temp, users, quotas, admin, fd, ideal, used>>
    BY <1>4 DEF AccType, Meaning, Accounts!RedeemExists, Accounts!EditRefused
  <2>3. /\ met' \in {met, met \union {"fault"}}
        /\ \A j \in Token : invite'[j] = invite[j] \/ (invite[j] \in Name /\ invite'[j] = Gone)
    BY <1>3, <2>1, <2>2
  <2>4. QED
    BY <2>2, <2>3 DEF Ended, Accounts!Editing, Accounts!Reloading
<1>5. CASE Accounts!Others
  BY <1>5 DEF AccType, Accounts!Others, Accounts!Aside, Accounts!RevokeOnRequest,
              Accounts!Logout, Accounts!UserLogout, Accounts!InviteCreate,
              Accounts!Issue, Accounts!InviteRevoke, Accounts!Revoke,
              Accounts!InviteRegenerate, Accounts!Reissue, Accounts!Pending, Bystander
<1>6. CASE Accounts!Rest
  BY <1>6 DEF Accounts!Rest, Accounts!vars, Bystander
<1>7. QED
  BY <1>1, <1>2, <1>4, <1>5, <1>6, AccTaken DEF Accounts!Next, Accounts!Steps, Advance


(* What was noted stays noted.                                                *)
LEMMA AccNoted ==
    ASSUME AccType, Accounts!Next
    PROVE  met \subseteq met'
<1>1. ASSUME NEW t \in Thread, Advance(t) PROVE met \subseteq met'
  BY <1>1 DEF Advance, Accounts!Consume, Accounts!RedeemProceed, Accounts!EditRead,
              Accounts!TempCreate, Accounts!TempWrite, Accounts!TempRename,
              Accounts!ReloadRead, Accounts!ReloadUsers, Accounts!ReloadQuotas,
              Accounts!ReloadAdmin, Accounts!RedeemConsume
<1>2. QED
  BY <1>1, AccSteps DEF Taken, Ended, Bystander

-------------------------------------------------------------------------------
(* Edits that are never between their read and their rename at the same time  *)
(* find the temporary file as they left it and replace what they read.        *)
Serial ==
    /\ config = Accounts!Whole(ideal)
    /\ \A t, u \in Thread : aPc[t] \in Accounts!Editing /\ aPc[u] \in Accounts!Editing => t = u
    /\ \A t \in Thread : aPc[t] \in Accounts!Editing =>
           /\ Accounts!EditOk(aReq[t], ideal)
           /\ copy[t] = Accounts!Edited(aReq[t], ideal)
    /\ \A t \in Thread : aPc[t] = "write" => temp = Accounts!Emptied /\ fd[t] = "temp"
    /\ \A t \in Thread : aPc[t] = "swap" => temp = Accounts!Whole(copy[t])

EditsInv == "edit" \notin met => Serial

(* Steps outside the editor leave all this alone.                             *)
LEMMA SerialKept ==
    ASSUME Serial, UNCHANGED <<config, ideal>>,
           \A t \in Thread : aPc'[t] \in Accounts!Editing =>
               /\ aPc'[t] = aPc[t] /\ aReq'[t] = aReq[t]
               /\ copy'[t] = copy[t] /\ fd'[t] = fd[t] /\ temp' = temp
    PROVE  Serial'
BY DEF Serial, Accounts!Editing

(* A whole file reads as its document.                                        *)
LEMMA WholeReads ==
    ASSUME NEW d PROVE Accounts!Readings(Accounts!Whole(d)) = {d}
BY DEF Accounts!Readings, Accounts!Whole

(* Every step keeps the edits apart, or notes that they were not.             *)
LEMMA EditsStep ==
    ASSUME AccType, EditsInv, Accounts!Next
    PROVE  EditsInv'
<1> SUFFICES ASSUME "edit" \notin met' PROVE Serial'
  BY DEF EditsInv
<1>1. "edit" \notin met /\ Serial
  BY AccNoted DEF EditsInv
<1> USE DEF Accounts!Stay, Accounts!files, Accounts!live, Accounts!Goto
<1>2. ASSUME NEW t \in Thread, NEW r, NEW label, Taken(t, r, label) PROVE Serial'
  <2>1. \A u \in Thread : aPc'[u] \in Accounts!Editing => aPc'[u] = aPc[u] /\ aReq'[u] = aReq[u]
    BY <1>2 DEF AccType, Taken, Accounts!Editing
  <2>2. QED
    BY <1>1, <1>2, <2>1, SerialKept DEF Taken
<1>3. ASSUME NEW t \in Thread, Ended(t) PROVE Serial'
  <2>1. \A u \in Thread : aPc'[u] \in Accounts!Editing =>
            aPc'[u] = aPc[u] /\ aReq'[u] = aReq[u] /\ copy'[u] = copy[u] /\ u # t
    BY <1>3 DEF AccType, Ended, Accounts!Done, Accounts!Editing
  <2>2. \A u \in Thread : aPc'[u] \in Accounts!Editing => fd'[u] = fd[u] /\ temp' = temp
    BY <1>1, <1>3, <2>1 DEF Serial, Ended
  <2>3. QED
    BY <1>1, <1>3, <2>1, <2>2, SerialKept DEF Ended
<1>4. CASE Bystander
  BY <1>1, <1>4, SerialKept DEF Bystander
<1>5. ASSUME NEW t \in Thread,
             \/ Accounts!RedeemProceed(t) \/ Accounts!ReloadRead(t) \/ Accounts!ReloadUsers(t)
             \/ Accounts!ReloadQuotas(t) \/ Accounts!ReloadAdmin(t) \/ Accounts!RedeemConsume(t)
      PROVE  Serial'
  <2>1. UNCHANGED <<config, ideal, aReq, fd, temp>>
    BY <1>5 DEF Accounts!RedeemProceed, Accounts!ReloadRead, Accounts!ReloadUsers,
                Accounts!ReloadQuotas, Accounts!ReloadAdmin, Accounts!RedeemConsume
  <2>2. \A u \in Thread : aPc'[u] \in Accounts!Editing => aPc'[u] = aPc[u] /\ copy'[u] = copy[u]
    BY <1>5 DEF AccType, Accounts!RedeemProceed, Accounts!ReloadRead, Accounts!ReloadUsers,
                Accounts!ReloadQuotas, Accounts!ReloadAdmin, Accounts!RedeemConsume,
                Accounts!Editing
  <2>3. QED
    BY <1>1, <2>1, <2>2, SerialKept
<1>6. ASSUME NEW t \in Thread, Accounts!EditRead(t) PROVE Serial'
  <2>1. /\ Accounts!EditOk(aReq[t], ideal)
        /\ copy' = [copy EXCEPT ![t] = Accounts!Edited(aReq[t], ideal)]
        /\ aPc' = [aPc EXCEPT ![t] = "create"]
        /\ UNCHANGED <<config, temp, fd, aReq, ideal>>
    <3>1. Accounts!Readings(config) = {ideal}
      BY <1>1, WholeReads DEF Serial
    <3>2. PICK d \in Accounts!Readings(config) :
            /\ Accounts!EditOk(aReq[t], d)
            /\ copy' = [copy EXCEPT ![t] = Accounts!Edited(aReq[t], d)]
      BY <1>6 DEF Accounts!EditRead
    <3>3. d = ideal
      BY <3>1
    <3>4. aPc' = [aPc EXCEPT ![t] = "create"] /\ UNCHANGED <<config, temp, fd, aReq, ideal>>
      BY <1>6 DEF Accounts!EditRead
    <3>5. QED
      BY <3>2, <3>3, <3>4
  <2>2. \A u \in Thread : aPc[u] \notin Accounts!Editing
    BY <1>6 DEF Accounts!EditRead
  <2>3. QED
    BY <1>1, <2>1, <2>2 DEF AccType, Serial, Accounts!Editing
<1>7. ASSUME NEW t \in Thread, Accounts!TempCreate(t) PROVE Serial'
  BY <1>1, <1>7 DEF AccType, Serial, Accounts!TempCreate, Accounts!Editing
<1>8. ASSUME NEW t \in Thread, Accounts!TempWrite(t) PROVE Serial'
  <2>1. /\ aPc[t] = "write" /\ fd[t] = "temp" /\ temp = Accounts!Emptied
        /\ aPc' = [aPc EXCEPT ![t] = "swap"]
        /\ UNCHANGED <<config, aReq, copy, ideal>>
        /\ temp' \in Accounts!Written(Accounts!Emptied, copy[t])
    BY <1>1, <1>8 DEF Serial, Accounts!TempWrite
  <2>2. temp' = Accounts!Whole(copy[t])
    BY <2>1 DEF Accounts!Written, Accounts!Emptied
  <2>3. QED
    BY <1>1, <2>1, <2>2 DEF AccType, Serial, Accounts!Editing
<1>9. ASSUME NEW t \in Thread, Accounts!TempRename(t) PROVE Serial'
  <2>1. /\ aPc[t] = "swap" /\ config' = Accounts!Whole(copy[t])
        /\ ideal' = copy[t] /\ aPc' = [aPc EXCEPT ![t] = "reload"]
    BY <1>1, <1>9 DEF Serial, Accounts!TempRename, Accounts!Editing
  <2>2. \A u \in Thread : aPc'[u] \notin Accounts!Editing
    BY <1>1, <2>1 DEF AccType, Serial, Accounts!Editing
  <2>3. QED
    BY <2>1, <2>2 DEF Serial, Accounts!Editing
<1>10. QED
  BY <1>2, <1>3, <1>4, <1>5, <1>6, <1>7, <1>8, <1>9, AccSteps DEF Advance

(* The edits of config.toml in every behaviour of the sum.                    *)
LEMMA EditsInvariant == SiteSpec => []EditsInv
<1>1. SiteInit => EditsInv
  BY DEF SiteInit, Accounts!Init, EditsInv, Serial, Accounts!Editing
<1>2. AccType /\ EditsInv /\ [SiteNext]_allVars => EditsInv'
  <2>1. ASSUME EditsInv, UNCHANGED aVars PROVE EditsInv'
    BY <2>1 DEF aVars, EditsInv, Serial
  <2>2. QED
    BY <2>1, EditsStep DEF SiteNext, allVars
<1>3. QED
  BY <1>1, <1>2, AccTypeInvariant, PTL DEF SiteSpec, allVars

(* No edit is undone by another, unless two were ever between their read and  *)
(* their rename at once (edit_file and write_atomic, which take no lock).     *)
THEOREM NoEditLost == SiteSpec => []EditsSurvive
<1>1. EditsInv => EditsSurvive
  BY DEF EditsInv, Serial, EditsSurvive, Accounts!EditsSurvive
<1>2. QED
  BY <1>1, EditsInvariant, PTL


-------------------------------------------------------------------------------
(* An edit makes a document of a document.                                    *)
LEMMA EditedIsDocument ==
    ASSUME NEW d \in Accounts!Document, NEW r \in Accounts!Request, r.kind \in EditKinds,
           r.name \in Name, r.kind = "rename" => r.new \in Name,
           r.kind \in {"setup", "add", "password", "own", "redeem"} => r.pwd \in Pwd
    PROVE  Accounts!Edited(r, d) \in Accounts!Document
<1> USE DEF Accounts!Document
<1>1. Accounts!AddUser(r, d) \in Accounts!Document
      /\ Accounts!SetPassword(r, d) \in Accounts!Document
  BY DEF Accounts!AddUser, Accounts!SetPassword, Accounts!Request
<1>2. Accounts!CompleteSetup(r, d) \in Accounts!Document
  BY <1>1 DEF Accounts!CompleteSetup
<1>3. Accounts!RemoveUser(r, d) \in Accounts!Document
      /\ Accounts!SetQuota(r, d) \in Accounts!Document
  BY DEF Accounts!RemoveUser, Accounts!SetQuota
<1>4. r.kind = "rename" => Accounts!RenameUser(r, d) \in Accounts!Document
  BY DEF Accounts!RenameUser
<1>5. QED
  BY <1>1, <1>2, <1>3, <1>4 DEF Accounts!Edited, EditKinds

(* The document that all the edits make together is one.                      *)
LEMMA IdealStep ==
    ASSUME AccType, ideal \in Accounts!Document, Accounts!Next
    PROVE  ideal' \in Accounts!Document
<1>1. ASSUME NEW t \in Thread, Accounts!TempRename(t) PROVE ideal' \in Accounts!Document
  <2>1. aPc[t] = "swap" /\ Meaning(t)
    BY <1>1 DEF AccType, Accounts!TempRename
  <2>2. Accounts!Edited(aReq[t], ideal) \in Accounts!Document
    BY <2>1, EditedIsDocument DEF Meaning, Accounts!Editing
  <2>3. QED
    BY <1>1, <2>2 DEF Accounts!TempRename
<1>2. ASSUME NEW t \in Thread, Advance(t), ~Accounts!TempRename(t) PROVE ideal' = ideal
  BY <1>2 DEF Advance, Accounts!Stay, Accounts!RedeemProceed, Accounts!EditRead,
              Accounts!TempCreate, Accounts!TempWrite, Accounts!ReloadRead,
              Accounts!ReloadUsers, Accounts!ReloadQuotas, Accounts!ReloadAdmin,
              Accounts!RedeemConsume
<1>3. QED
  BY <1>1, <1>2, AccSteps DEF Taken, Ended, Bystander

(* A request that still edits the file or replaces live tables.               *)
Busy(t) == aPc[t] \in Accounts!Editing \/ Accounts!Unsettled(t)

(* What has been replaced so far is what the file says.                       *)
Follows(t) ==
    /\ aPc[t] \in {"users", "quotas", "admin"} => copy[t] = ideal
    /\ Accounts!Unsettled(t) =>
         /\ aPc[t] \in {"quotas", "admin", "finish"} => users = ideal.users
         /\ aPc[t] \in {"admin", "finish"} => quotas = ideal.quotas
         /\ aPc[t] = "finish" => admin = ideal.admin
         /\ aReq[t].kind = "quota" => (aReq[t].name \in ideal.quotas <=> aReq[t].cap)

Settled == users = ideal.users /\ quotas = ideal.quotas /\ admin = ideal.admin

(* One request at a time is busy, and nobody is where the tables are settled. *)
OneByOne ==
    /\ \A t, u \in Thread : Busy(t) /\ Busy(u) => t = u
    /\ (\A t \in Thread : ~Accounts!Unsettled(t)) => Settled
    /\ \A t \in Thread : Follows(t)

LiveInv ==
    /\ ideal \in Accounts!Document
    /\ "edit" \in met => "reload" \in met
    /\ met \intersect {"reload", "fault"} = {} => OneByOne

(* Steps that leave the tables and the busy requests alone.                   *)
LEMMA OneByOneKept ==
    ASSUME OneByOne, UNCHANGED <<ideal, users, quotas, admin>>,
           \A t \in Thread : Accounts!Unsettled(t) => Accounts!Unsettled(t)',
           \A t \in Thread : Busy(t)' =>
               /\ Busy(t) /\ (Accounts!Unsettled(t)' => Accounts!Unsettled(t))
               /\ aReq'[t] = aReq[t]
               /\ aPc[t] \in Accounts!Editing \/ (aPc'[t] = aPc[t] /\ copy'[t] = copy[t])
    PROVE  OneByOne'
<1>1. ASSUME NEW t \in Thread PROVE Follows(t)'
  BY DEF OneByOne, Follows, Busy, Accounts!Unsettled, Accounts!Editing, Accounts!Reloading
<1>2. QED
  BY <1>1 DEF OneByOne, Settled

(* What the steps of the reload and the renaming have in common: their thread *)
(* was and is the only busy one.                                              *)
LEMMA OneByOneMoved ==
    ASSUME AccType, OneByOne, NEW t \in Thread, Busy(t), NEW label,
           aPc' = [aPc EXCEPT ![t] = label], aReq' = aReq,
           Follows(t)', ~Accounts!Unsettled(t)' => Settled'
    PROVE  OneByOne'
<1>1. ASSUME NEW u \in Thread, u # t PROVE ~Busy(u)' /\ Follows(u)'
  <2>1. ~Busy(u) /\ aPc'[u] = aPc[u]
    BY <1>1 DEF AccType, OneByOne
  <2>2. QED
    BY <2>1 DEF Busy, Follows, Accounts!Unsettled, Accounts!Reloading
<1>2. QED
  BY <1>1 DEF OneByOne

(* Every step keeps the requests one by one, or notes that they were not.     *)
LEMMA LiveStep ==
    ASSUME AccType, EditsInv, LiveInv, Accounts!Next
    PROVE  LiveInv'
<1> USE DEF Accounts!Stay, Accounts!files, Accounts!live, Accounts!Goto
<1>1. "edit" \in met' => "reload" \in met'
  <2>1. ASSUME NEW t \in Thread, Advance(t) PROVE "edit" \in met' => "reload" \in met'
    BY <2>1 DEF LiveInv, Advance, Accounts!Consume, Accounts!RedeemProceed,
                Accounts!EditRead, Accounts!TempCreate, Accounts!TempWrite,
                Accounts!TempRename, Accounts!ReloadRead, Accounts!ReloadUsers,
                Accounts!ReloadQuotas, Accounts!ReloadAdmin, Accounts!RedeemConsume
  <2>2. QED
    BY <2>1, AccSteps DEF LiveInv, Taken, Ended, Bystander
<1>2. SUFFICES ASSUME met' \intersect {"reload", "fault"} = {} PROVE OneByOne'
  BY <1>1, IdealStep DEF LiveInv
<1>3. /\ met \intersect {"reload", "fault"} = {} /\ OneByOne /\ "edit" \notin met /\ Serial
      /\ ideal \in Accounts!Document
  <2>1. met \intersect {"reload", "fault"} = {}
    BY <1>2, AccNoted
  <2>2. QED
    BY <2>1 DEF LiveInv, EditsInv
<1>4. ASSUME NEW t \in Thread, NEW r, NEW label, Taken(t, r, label) PROVE OneByOne'
  <2>1. \A u \in Thread : /\ Busy(u)' <=> Busy(u)
                          /\ Accounts!Unsettled(u)' <=> Accounts!Unsettled(u)
                          /\ Busy(u) => aPc'[u] = aPc[u] /\ aReq'[u] = aReq[u]
    BY <1>4 DEF AccType, Taken, Busy, Accounts!Unsettled, Accounts!Editing, Accounts!Reloading
  <2>2. QED
    BY <1>3, <1>4, <2>1, OneByOneKept DEF Taken
<1>5. ASSUME NEW t \in Thread, Ended(t) PROVE OneByOne'
  <2>1. \A u \in Thread : u # t => aPc'[u] = aPc[u] /\ aReq'[u] = aReq[u] /\ copy'[u] = copy[u]
    BY <1>5 DEF AccType, Ended, Accounts!Done
  <2>2. aPc'[t] = "idle" /\ ~Busy(t)' /\ ~Accounts!Unsettled(t)'
    BY <1>5 DEF AccType, Ended, Accounts!Done, Busy, Accounts!Unsettled, Accounts!Editing,
                Accounts!Reloading
  <2>3. aPc[t] \notin Accounts!Reloading
    BY <1>2, <1>5 DEF Ended
  <2>4. UNCHANGED <<ideal, users, admin, quotas>>
    <3>1. CASE aPc[t] = "finish" /\ aReq[t].kind = "quota"
      <4>1. aReq[t].name \in quotas <=> aReq[t].cap
        BY <1>3, <3>1 DEF OneByOne, Follows, Accounts!Unsettled
      <4>2. quotas' = quotas
        BY <1>5, <3>1, <4>1 DEF Ended, Accounts!CapLive
      <4>3. QED
        BY <1>5, <4>2 DEF Ended
    <3>2. QED
      BY <1>5, <3>1 DEF Ended
  <2>5. CASE Accounts!Unsettled(t)
    <3>1. Settled /\ \A u \in Thread : u # t => ~Busy(u)
      BY <1>3, <2>3, <2>5 DEF OneByOne, Follows, Settled, Busy, Accounts!Unsettled
    <3>2. \A u \in Thread : ~Busy(u)' /\ ~Accounts!Unsettled(u)' /\ Follows(u)'
      BY <2>1, <2>2, <3>1 DEF Busy, Follows, Accounts!Unsettled, Accounts!Reloading
    <3>3. QED
      BY <2>4, <3>1, <3>2 DEF OneByOne, Settled
  <2>6. CASE ~Accounts!Unsettled(t)
    <3>1. \A u \in Thread : /\ Accounts!Unsettled(u)' <=> Accounts!Unsettled(u)
                            /\ Busy(u)' => Busy(u) /\ u # t
      BY <2>1, <2>2, <2>6 DEF Busy, Accounts!Unsettled
    <3>2. QED
      BY <1>3, <2>1, <2>4, <3>1, OneByOneKept
  <2>7. QED
    BY <2>5, <2>6
<1>6. CASE Bystander
  BY <1>3, <1>6, OneByOneKept DEF Bystander, Busy, Accounts!Unsettled
<1>7. ASSUME NEW t \in Thread, \/ Accounts!RedeemProceed(t) \/ Accounts!RedeemConsume(t)
                               \/ Accounts!TempCreate(t) \/ Accounts!TempWrite(t)
      PROVE  OneByOne'
  <2>1. /\ UNCHANGED <<ideal, users, quotas, admin, aReq, copy>>
        /\ \A u \in Thread : /\ Accounts!Unsettled(u)' <=> Accounts!Unsettled(u)
                             /\ Busy(u)' => Busy(u)
                             /\ aPc[u] \in Accounts!Editing \/ ~Busy(u) \/ aPc'[u] = aPc[u]
    BY <1>7 DEF AccType, Meaning, Accounts!RedeemProceed, Accounts!RedeemConsume,
                Accounts!TempCreate, Accounts!TempWrite, Busy, Accounts!Unsettled,
                Accounts!Editing, Accounts!Reloading
  <2>2. QED
    BY <1>3, <2>1, OneByOneKept
<1>8. ASSUME NEW t \in Thread, Accounts!EditRead(t) PROVE OneByOne'
  <2>1. /\ \A u \in Thread : ~Busy(u)
        /\ aPc' = [aPc EXCEPT ![t] = "create"]
        /\ UNCHANGED <<ideal, users, quotas, admin, aReq>>
    BY <1>2, <1>8 DEF Accounts!EditRead, Busy
  <2>2. Settled
    BY <1>3, <2>1 DEF OneByOne, Busy
  <2>3. \A u \in Thread : u # t => ~Busy(u)'
    BY <2>1 DEF AccType, Busy, Accounts!Unsettled
  <2>4. \A u \in Thread : ~Accounts!Unsettled(u)' /\ aPc'[u] \notin {"users", "quotas", "admin"}
    BY <2>1 DEF AccType, Busy, Accounts!Unsettled, Accounts!Reloading
  <2>5. QED
    BY <2>1, <2>2, <2>3, <2>4 DEF OneByOne, Follows, Settled
<1>9. ASSUME NEW t \in Thread, Accounts!TempRename(t) PROVE OneByOne'
  <2>1. /\ aPc[t] = "swap" /\ Busy(t) /\ ideal' = Accounts!Edited(aReq[t], ideal)
        /\ aPc' = [aPc EXCEPT ![t] = "reload"] /\ aReq' = aReq
    BY <1>3, <1>9 DEF Serial, Busy, Accounts!TempRename, Accounts!Editing
  <2>2. aReq[t].kind = "quota" => (aReq[t].name \in ideal'.quotas <=> aReq[t].cap)
    BY <1>3, <2>1 DEF Accounts!Edited, Accounts!SetQuota, Accounts!Document
  <2>3. Follows(t)' /\ Accounts!Unsettled(t)'
    BY <2>1, <2>2 DEF AccType, Follows, Accounts!Unsettled, Accounts!Reloading
  <2>4. QED
    BY <1>3, <2>1, <2>3, OneByOneMoved
<1>10. ASSUME NEW t \in Thread, Accounts!ReloadRead(t) PROVE OneByOne'
  <2>1. /\ aPc[t] = "reload" /\ Busy(t) /\ Accounts!Unsettled(t)
        /\ aPc' = [aPc EXCEPT ![t] = "users"] /\ UNCHANGED <<aReq, ideal, users, quotas, admin>>
    BY <1>10 DEF Busy, Accounts!Unsettled, Accounts!Reloading, Accounts!ReloadRead
  <2>2. Accounts!Readings(config) = {ideal}
    BY <1>3, WholeReads DEF Serial
  <2>3. copy' = [copy EXCEPT ![t] = ideal]
    BY <1>10, <2>2 DEF Accounts!ReloadRead
  <2>4. Follows(t)' /\ Accounts!Unsettled(t)'
    BY <1>3, <2>1, <2>3 DEF AccType, OneByOne, Follows, Accounts!Unsettled, Accounts!Reloading
  <2>5. QED
    BY <1>3, <2>1, <2>4, OneByOneMoved
<1>11. ASSUME NEW t \in Thread,
              Accounts!ReloadUsers(t) \/ Accounts!ReloadQuotas(t) \/ Accounts!ReloadAdmin(t)
       PROVE  OneByOne'
  <2>1. /\ Busy(t) /\ Accounts!Unsettled(t) /\ Follows(t) /\ copy[t] = ideal
        /\ UNCHANGED <<aReq, ideal>>
    BY <1>3, <1>11 DEF OneByOne, Follows, Busy, Accounts!Unsettled, Accounts!Reloading,
                       Accounts!ReloadUsers, Accounts!ReloadQuotas, Accounts!ReloadAdmin
  <2>2. PICK label \in {"quotas", "admin", "finish"} : aPc' = [aPc EXCEPT ![t] = label]
    BY <1>11 DEF Accounts!ReloadUsers, Accounts!ReloadQuotas, Accounts!ReloadAdmin
  <2>3. /\ Follows(t)'
        /\ ~Accounts!Unsettled(t)' => Settled'
    BY <1>11, <2>1
       DEF AccType, Follows, Settled, Accounts!Unsettled, Accounts!Reloading,
           Accounts!ReloadUsers, Accounts!ReloadQuotas, Accounts!ReloadAdmin
  <2>4. QED
    BY <1>3, <2>1, <2>2, <2>3, OneByOneMoved
<1>12. QED
  BY <1>4, <1>5, <1>6, <1>7, <1>8, <1>9, <1>10, <1>11, AccSteps DEF Advance

(* The live tables in every behaviour of the sum.                             *)
LEMMA LiveInvariant == SiteSpec => []LiveInv
<1>1. SiteInit => LiveInv
  <2>1. ASSUME Accounts!Init PROVE LiveInv
    <3>1. Accounts!Blank \in Accounts!Document
      BY DEF Accounts!Blank, Accounts!Document
    <3>2. ideal \in Accounts!Document
      <4>1. \/ ideal = Accounts!Blank
            \/ \E n \in Name, p \in Pwd : ideal = SetUpBy(n, p)
        BY <2>1, Zenon DEF Accounts!Init, SetUpBy, Founder
      <4>2. QED
        BY <3>1, <4>1, SetupMakes
    <3>3. OneByOne
      BY <2>1 DEF Accounts!Init, OneByOne, Follows, Settled, Busy, Accounts!Unsettled,
                  Accounts!Editing, Accounts!Reloading
    <3>4. QED
      BY <2>1, <3>2, <3>3 DEF Accounts!Init, LiveInv
  <2>2. QED
    BY <2>1 DEF SiteInit
<1>2. AccType /\ EditsInv /\ LiveInv /\ [SiteNext]_allVars => LiveInv'
  <2>1. ASSUME LiveInv, UNCHANGED aVars PROVE LiveInv'
    BY <2>1 DEF aVars, LiveInv, OneByOne, Follows, Settled, Busy, Accounts!Unsettled
  <2>2. QED
    BY <2>1, LiveStep DEF SiteNext, allVars
<1>3. QED
  BY <1>1, <1>2, AccTypeInvariant, EditsInvariant, PTL DEF SiteSpec, allVars

(* The live tables are those of the file whenever nobody replaces them, as    *)
(* long as the requests edit and reload one after another                     *)
(* (reload_users_quotas, set_quota_live).                                     *)
THEOREM LiveIsFile == SiteSpec => []LiveFollowsFile
<1>1. LiveInv => LiveFollowsFile
  <2>1. ASSUME ideal \in Accounts!Document, Settled
        PROVE  [users |-> users, quotas |-> quotas, admin |-> admin] = ideal
    BY <2>1 DEF Accounts!Document, Settled
  <2>2. QED
    BY <2>1 DEF LiveInv, OneByOne, LiveFollowsFile, Accounts!LiveFollowsFile
<1>2. QED
  BY <1>1, LiveInvariant, PTL


-------------------------------------------------------------------------------
(* Invitations: from the lookup of a token to the end of the request, ...     *)
Redeeming(t) == aPc[t] # "idle" /\ aReq[t].kind = "redeem"

(* ... and from the read of the file to the invitation's removal.             *)
Holder(t) ==
    Redeeming(t) /\ aPc[t] \in Accounts!Editing \union Accounts!Reloading \union {"finish"}

(* A token that is being redeemed was issued, for this name.                  *)
TokenInv ==
    /\ \A t \in Thread : Redeeming(t) => invite[aReq[t].tok] \in {aReq[t].name, Gone}
    /\ \A t, u \in Thread :
           Redeeming(t) /\ Redeeming(u) /\ aReq[t].tok = aReq[u].tok => aReq[t].name = aReq[u].name
    /\ \A k \in Token : used[k] > 0 => invite[k] # None
    /\ "fault" \notin met => \A k \in Token : used[k] > 0 => invite[k] = Gone

(* Invitations are issued once and end for good.                              *)
Moves(k) ==
    \/ invite'[k] = invite[k]
    \/ invite[k] \in Name /\ invite'[k] = Gone
    \/ invite[k] = None /\ invite'[k] \in Name

(* So they do in every step.                                                  *)
LEMMA InviteMoves ==
    ASSUME AccType, Accounts!Next, NEW k \in Token
    PROVE  Moves(k)
<1>1. ASSUME NEW t \in Thread, Advance(t) PROVE Moves(k)
  BY <1>1 DEF AccType, Moves, Advance, Accounts!Stay, Accounts!Consume, Accounts!RedeemProceed,
              Accounts!EditRead, Accounts!TempCreate, Accounts!TempWrite, Accounts!TempRename,
              Accounts!ReloadRead, Accounts!ReloadUsers, Accounts!ReloadQuotas,
              Accounts!ReloadAdmin, Accounts!RedeemConsume
<1>2. CASE Bystander
  BY <1>2, AccConstants DEF AccType, Bystander, Moves
<1>3. QED
  BY <1>1, <1>2, AccSteps DEF Moves, Taken, Ended

(* Redeeming requests keep their token while they last.                       *)
LEMMA TokenKept ==
    ASSUME AccType, TokenInv, used' = used, \A k \in Token : Moves(k), met \subseteq met',
           \A t \in Thread : Redeeming(t)' => Redeeming(t) /\ aReq'[t] = aReq[t]
    PROVE  TokenInv'
<1>1. \A t \in Thread : Redeeming(t) => aReq[t].tok \in Token /\ aReq[t].name \in Name
  BY DEF AccType, Meaning, Redeeming
<1>2. ASSUME NEW t \in Thread, Redeeming(t)' PROVE invite'[aReq'[t].tok] \in {aReq'[t].name, Gone}
  BY <1>1, <1>2, AccConstants DEF TokenInv, Moves
<1>3. ASSUME NEW t \in Thread, NEW u \in Thread, Redeeming(t)', Redeeming(u)',
             aReq'[t].tok = aReq'[u].tok
      PROVE  aReq'[t].name = aReq'[u].name
  BY <1>3 DEF TokenInv
<1>4. ASSUME NEW k \in Token, used'[k] > 0
      PROVE  invite'[k] # None /\ ("fault" \notin met' => invite'[k] = Gone)
  BY <1>4, AccConstants DEF TokenInv, Moves
<1>5. QED
  BY <1>2, <1>3, <1>4 DEF TokenInv

(* Steps on the way that do not take a token keep what is redeemed.           *)
LEMMA AdvanceKeeps ==
    ASSUME AccType, NEW t \in Thread, Advance(t), ~Accounts!RedeemConsume(t)
    PROVE  /\ used' = used /\ aReq' = aReq
           /\ \A u \in Thread : Redeeming(u)' <=> Redeeming(u)
           /\ ~Accounts!EditRead(t) => \A u \in Thread : Holder(u)' => Holder(u)
<1> USE DEF Accounts!Stay, Accounts!Goto
<1>1. used' = used /\ aReq' = aReq /\ aPc[t] # "idle"
  BY DEF Advance, Accounts!RedeemProceed, Accounts!EditRead, Accounts!TempCreate,
         Accounts!TempWrite, Accounts!TempRename, Accounts!ReloadRead, Accounts!ReloadUsers,
         Accounts!ReloadQuotas, Accounts!ReloadAdmin
<1>2. PICK label \in {"edit", "finish"} \union Accounts!Editing \union Accounts!Reloading :
        aPc' = [aPc EXCEPT ![t] = label]
  BY DEF Advance, Accounts!RedeemProceed, Accounts!EditRead, Accounts!TempCreate,
         Accounts!TempWrite, Accounts!TempRename, Accounts!ReloadRead, Accounts!ReloadUsers,
         Accounts!ReloadQuotas, Accounts!ReloadAdmin, Accounts!Editing, Accounts!Reloading
<1>3. label # "idle"
  BY DEF Accounts!Editing, Accounts!Reloading
<1>4. \A u \in Thread : Redeeming(u)' <=> Redeeming(u)
  BY <1>1, <1>2, <1>3 DEF AccType, Redeeming
<1>5. ASSUME ~Accounts!EditRead(t), NEW u \in Thread, Holder(u)' PROVE Holder(u)
  BY <1>1, <1>2, <1>5
     DEF AccType, Advance, Redeeming, Holder, Accounts!RedeemProceed, Accounts!TempCreate,
         Accounts!TempWrite, Accounts!TempRename, Accounts!ReloadRead, Accounts!ReloadUsers,
         Accounts!ReloadQuotas, Accounts!ReloadAdmin, Accounts!Editing, Accounts!Reloading
<1>6. QED
  BY <1>1, <1>4, <1>5

(* Every step keeps the tokens.                                               *)
LEMMA TokenStep ==
    ASSUME AccType, TokenInv, Accounts!Next
    PROVE  TokenInv'
<1>1. met \subseteq met' /\ \A k \in Token : Moves(k)
  BY AccNoted, InviteMoves
<1>2. ASSUME NEW t \in Thread, NEW r, NEW label, Taken(t, r, label) PROVE TokenInv'
  <2>1. \A u \in Thread : aPc'[u] = (IF u = t THEN label ELSE aPc[u])
                          /\ aReq'[u] = (IF u = t THEN r ELSE aReq[u])
    BY <1>2 DEF AccType, Taken
  <2>2. CASE r.kind # "redeem"
    <3>1. \A u \in Thread : Redeeming(u)' => Redeeming(u) /\ aReq'[u] = aReq[u]
      BY <2>1, <2>2 DEF Redeeming
    <3>2. QED
      BY <1>1, <1>2, <3>1, TokenKept DEF Taken
  <2>3. CASE r.kind = "redeem"
    <3>1. /\ r.tok \in Token /\ invite[r.tok] = r.name /\ r.name \in Name
          /\ invite' = invite /\ used' = used
      BY <1>2, <2>3 DEF Taken, EditKinds
    <3>2. \A u \in Thread : u # t => /\ Redeeming(u)' <=> Redeeming(u)
                                     /\ aReq'[u] = aReq[u]
      BY <2>1 DEF Redeeming
    <3>3. \A u \in Thread : Redeeming(u)' /\ aReq'[u].tok = r.tok => aReq'[u].name = r.name
      BY <2>1, <3>1, <3>2, AccConstants DEF TokenInv
    <3>4. QED
      BY <1>1, <2>1, <3>1, <3>2, <3>3 DEF TokenInv
  <2>4. QED
    BY <2>2, <2>3
<1>3. ASSUME NEW t \in Thread, Ended(t) PROVE TokenInv'
  <2>1. \A u \in Thread : Redeeming(u)' => Redeeming(u) /\ aReq'[u] = aReq[u]
    BY <1>3 DEF AccType, Ended, Accounts!Done, Redeeming
  <2>2. QED
    BY <1>1, <1>3, <2>1, TokenKept DEF Ended
<1>4. CASE Bystander
  BY <1>1, <1>4, TokenKept DEF Bystander, Redeeming
<1>5. ASSUME NEW t \in Thread, Advance(t), ~Accounts!RedeemConsume(t) PROVE TokenInv'
  BY <1>1, <1>5, AdvanceKeeps, TokenKept
<1>6. ASSUME NEW t \in Thread, Accounts!RedeemConsume(t) PROVE TokenInv'
  <2>1. /\ aPc[t] = "finish" /\ aReq[t].kind = "redeem" /\ Accounts!Consume(aReq[t].tok)
        /\ aPc' = [aPc EXCEPT ![t] = "settle"] /\ aReq' = aReq
        /\ used' = [used EXCEPT ![aReq[t].tok] = @ + 1]
    BY <1>6 DEF Accounts!RedeemConsume, Accounts!Goto
  <2> DEFINE k == aReq[t].tok
  <2>2. k \in Token /\ aReq[t].name \in Name /\ invite[k] \in {aReq[t].name, Gone}
    BY <2>1 DEF AccType, Meaning, TokenInv, Redeeming
  <2>3. invite'[k] # None /\ ("fault" \notin met' => invite'[k] = Gone)
    BY <2>1, <2>2, AccConstants DEF AccType, Accounts!Consume
  <2>4. \A u \in Thread : Redeeming(u)' <=> Redeeming(u)
    BY <2>1 DEF AccType, Redeeming
  <2>5. \A u \in Thread : Redeeming(u) => aReq[u].tok \in Token /\ aReq[u].name \in Name
    BY DEF AccType, Meaning, Redeeming
  <2>6. \A u \in Thread : Redeeming(u)' => invite'[aReq'[u].tok] \in {aReq'[u].name, Gone}
    BY <1>1, <2>1, <2>4, <2>5, AccConstants DEF TokenInv, Moves
  <2>7. \A j \in Token : used'[j] > 0 =>
            invite'[j] # None /\ ("fault" \notin met' => invite'[j] = Gone)
    <3>1. ASSUME NEW j \in Token, used'[j] > 0, j # k
          PROVE  invite'[j] # None /\ ("fault" \notin met' => invite'[j] = Gone)
      <4>1. used'[j] = used[j]
        BY <2>1, <3>1 DEF AccType
      <4>2. QED
        BY <1>1, <3>1, <4>1, AccConstants DEF TokenInv, Moves
    <3>2. QED
      BY <2>3, <3>1
  <2>8. QED
    BY <2>1, <2>4, <2>6, <2>7 DEF TokenInv
<1>7. QED
  BY <1>2, <1>3, <1>4, <1>5, <1>6, AccSteps

(* The tokens in every behaviour of the sum.                                  *)
LEMMA TokenInvariant == SiteSpec => []TokenInv
<1>1. SiteInit => TokenInv
  BY DEF SiteInit, Accounts!Init, TokenInv, Redeeming
<1>2. AccType /\ TokenInv /\ [SiteNext]_allVars => TokenInv'
  <2>1. ASSUME TokenInv, UNCHANGED aVars PROVE TokenInv'
    BY <2>1 DEF aVars, TokenInv, Redeeming
  <2>2. QED
    BY <2>1, TokenStep DEF SiteNext, allVars
<1>3. QED
  BY <1>1, <1>2, AccTypeInvariant, PTL DEF SiteSpec, allVars

(* A granted invitation is no longer pending, unless the store could not be   *)
(* written (invites::redeem, whose error handle_invite_redeem drops).         *)
THEOREM GrantsAreSpent == SiteSpec => []GrantedIsSpent
<1>1. TokenInv => GrantedIsSpent
  BY DEF TokenInv, GrantedIsSpent, Accounts!GrantedIsSpent
<1>2. QED
  BY <1>1, TokenInvariant, PTL


(* Whom an edit makes, keeps and leaves without an account.                   *)
LEMMA EditedHas ==
    ASSUME NEW d \in Accounts!Document, NEW r \in Accounts!Request, r.kind \in EditKinds,
           r.name \in Name,
           r.kind \in {"setup", "add", "password", "own", "redeem"} => r.pwd \in Pwd
    PROVE  /\ r.kind \in {"setup", "add", "redeem"} =>
                  Accounts!Has(Accounts!Edited(r, d), r.name)
           /\ \A n \in Name :
                  r.kind # "rename" /\ (r.kind = "remove" => n # r.name) /\ Accounts!Has(d, n)
                      => Accounts!Has(Accounts!Edited(r, d), n)
<1> USE AccConstants DEF Accounts!Has, Accounts!Document
<1>1. \A n \in Name : /\ Accounts!AddUser(r, d).users[n] = IF n = r.name THEN r.pwd ELSE d.users[n]
                      /\ Accounts!SetPassword(r, d).users[n]
                           = IF n = r.name THEN r.pwd ELSE d.users[n]
                      /\ Accounts!CompleteSetup(r, d).users[n]
                           = IF n = r.name THEN r.pwd ELSE d.users[n]
                      /\ Accounts!RemoveUser(r, d).users[n]
                           = IF n = r.name THEN None ELSE d.users[n]
                      /\ Accounts!SetQuota(r, d).users[n] = d.users[n]
  BY DEF Accounts!AddUser, Accounts!SetPassword, Accounts!CompleteSetup, Accounts!RemoveUser,
         Accounts!SetQuota
<1>2. QED
  BY <1>1 DEF Accounts!Edited, EditKinds

-------------------------------------------------------------------------------
(* What a token that was granted leaves behind: the account it was for, which *)
(* every other redemption of it finds.                                        *)
Once ==
    /\ \A k \in Token : used[k] <= 1
    /\ \A k \in Token : used[k] > 0 /\ invite[k] \in Name => Accounts!Has(ideal, invite[k])
    /\ \A t \in Thread :
           Redeeming(t) /\ used[aReq[t].tok] > 0 => Accounts!Has(ideal, aReq[t].name)
    /\ \A t, u \in Thread : Holder(t) /\ Holder(u) /\ aReq[t].tok = aReq[u].tok => t = u
    /\ \A t \in Thread : Holder(t) => used[aReq[t].tok] = 0
    /\ \A t \in Thread :
           Holder(t) /\ aPc[t] \notin Accounts!Editing => Accounts!Has(ideal, aReq[t].name)

OnceInv == met \intersect {"edit", "removal"} = {} => Once

(* Steps that make and remove no account and grant nothing.                   *)
LEMMA OnceKept ==
    ASSUME AccType, TokenInv, Once, used' = used, \A k \in Token : Moves(k),
           \A n \in Name : Accounts!Has(ideal, n) => Accounts!Has(ideal, n)',
           \A t \in Thread : Redeeming(t)' => Redeeming(t) /\ aReq'[t] = aReq[t],
           \A t \in Thread : Holder(t)' =>
               /\ Holder(t)
               /\ aPc'[t] \notin Accounts!Editing =>
                      aPc[t] \notin Accounts!Editing \/ Accounts!Has(ideal, aReq[t].name)'
    PROVE  Once'
<1>1. \A t \in Thread : Redeeming(t) => aReq[t].tok \in Token /\ aReq[t].name \in Name
  BY DEF AccType, Meaning, Redeeming
<1>2. \A t \in Thread : Holder(t)' => Redeeming(t)' /\ aReq'[t] = aReq[t]
  BY DEF Holder
<1>3. \A k \in Token : used[k] > 0 /\ invite'[k] \in Name => invite'[k] = invite[k]
  BY AccConstants DEF TokenInv, Moves
<1>4. \A k \in Token : used[k] > 0 /\ invite'[k] \in Name => Accounts!Has(ideal, invite[k])'
  BY <1>3 DEF Once
<1>5. \A t \in Thread :
          Redeeming(t)' /\ used[aReq[t].tok] > 0 => Accounts!Has(ideal, aReq[t].name)'
  BY <1>1 DEF Once
<1>6. QED
  BY <1>1, <1>2, <1>3, <1>4, <1>5 DEF Once, Accounts!Has

(* Every step keeps granted tokens spent, or notes what happened meanwhile.   *)
LEMMA OnceStep ==
    ASSUME AccType, EditsInv, LiveInv, TokenInv, OnceInv, Accounts!Next
    PROVE  OnceInv'
<1> SUFFICES ASSUME met' \intersect {"edit", "removal"} = {} PROVE Once'
  BY DEF OnceInv
<1>1. met \intersect {"edit", "removal"} = {}
  BY AccNoted
<1>2. Once /\ Serial /\ ideal \in Accounts!Document
  BY <1>1 DEF OnceInv, EditsInv, LiveInv
<1>3. \A k \in Token : Moves(k)
  BY InviteMoves
<1>4. \A t \in Thread : Redeeming(t) => aReq[t].tok \in Token /\ aReq[t].name \in Name
  BY DEF AccType, Meaning, Redeeming
<1>5. ASSUME ideal' = ideal
      PROVE  \A n \in Name : Accounts!Has(ideal, n) => Accounts!Has(ideal, n)'
  BY <1>5 DEF Accounts!Has
<1>6. ASSUME NEW t \in Thread, NEW r, NEW label, Taken(t, r, label) PROVE Once'
  <2>1. \A u \in Thread : aPc'[u] = (IF u = t THEN label ELSE aPc[u])
                          /\ aReq'[u] = (IF u = t THEN r ELSE aReq[u])
    BY <1>6 DEF AccType, Taken
  <2>2. UNCHANGED <<ideal, used, invite>>
    BY <1>6 DEF Taken
  <2>3. ~Holder(t)' /\ \A u \in Thread : u # t => /\ Holder(u)' <=> Holder(u)
                                                  /\ Redeeming(u)' <=> Redeeming(u)
    BY <1>6, <2>1 DEF Taken, Holder, Redeeming, Accounts!Editing, Accounts!Reloading
  <2>4. Redeeming(t)' => r.tok \in Token /\ invite[r.tok] = r.name /\ r.name \in Name
    BY <1>6, <2>1 DEF Taken, EditKinds, Redeeming
  <2>5. \A u \in Thread :
            Redeeming(u)' /\ used[aReq'[u].tok] > 0 => Accounts!Has(ideal, aReq'[u].name)
    BY <1>2, <2>1, <2>3, <2>4 DEF Once
  <2>6. QED
    BY <1>2, <2>1, <2>2, <2>3, <2>5 DEF Once, Holder, Accounts!Has
<1>7. ASSUME NEW t \in Thread, Ended(t) PROVE Once'
  <2>1. \A u \in Thread : /\ Redeeming(u)' => Redeeming(u) /\ aReq'[u] = aReq[u]
                          /\ Holder(u)' => Holder(u) /\ aPc'[u] = aPc[u]
    BY <1>7 DEF AccType, Ended, Accounts!Done, Redeeming, Holder
  <2>2. QED
    BY <1>2, <1>3, <1>5, <1>7, <2>1, OnceKept DEF Ended
<1>8. CASE Bystander
  BY <1>2, <1>3, <1>5, <1>8, OnceKept DEF Bystander, Redeeming, Holder
<1>9. ASSUME NEW t \in Thread, Advance(t), ~Accounts!RedeemConsume(t),
             ~Accounts!EditRead(t), ~Accounts!TempRename(t)
      PROVE  Once'
  <2>1. ideal' = ideal
    BY <1>9 DEF Advance, Accounts!Stay, Accounts!RedeemProceed, Accounts!TempCreate,
                Accounts!TempWrite, Accounts!ReloadRead, Accounts!ReloadUsers,
                Accounts!ReloadQuotas, Accounts!ReloadAdmin
  <2>2. \A u \in Thread : aPc'[u] \notin Accounts!Editing =>
            aPc[u] \notin Accounts!Editing
    BY <1>9 DEF AccType, Advance, Accounts!Goto, Accounts!RedeemProceed, Accounts!TempCreate,
                Accounts!TempWrite, Accounts!ReloadRead, Accounts!ReloadUsers,
                Accounts!ReloadQuotas, Accounts!ReloadAdmin, Accounts!Editing
  <2>3. QED
    BY <1>2, <1>3, <1>5, <1>9, <2>1, <2>2, AdvanceKeeps, OnceKept
<1>10. ASSUME NEW t \in Thread, Accounts!EditRead(t) PROVE Once'
  <2>1. /\ Accounts!EditOk(aReq[t], ideal) /\ aPc' = [aPc EXCEPT ![t] = "create"]
        /\ UNCHANGED <<ideal, used, invite, aReq>>
    <3>1. Accounts!Readings(config) = {ideal}
      BY <1>2, WholeReads DEF Serial
    <3>2. QED
      BY <1>10, <3>1 DEF Accounts!EditRead, Accounts!Stay, Accounts!Goto
  <2>2. ~Accounts!RedeemConsume(t) /\ Advance(t)
    BY <1>10 DEF Accounts!RedeemConsume, Accounts!EditRead, Advance
  <2>3. \A u \in Thread : u # t => (Holder(u)' <=> Holder(u)) /\ aPc'[u] = aPc[u]
    BY <2>1 DEF AccType, Holder, Redeeming
  <2>4. CASE aReq[t].kind # "redeem"
    <3>1. \A u \in Thread : Holder(u)' => Holder(u) /\ aPc'[u] = aPc[u]
      BY <2>1, <2>3, <2>4 DEF Holder, Redeeming
    <3>2. QED
      BY <1>2, <1>3, <1>5, <2>1, <2>2, <3>1, AdvanceKeeps, OnceKept
  <2>5. CASE aReq[t].kind = "redeem"
    <3>1. Redeeming(t) /\ ~Accounts!Has(ideal, aReq[t].name)
      BY <1>10, <2>1, <2>5 DEF Redeeming, Accounts!EditRead, Accounts!EditOk
    <3>2. ~(used[aReq[t].tok] > 0) /\ used[aReq[t].tok] \in Nat
      BY <1>2, <1>4, <3>1 DEF AccType, Once
    <3>3. \A u \in Thread : Holder(u) => aReq[u].tok # aReq[t].tok
      <4>1. ASSUME NEW u \in Thread, Holder(u), aReq[u].tok = aReq[t].tok PROVE FALSE
        <5>1. aReq[u].name = aReq[t].name /\ Redeeming(u)
          BY <3>1, <4>1 DEF TokenInv, Holder
        <5>2. aPc[u] \in Accounts!Editing
          BY <1>2, <3>1, <4>1, <5>1 DEF Once
        <5>3. QED
          BY <1>10, <5>2 DEF Accounts!EditRead
      <4>2. QED
        BY <4>1
    <3>4. aPc'[t] \in Accounts!Editing /\ \A u \in Thread : Redeeming(u)' <=> Redeeming(u)
      BY <2>1, <2>2, AdvanceKeeps DEF AccType, Accounts!Editing
    <3>5. \A u, v \in Thread :
              Holder(u)' /\ Holder(v)' /\ aReq'[u].tok = aReq'[v].tok => u = v
      BY <1>2, <2>1, <2>3, <3>3 DEF Once
    <3>6. \A u \in Thread : Holder(u)' =>
              /\ used'[aReq'[u].tok] = 0
              /\ aPc'[u] \notin Accounts!Editing => Accounts!Has(ideal, aReq'[u].name)
      BY <1>2, <2>1, <2>3, <3>2, <3>4 DEF Once
    <3>7. QED
      BY <1>2, <2>1, <3>4, <3>5, <3>6 DEF Once, Accounts!Has
  <2>6. QED
    BY <2>4, <2>5
<1>11. ASSUME NEW t \in Thread, Accounts!TempRename(t) PROVE Once'
  <2>1. /\ aPc[t] = "swap" /\ ideal' = Accounts!Edited(aReq[t], ideal)
        /\ aPc' = [aPc EXCEPT ![t] = "reload"] /\ aReq' = aReq
        /\ aReq[t].kind \notin {"remove", "rename"}
    BY <1>2, <1>11 DEF Serial, Accounts!TempRename, Accounts!Goto, Accounts!Editing
  <2>2. Meaning(t) /\ aPc[t] \in Accounts!Editing
    BY <2>1 DEF AccType, Accounts!Editing
  <2>3. /\ aReq[t].kind = "redeem" => Accounts!Has(ideal, aReq[t].name)'
        /\ \A n \in Name : Accounts!Has(ideal, n) => Accounts!Has(ideal, n)'
    <3>1. /\ aReq[t].kind \in {"setup", "add", "redeem"} =>
               Accounts!Has(Accounts!Edited(aReq[t], ideal), aReq[t].name)
          /\ \A n \in Name : Accounts!Has(ideal, n) =>
                                 Accounts!Has(Accounts!Edited(aReq[t], ideal), n)
      BY <1>2, <2>1, <2>2, EditedHas DEF Meaning
    <3>2. QED
      BY <2>1, <3>1 DEF Accounts!Has
  <2>4. ~Accounts!RedeemConsume(t) /\ Advance(t) /\ ~Accounts!EditRead(t)
    BY <1>11 DEF Accounts!RedeemConsume, Accounts!EditRead, Accounts!TempRename, Advance
  <2>5. \A u \in Thread : Holder(u)' =>
            /\ Holder(u)
            /\ aPc'[u] \notin Accounts!Editing =>
                   aPc[u] \notin Accounts!Editing \/ Accounts!Has(ideal, aReq[u].name)'
    BY <2>1, <2>3, <2>4, AdvanceKeeps DEF AccType, Holder, Redeeming
  <2>6. QED
    BY <1>2, <1>3, <2>3, <2>4, <2>5, AdvanceKeeps, OnceKept
<1>12. ASSUME NEW t \in Thread, Accounts!RedeemConsume(t) PROVE Once'
  <2>1. /\ aPc[t] = "finish" /\ aReq[t].kind = "redeem" /\ Accounts!Consume(aReq[t].tok)
        /\ aPc' = [aPc EXCEPT ![t] = "settle"] /\ UNCHANGED <<aReq, ideal>>
        /\ used' = [used EXCEPT ![aReq[t].tok] = @ + 1]
    BY <1>12 DEF Accounts!RedeemConsume, Accounts!Goto
  <2> DEFINE k == aReq[t].tok
  <2>2. /\ Holder(t) /\ aPc[t] \notin Accounts!Editing /\ Redeeming(t)
        /\ k \in Token /\ aReq[t].name \in Name
    BY <1>4, <2>1 DEF Holder, Redeeming, Accounts!Editing
  <2>3. used[k] = 0 /\ Accounts!Has(ideal, aReq[t].name)
    BY <1>2, <2>2 DEF Once
  <2>4. \A j \in Token : used'[j] = IF j = k THEN 1 ELSE used[j]
    BY <2>1, <2>3 DEF AccType
  <2>5. ~Holder(t)' /\ \A u \in Thread : /\ Redeeming(u)' <=> Redeeming(u)
                                         /\ u # t => (Holder(u)' <=> Holder(u))
                                         /\ u # t => aPc'[u] = aPc[u]
    BY <2>1 DEF AccType, Holder, Redeeming, Accounts!Editing, Accounts!Reloading
  <2>6. \A u \in Thread : Holder(u)' => Holder(u) /\ Redeeming(u) /\ aReq[u].tok # k /\ u # t
    BY <1>2, <2>2, <2>5 DEF Once, Holder
  <2>7. \A j \in Token : used'[j] > 0 /\ invite'[j] \in Name => Accounts!Has(ideal, invite'[j])
    <3>1. ASSUME NEW j \in Token, used'[j] > 0, invite'[j] \in Name, j # k
          PROVE  Accounts!Has(ideal, invite'[j])
      BY <1>2, <1>3, <2>4, <3>1, AccConstants DEF Once, TokenInv, Moves
    <3>2. ASSUME invite'[k] \in Name PROVE Accounts!Has(ideal, invite'[k])
      <4>1. invite[k] \in {aReq[t].name, Gone}
        BY <2>2 DEF TokenInv
      <4>2. invite'[k] = aReq[t].name
        BY <1>3, <2>2, <3>2, <4>1, AccConstants DEF Moves
      <4>3. QED
        BY <2>3, <4>2
    <3>3. QED
      BY <3>1, <3>2
  <2>8. \A u \in Thread :
            Redeeming(u) /\ used'[aReq[u].tok] > 0 => Accounts!Has(ideal, aReq[u].name)
    <3>1. ASSUME NEW u \in Thread, Redeeming(u), aReq[u].tok = k
          PROVE  Accounts!Has(ideal, aReq[u].name)
      BY <2>2, <2>3, <3>1 DEF TokenInv
    <3>2. QED
      BY <1>2, <1>4, <2>4, <3>1 DEF Once
  <2>9. \A u \in Thread : Holder(u)' =>
            /\ used'[aReq[u].tok] = 0
            /\ aPc'[u] \notin Accounts!Editing => Accounts!Has(ideal, aReq[u].name)
    BY <1>2, <1>4, <2>4, <2>5, <2>6 DEF Once
  <2>10. \A u, v \in Thread : Holder(u)' /\ Holder(v)' /\ aReq[u].tok = aReq[v].tok => u = v
    BY <1>2, <2>6 DEF Once
  <2>11. \A j \in Token : used'[j] <= 1
    BY <1>2, <2>4 DEF Once
  <2>12. QED
    BY <2>1, <2>5, <2>7, <2>8, <2>9, <2>10, <2>11 DEF Once, Accounts!Has
<1>13. QED
  BY <1>6, <1>7, <1>8, <1>9, <1>10, <1>11, <1>12, AccSteps

(* Granted tokens in every behaviour of the sum.                              *)
LEMMA OnceInvariant == SiteSpec => []OnceInv
<1>1. SiteInit => OnceInv
  BY DEF SiteInit, Accounts!Init, OnceInv, Once, Holder, Redeeming
<1>2. AccType /\ EditsInv /\ LiveInv /\ TokenInv /\ OnceInv /\ [SiteNext]_allVars => OnceInv'
  <2>1. ASSUME OnceInv, UNCHANGED aVars PROVE OnceInv'
    BY <2>1 DEF aVars, OnceInv, Once, Holder, Redeeming, Accounts!Has
  <2>2. QED
    BY <2>1, OnceStep DEF SiteNext, allVars
<1>3. QED
  BY <1>1, <1>2, AccTypeInvariant, EditsInvariant, LiveInvariant, TokenInvariant, PTL
     DEF SiteSpec, allVars

(* An invitation makes one account, although looking it up, creating the      *)
(* account and removing the invitation are steps of their own                 *)
(* (handle_invite_redeem, invites::redeem).                                   *)
THEOREM SingleUse == SiteSpec => []InviteOnce
<1>1. OnceInv => InviteOnce
  BY DEF OnceInv, Once, InviteOnce, Accounts!InviteOnce
<1>2. QED
  BY <1>1, OnceInvariant, PTL


(* Whoever is the admin has an account after an edit that is not its removal. *)
LEMMA EditedAdmin ==
    ASSUME NEW d \in Accounts!Document, NEW r \in Accounts!Request, r.kind \in EditKinds,
           r.name \in Name, r.kind = "rename" => r.new \in Name,
           r.kind \in {"setup", "add", "password", "own", "redeem"} => r.pwd \in Pwd,
           Accounts!EditOk(r, d), d.admin \in Name, Accounts!Has(d, d.admin),
           r.kind # "setup", r.kind = "remove" => r.name # d.admin
    PROVE  /\ Accounts!Edited(r, d).admin \in Name
           /\ Accounts!Has(Accounts!Edited(r, d), Accounts!Edited(r, d).admin)
           /\ r.kind # "rename" => Accounts!Edited(r, d).admin = d.admin
<1>1. CASE r.kind # "rename"
  <2>1. Accounts!Edited(r, d).admin = d.admin
    BY <1>1 DEF Accounts!Edited, EditKinds, Accounts!AddUser, Accounts!SetPassword,
                Accounts!RemoveUser, Accounts!SetQuota, Accounts!Document
  <2>2. Accounts!Has(Accounts!Edited(r, d), d.admin)
    BY <1>1, EditedHas
  <2>3. QED
    BY <1>1, <2>1, <2>2
<1>2. CASE r.kind = "rename"
  <2>1. /\ Accounts!Edited(r, d).users
             = [d.users EXCEPT ![r.name] = None, ![r.new] = d.users[r.name]]
        /\ Accounts!Edited(r, d).admin = IF d.admin = r.name THEN r.new ELSE d.admin
    BY <1>2 DEF Accounts!Edited, Accounts!RenameUser
  <2>2. d.users[r.name] # None /\ d.users[r.new] = None /\ d.users[d.admin] # None
    BY <1>2 DEF Accounts!EditOk, Accounts!Has
  <2>3. d.users \in [Name -> Pwd \union {None}] /\ r.new \in Name
    BY <1>2 DEF Accounts!Document
  <2>4. QED
    BY <1>2, <2>1, <2>2, <2>3 DEF Accounts!Has
<1>3. QED
  BY <1>1, <1>2

-------------------------------------------------------------------------------
(* The first-run setup, as long as nothing of what can bring it back has      *)
(* happened: two renamings or two setups at once, clashing edits, failures.   *)
Clean == met \intersect {"rename", "setup", "edit", "fault"} = {}

Serving(t)  == aPc[t] # "idle"
Early(t)    == aPc[t] \in {"edit"} \union Accounts!Editing
Renaming(t) == aReq[t].kind = "rename" /\ aPc[t] \in Accounts!Reloading
NoAccount   == \A n \in Name : users[n] = None

(* A renaming is served alone, and one setup at a time.                       *)
Apart ==
    /\ \A t, u \in Thread : Serving(t) /\ Serving(u) /\ aReq[t].kind = "rename" => t = u
    /\ \A t, u \in Thread :
           Serving(t) /\ Serving(u) /\ aReq[t].kind = "setup" /\ aReq[u].kind = "setup" => t = u

(* Before the setup there is nothing else; after it the admin has an account  *)
(* that nobody removes, in the file, ...                                      *)
AdminOnFile ==
    /\ ideal = Accounts!Blank =>
         /\ NoAccount /\ admin = None
         /\ \A t \in Thread : Serving(t) => aReq[t].kind = "setup" /\ Early(t)
    /\ ideal # Accounts!Blank => ideal.admin \in Name /\ Accounts!Has(ideal, ideal.admin)
    /\ \A t \in Thread : Early(t) /\ aReq[t].kind = "setup" => ideal = Accounts!Blank
    /\ \A t \in Thread : Early(t) /\ aReq[t].kind = "remove" => aReq[t].name # ideal.admin

(* ... in what the reloads carry, and in the live tables.                     *)
AdminLive ==
    /\ admin # None => admin = ideal.admin \/ \E t \in Thread : Renaming(t)
    /\ \A t \in Thread : aPc[t] \in {"users", "quotas", "admin"} =>
           copy[t].admin = ideal.admin /\ Accounts!Has(copy[t], ideal.admin)
    /\ ideal # Accounts!Blank
         /\ (\A t \in Thread : aReq[t].kind = "setup" => aPc[t] \notin {"reload", "users"})
           => ~NoAccount

SetupInv == Clean => Apart /\ AdminOnFile /\ AdminLive

(* Who serves what, and how far it is, decides the first two parts.           *)
LEMMA SetupKept ==
    ASSUME Apart, AdminOnFile, AdminLive, UNCHANGED <<ideal, users, admin>>,
           \A t \in Thread : Serving(t)' =>
               /\ Serving(t) /\ aReq'[t] = aReq[t]
               /\ Early(t)' => Early(t) \/ aReq[t].kind = "redeem"
               /\ Early(t) => Early(t)'
               /\ aPc'[t] \in {"users", "quotas", "admin"} =>
                      aPc[t] \in {"users", "quotas", "admin"} /\ copy'[t] = copy[t],
           \A t \in Thread : aPc'[t] \in Accounts!Reloading <=> aPc[t] \in Accounts!Reloading,
           \A t \in Thread : aPc[t] \in Accounts!Reloading => aReq'[t] = aReq[t],
           \A t \in Thread : aPc'[t] \in {"reload", "users"} <=> aPc[t] \in {"reload", "users"}
    PROVE  Apart' /\ AdminOnFile' /\ AdminLive'
<1>1. \A t \in Thread : Early(t)' => Serving(t)'
  BY DEF Early, Serving, Accounts!Editing
<1>2. Apart'
  BY DEF Apart
<1>3. AdminOnFile'
  BY <1>1 DEF AdminOnFile, NoAccount, Accounts!Has
<1>4. (\E t \in Thread : Renaming(t)) => \E t \in Thread : Renaming(t)'
  BY DEF Renaming
<1>5. \A t \in Thread : aPc'[t] \in {"users", "quotas", "admin"} =>
          copy'[t].admin = ideal'.admin /\ Accounts!Has(copy[t], ideal.admin)'
  BY DEF AdminLive, Accounts!Has, Serving
<1>6. (\A t \in Thread : aReq'[t].kind = "setup" => aPc'[t] \notin {"reload", "users"})
        => \A t \in Thread : aReq[t].kind = "setup" => aPc[t] \notin {"reload", "users"}
  BY DEF Accounts!Reloading
<1>7. AdminLive'
  BY <1>4, <1>5, <1>6 DEF AdminLive, NoAccount
<1>8. QED
  BY <1>2, <1>3, <1>7

(* The setup is begun before there is anything, a removal is not the admin's. *)
LEMMA SetupTaken ==
    ASSUME AccType, Apart, AdminOnFile, AdminLive, NEW t \in Thread, NEW r, NEW label,
           Taken(t, r, label), Clean'
    PROVE  Apart' /\ AdminOnFile' /\ AdminLive'
<1>1. /\ aPc[t] = "idle" /\ UNCHANGED <<ideal, users, admin, copy>>
      /\ \A u \in Thread : /\ aPc'[u] = (IF u = t THEN label ELSE aPc[u])
                           /\ aReq'[u] = (IF u = t THEN r ELSE aReq[u])
      /\ label \in {"edit", "sign", "looked"} /\ (r.kind = "setup" => label = "edit")
  BY DEF AccType, Taken
<1>2. \A u \in Thread : Serving(u) => r.kind # "rename" /\ aReq[u].kind # "rename"
  BY DEF Clean, Taken, Accounts!InService, Serving
<1>3. \A u \in Thread : Serving(u) => ~(r.kind = "setup" /\ aReq[u].kind = "setup")
  BY DEF Clean, Taken, Accounts!InService, Serving
<1>4. /\ ~Serving(t) /\ ~Renaming(t) /\ ~Early(t) /\ ~Renaming(t)'
      /\ aPc[t] \notin {"reload", "users", "quotas", "admin"}
      /\ aPc'[t] \notin {"reload", "users", "quotas", "admin"}
      /\ \A u \in Thread : u # t => /\ Serving(u)' <=> Serving(u)
                                    /\ Early(u)' <=> Early(u)
                                    /\ Renaming(u)' <=> Renaming(u)
  BY <1>1 DEF Serving, Renaming, Early, Accounts!Editing, Accounts!Reloading
<1>5. r.kind = "setup" <=> NoAccount
  BY DEF Taken, NoAccount
<1>6. r.kind = "setup" => ideal = Accounts!Blank
  <2>1. ASSUME r.kind = "setup", ideal # Accounts!Blank PROVE FALSE
    <3>1. PICK u \in Thread : aReq[u].kind = "setup" /\ aPc[u] \in {"reload", "users"}
      BY <1>5, <2>1 DEF AdminLive
    <3>2. QED
      BY <1>3, <2>1, <3>1 DEF Serving
  <2>2. QED
    BY <2>1
<1>7. r.kind = "remove" => r.name # ideal.admin
  <2>1. ASSUME r.kind = "remove" PROVE admin # None /\ r.name # admin
    BY <2>1, AccConstants DEF Taken
  <2>2. \A u \in Thread : ~Renaming(u)
    BY <1>2 DEF Renaming, Serving, Accounts!Reloading
  <2>3. QED
    BY <2>1, <2>2 DEF AdminLive
<1>8. Apart'
  BY <1>1, <1>2, <1>3, <1>4 DEF Apart
<1>9. AdminOnFile'
  <2>1. ideal = Accounts!Blank => r.kind = "setup" /\ Early(t)'
    BY <1>1, <1>5 DEF AdminOnFile, Early
  <2>2. QED
    BY <1>1, <1>4, <1>6, <1>7, <2>1 DEF AdminOnFile, NoAccount, Accounts!Has
<1>10. AdminLive'
  <2>1. (\A u \in Thread : aReq'[u].kind = "setup" => aPc'[u] \notin {"reload", "users"})
          => \A u \in Thread : aReq[u].kind = "setup" => aPc[u] \notin {"reload", "users"}
    BY <1>1, <1>4
  <2>2. (\E u \in Thread : Renaming(u)) => \E u \in Thread : Renaming(u)'
    BY <1>4
  <2>3. \A u \in Thread : aPc'[u] \in {"users", "quotas", "admin"} =>
            copy'[u].admin = ideal'.admin /\ Accounts!Has(copy[u], ideal.admin)'
    BY <1>1, <1>4 DEF AdminLive, Accounts!Has
  <2>4. QED
    BY <1>1, <2>1, <2>2, <2>3 DEF AdminLive, NoAccount
<1>11. QED
  BY <1>8, <1>9, <1>10


(* The renaming over config.toml: the setup ends, or the admin stays.         *)
LEMMA SetupRename ==
    ASSUME AccType, Serial, ideal \in Accounts!Document, Apart, AdminOnFile, AdminLive,
           NEW t \in Thread, Accounts!TempRename(t)
    PROVE  Apart' /\ AdminOnFile' /\ AdminLive'
<1>1. /\ aPc[t] = "swap" /\ ideal' = Accounts!Edited(aReq[t], ideal)
      /\ Accounts!EditOk(aReq[t], ideal)
      /\ aPc' = [aPc EXCEPT ![t] = "reload"] /\ UNCHANGED <<aReq, users, admin>>
      /\ \A u \in Thread : u # t => copy'[u] = copy[u]
  BY DEF Serial, AccType, Accounts!TempRename, Accounts!Goto, Accounts!Editing, Accounts!live
<1>2. /\ Serving(t) /\ Early(t) /\ Serving(t)' /\ ~Early(t)'
      /\ aPc'[t] = "reload" /\ ~Renaming(t)
      /\ \A u \in Thread : u # t => /\ aPc'[u] = aPc[u]
                                    /\ Serving(u)' <=> Serving(u)
                                    /\ Early(u)' <=> Early(u)
                                    /\ Renaming(u)' <=> Renaming(u)
  BY <1>1 DEF AccType, Serving, Early, Renaming, Accounts!Editing, Accounts!Reloading
<1>3. /\ aReq[t] \in Accounts!Request /\ aReq[t].kind \in EditKinds /\ aReq[t].name \in Name
      /\ aReq[t].kind = "rename" => aReq[t].new \in Name
      /\ aReq[t].kind \in {"setup", "add", "password", "own", "redeem"} => aReq[t].pwd \in Pwd
  BY <1>1 DEF AccType, Meaning, Accounts!Editing
<1>4. Apart'
  BY <1>1, <1>2 DEF Apart
<1>5. CASE aReq[t].kind = "setup"
  <2>1. ideal = Accounts!Blank /\ admin = None
    BY <1>2, <1>5 DEF AdminOnFile
  <2>2. \A u \in Thread : Serving(u) => u = t
    BY <1>2, <1>5, <2>1 DEF AdminOnFile, Apart
  <2>3. ideal'.admin = aReq[t].name
    BY <1>1, <1>5 DEF Accounts!Edited, Accounts!CompleteSetup, Accounts!AddUser,
                      Accounts!Document
  <2>4. Accounts!Has(ideal', aReq[t].name)
    BY <1>1, <1>3, <1>5, EditedHas
  <2>5. ideal'.admin \in Name /\ Accounts!Has(ideal', ideal'.admin)
    BY <1>3, <2>3, <2>4
  <2>6. ideal' # Accounts!Blank
    BY <2>5 DEF Accounts!Has, Accounts!Blank
  <2>7. \A u \in Thread : u # t => ~Serving(u)' /\ ~Early(u)'
    BY <1>2, <2>2 DEF Early, Serving, Accounts!Editing
  <2>8. AdminOnFile'
    BY <1>2, <2>5, <2>6, <2>7 DEF AdminOnFile, Accounts!Has
  <2>9. AdminLive'
    BY <1>1, <1>2, <1>5, <2>1, <2>7 DEF AdminLive, Serving
  <2>10. QED
    BY <1>4, <2>8, <2>9
<1>6. CASE aReq[t].kind # "setup"
  <2>1. /\ ideal # Accounts!Blank /\ ideal.admin \in Name /\ Accounts!Has(ideal, ideal.admin)
        /\ aReq[t].kind = "remove" => aReq[t].name # ideal.admin
    BY <1>2, <1>6 DEF AdminOnFile
  <2>2. /\ ideal'.admin \in Name /\ Accounts!Has(ideal', ideal'.admin)
        /\ aReq[t].kind # "rename" => ideal'.admin = ideal.admin
    BY <1>1, <1>3, <1>6, <2>1, EditedAdmin
  <2>3. ideal' # Accounts!Blank
    BY <2>2 DEF Accounts!Has, Accounts!Blank
  <2>4. aReq[t].kind = "rename" => \A u \in Thread : Serving(u) => u = t
    BY <1>2 DEF Apart
  <2>5. \A u \in Thread : Early(u)' => Early(u) /\ aReq[u].kind # "setup" /\ u # t
    BY <1>2, <2>1 DEF AdminOnFile
  <2>6. \A u \in Thread : Early(u)' => aReq[t].kind # "rename"
    BY <1>2, <2>4 DEF Early, Serving, Accounts!Editing
  <2>7. AdminOnFile'
    BY <1>1, <2>2, <2>3, <2>5, <2>6 DEF AdminOnFile, Accounts!Has
  <2>8. \A u \in Thread : aPc'[u] \in {"users", "quotas", "admin"} =>
            u # t /\ aReq[t].kind # "rename" /\ aPc[u] = aPc'[u]
    BY <1>2, <2>4 DEF Serving
  <2>9. \A u \in Thread : aPc'[u] \in {"users", "quotas", "admin"} =>
            copy'[u].admin = ideal'.admin /\ Accounts!Has(copy[u], ideal.admin)'
    BY <1>1, <2>2, <2>8 DEF AdminLive, Accounts!Has
  <2>10. admin # None => admin = ideal'.admin \/ \E u \in Thread : Renaming(u)'
    <3>1. CASE aReq[t].kind = "rename"
      BY <1>1, <1>2, <3>1 DEF Renaming, Accounts!Reloading
    <3>2. CASE aReq[t].kind # "rename"
      BY <1>2, <2>2, <3>2 DEF AdminLive
    <3>3. QED
      BY <3>1, <3>2
  <2>11. (\A u \in Thread : aReq[u].kind = "setup" => aPc'[u] \notin {"reload", "users"})
          => \A u \in Thread : aReq[u].kind = "setup" => aPc[u] \notin {"reload", "users"}
    BY <1>2, <1>6
  <2>12. AdminLive'
    BY <1>1, <2>1, <2>9, <2>10, <2>11 DEF AdminLive, NoAccount
  <2>13. QED
    BY <1>4, <2>7, <2>12
<1>7. QED
  BY <1>5, <1>6

(* The reload carries the file's admin into the live tables.                  *)
LEMMA SetupReload ==
    ASSUME AccType, Serial, Apart, AdminOnFile, AdminLive, NEW t \in Thread,
           Accounts!ReloadRead(t) \/ Accounts!ReloadUsers(t) \/ Accounts!ReloadAdmin(t)
    PROVE  Apart' /\ AdminOnFile' /\ AdminLive'
<1> USE DEF Accounts!Stay, Accounts!files, Accounts!live, Accounts!Goto
<1>1. /\ aPc[t] \in {"reload", "users", "admin"} /\ UNCHANGED <<ideal, aReq>>
      /\ \E label \in {"users", "quotas", "finish"} : aPc' = [aPc EXCEPT ![t] = label]
      /\ \A u \in Thread : u # t => copy'[u] = copy[u]
  BY DEF AccType, Accounts!ReloadRead, Accounts!ReloadUsers, Accounts!ReloadAdmin
<1>2. /\ Serving(t) /\ Serving(t)' /\ ~Early(t) /\ ~Early(t)'
      /\ \A u \in Thread : u # t => /\ aPc'[u] = aPc[u]
                                    /\ Serving(u)' <=> Serving(u)
                                    /\ Early(u)' <=> Early(u)
                                    /\ Renaming(u)' <=> Renaming(u)
  BY <1>1 DEF AccType, Serving, Early, Renaming, Accounts!Editing
<1>3. ideal # Accounts!Blank /\ ideal.admin \in Name /\ Accounts!Has(ideal, ideal.admin)
  BY <1>2 DEF AdminOnFile
<1>4. Apart' /\ AdminOnFile'
  BY <1>1, <1>2, <1>3 DEF Apart, AdminOnFile, Accounts!Has
<1>5. CASE Accounts!ReloadRead(t)
  <2>1. Accounts!Readings(config) = {ideal}
    BY WholeReads DEF Serial
  <2>2. /\ aPc[t] = "reload" /\ aPc'[t] = "users" /\ copy'[t] = ideal /\ UNCHANGED <<users, admin>>
    BY <1>5, <2>1 DEF AccType, Accounts!ReloadRead
  <2>3. \A u \in Thread : aPc'[u] \in {"users", "quotas", "admin"} =>
            copy'[u].admin = ideal'.admin /\ Accounts!Has(copy[u], ideal.admin)'
    BY <1>1, <1>2, <1>3, <2>2 DEF AdminLive, Accounts!Has
  <2>4. \A u \in Thread : Renaming(u)' <=> Renaming(u)
    BY <1>1, <1>2, <2>2 DEF Renaming, Accounts!Reloading
  <2>5. (\A u \in Thread : aReq'[u].kind = "setup" => aPc'[u] \notin {"reload", "users"})
          => \A u \in Thread : aReq[u].kind = "setup" => aPc[u] \notin {"reload", "users"}
    BY <1>1, <1>2, <2>2
  <2>6. AdminLive'
    BY <1>1, <2>2, <2>3, <2>4, <2>5 DEF AdminLive, NoAccount
  <2>7. QED
    BY <1>4, <2>6
<1>6. CASE Accounts!ReloadUsers(t)
  <2>1. /\ aPc[t] = "users" /\ aPc'[t] = "quotas" /\ users' = copy[t].users
        /\ UNCHANGED <<copy, admin>>
    BY <1>6 DEF AccType, Accounts!ReloadUsers
  <2>2. ~NoAccount'
    BY <1>3, <2>1 DEF AdminLive, NoAccount, Accounts!Has
  <2>3. \A u \in Thread : aPc'[u] \in {"users", "quotas", "admin"} =>
            copy'[u].admin = ideal'.admin /\ Accounts!Has(copy[u], ideal.admin)'
    BY <1>1, <1>2, <2>1 DEF AdminLive, Accounts!Has
  <2>4. \A u \in Thread : Renaming(u)' <=> Renaming(u)
    BY <1>1, <1>2, <2>1 DEF Renaming, Accounts!Reloading
  <2>5. AdminLive'
    BY <1>1, <2>1, <2>2, <2>3, <2>4 DEF AdminLive
  <2>6. QED
    BY <1>4, <2>5
<1>7. CASE Accounts!ReloadAdmin(t)
  <2>1. /\ aPc[t] = "admin" /\ aPc'[t] = "finish" /\ users' = users
        /\ admin' = copy[t].admin
    BY <1>7 DEF AccType, Accounts!ReloadAdmin
  <2>2. admin' = ideal'.admin
    BY <1>1, <2>1 DEF AdminLive
  <2>3. \A u \in Thread : aPc'[u] \in {"users", "quotas", "admin"} =>
            copy'[u].admin = ideal'.admin /\ Accounts!Has(copy[u], ideal.admin)'
    BY <1>1, <1>2, <2>1 DEF AdminLive, Accounts!Has
  <2>4. (\A u \in Thread : aReq'[u].kind = "setup" => aPc'[u] \notin {"reload", "users"})
          => \A u \in Thread : aReq[u].kind = "setup" => aPc[u] \notin {"reload", "users"}
    BY <1>1, <1>2, <2>1
  <2>5. AdminLive'
    BY <1>1, <2>1, <2>2, <2>3, <2>4 DEF AdminLive, NoAccount
  <2>6. QED
    BY <1>4, <2>5
<1>8. QED
  BY <1>5, <1>6, <1>7

(* Every step keeps the setup behind, or notes what could bring it back.      *)
LEMMA SetupStep ==
    ASSUME AccType, EditsInv, LiveInv, SetupInv, Accounts!Next
    PROVE  SetupInv'
<1> SUFFICES ASSUME Clean' PROVE Apart' /\ AdminOnFile' /\ AdminLive'
  BY DEF SetupInv
<1>1. Clean
  BY AccNoted DEF Clean
<1>2. Apart /\ AdminOnFile /\ AdminLive /\ Serial /\ ideal \in Accounts!Document
  BY <1>1 DEF SetupInv, EditsInv, LiveInv, Clean
<1> USE DEF Accounts!Stay, Accounts!files, Accounts!live, Accounts!Goto
<1>3. ASSUME NEW t \in Thread, Ended(t) PROVE Apart' /\ AdminOnFile' /\ AdminLive'
  <2>1. aPc'[t] = "idle" /\ \A u \in Thread : u # t =>
            aPc'[u] = aPc[u] /\ aReq'[u] = aReq[u] /\ copy'[u] = copy[u]
    BY <1>3 DEF AccType, Ended, Accounts!Done
  <2>2. aPc[t] \notin Accounts!Reloading /\ UNCHANGED <<ideal, users, admin>>
    BY <1>3 DEF Ended, Clean
  <2>3. QED
    BY <1>2, <2>1, <2>2, SetupKept DEF Serving, Early, Accounts!Reloading
<1>4. CASE Bystander
  BY <1>2, <1>4, SetupKept DEF Bystander, Serving, Early
<1>5. ASSUME NEW t \in Thread,
             \/ Accounts!RedeemProceed(t) \/ Accounts!EditRead(t) \/ Accounts!TempCreate(t)
             \/ Accounts!TempWrite(t) \/ Accounts!RedeemConsume(t) \/ Accounts!ReloadQuotas(t)
      PROVE  Apart' /\ AdminOnFile' /\ AdminLive'
  <2>1. /\ UNCHANGED <<ideal, users, admin, aReq>>
        /\ \A u \in Thread : u # t => aPc'[u] = aPc[u] /\ copy'[u] = copy[u]
    BY <1>5 DEF AccType, Accounts!RedeemProceed, Accounts!EditRead, Accounts!TempCreate,
                Accounts!TempWrite, Accounts!RedeemConsume, Accounts!ReloadQuotas
  <2>2. /\ aPc[t] # "idle"
        /\ Early(t)' => Early(t) \/ aReq[t].kind = "redeem"
        /\ Early(t) => Early(t)'
        /\ aPc'[t] \in {"users", "quotas", "admin"} =>
               aPc[t] \in {"users", "quotas", "admin"} /\ copy'[t] = copy[t]
        /\ aPc'[t] \in Accounts!Reloading <=> aPc[t] \in Accounts!Reloading
        /\ aPc'[t] \in {"reload", "users"} <=> aPc[t] \in {"reload", "users"}
    BY <1>5 DEF AccType, Meaning, Accounts!RedeemProceed, Accounts!EditRead,
                Accounts!TempCreate, Accounts!TempWrite, Accounts!RedeemConsume,
                Accounts!ReloadQuotas, Early, Accounts!Editing, Accounts!Reloading
  <2>3. QED
    BY <1>2, <2>1, <2>2, SetupKept DEF Serving, Early
<1>6. ASSUME NEW t \in Thread, NEW r, NEW label, Taken(t, r, label)
      PROVE  Apart' /\ AdminOnFile' /\ AdminLive'
  BY <1>2, <1>6, SetupTaken
<1>7. QED
  BY <1>2, <1>3, <1>4, <1>5, <1>6, SetupRename, SetupReload, AccSteps DEF Advance

(* The setup in every behaviour of the sum.                                   *)
LEMMA SetupInvariant == SiteSpec => []SetupInv
<1>1. SiteInit => SetupInv
  <2>1. ASSUME Accounts!Init PROVE SetupInv
    <3>1. /\ users = ideal.users /\ admin = ideal.admin
          /\ \A t \in Thread : aPc[t] = "idle" /\ aReq[t].kind = "none"
      BY <2>1 DEF Accounts!Init, Accounts!Idle
    <3>2. Apart
      BY <3>1 DEF Apart, Serving
    <3>3. CASE ideal = Accounts!Blank
      BY <3>1, <3>2, <3>3 DEF SetupInv, AdminOnFile, AdminLive, NoAccount, Serving, Early,
                              Accounts!Blank, Accounts!Editing
    <3>4. ASSUME NEW n \in Name, NEW p \in Pwd, ideal = SetUpBy(n, p)
          PROVE  SetupInv
      <4>1. ideal.admin = n /\ ideal.users[n] = p
        BY <3>4, SetupMakes
      <4>2. ideal.users[n] # None
        BY <4>1, AccConstants
      <4>3. ideal # Accounts!Blank
        BY <4>2 DEF Accounts!Blank
      <4>4. QED
        BY <3>1, <3>2, <4>1, <4>2, <4>3
           DEF SetupInv, AdminOnFile, AdminLive, NoAccount, Early, Accounts!Editing,
               Accounts!Has
    <3>5. \/ ideal = Accounts!Blank
          \/ \E n \in Name, p \in Pwd : ideal = SetUpBy(n, p)
      BY <2>1, Zenon DEF Accounts!Init, SetUpBy, Founder
    <3>6. QED
      BY <3>3, <3>4, <3>5
  <2>2. QED
    BY <2>1 DEF SiteInit
<1>2. AccType /\ EditsInv /\ LiveInv /\ SetupInv /\ [SiteNext]_allVars => SetupInv'
  <2>1. ASSUME SetupInv, UNCHANGED aVars PROVE SetupInv'
    BY <2>1 DEF aVars, SetupInv, Clean, Apart, AdminOnFile, AdminLive, NoAccount, Serving,
                Early, Renaming, Accounts!Has
  <2>2. QED
    BY <2>1, SetupStep DEF SiteNext, allVars
<1>3. QED
  BY <1>1, <1>2, AccTypeInvariant, EditsInvariant, LiveInvariant, PTL DEF SiteSpec, allVars

(* The first-run setup is not offered again (setup_pending,                   *)
(* handle_admin_user_remove, which refuses the signed-in admin's account).    *)
THEOREM SetupIsOver == SiteSpec => []SetupStaysDone
<1>1. SetupInv => SetupStaysDone
  <2>1. ASSUME \A t \in Thread : ~Accounts!Unsettled(t)
        PROVE  \A t \in Thread : aPc[t] \notin {"reload", "users"}
    BY <2>1 DEF Accounts!Unsettled, Accounts!Reloading
  <2>2. QED
    BY <2>1 DEF SetupInv, Clean, AdminLive, NoAccount, SetupStaysDone,
                Accounts!SetupStaysDone, Accounts!SetupPending
<1>2. QED
  BY <1>1, SetupInvariant, PTL
-------------------------------------------------------------------------------
(* The backup and the restore (Backup).                                       *)

MoveEntry ==
    (Move!Folder \union {"nowhere"}) \X Message
        \X (Flag \union {CHOOSE f \in Flag : TRUE, "none"})

MovePlace ==
    [dir : Move!Folder \union {"nowhere"},
     flag : Flag \union {CHOOSE f \in Flag : TRUE, "none"}]

MoveType ==
    /\ bPlace \in [Message -> MovePlace]
    /\ bPc \in {"serving", "reading", "archived", "refused", "unpacking", "broken", "restored"}
    /\ bTodo \in Seq(Move!Folder) /\ bFiles \in Seq(MoveEntry) /\ bArchive \in Seq(MoveEntry)
    /\ bStill \subseteq Message
    /\ bLeft \in [extras : Seq(DOMAIN Base), data : Seq(MoveEntry)]
    /\ bHost = [config |-> bHost.config, extras |-> bHost.extras, data |-> bHost.data]

In(x, s) == \E k \in DOMAIN s : s[k] = x

(* What could be read of the configuration and the key files is in the        *)
(* archive.                                                                   *)
Packed ==
    /\ bUnread = [config |-> bUnread.config, keys |-> bUnread.keys, mail |-> bUnread.mail]
    /\ bPc # "serving" =>
          /\ ~bUnread.config => bPacked.config
          /\ \A i \in DOMAIN Extras : Extras[i] \notin bUnread.keys => Extras[i] \in bPacked.keys

(* While the archive is made, a message that is left alone and can be read is *)
(* still to be come by, or it is listed and not yet opened, or it is in the   *)
(* archive.                                                                   *)
OnTheWay ==
    \A m \in bStill \ bUnread.mail : Move!ToBeKept(m) =>
        /\ bPc = "reading" => \/ In(bPlace[m].dir, bTodo)
                              \/ In(Move!Path(m), bFiles) \/ In(Move!Path(m), bArchive)
        /\ bPc \in {"archived", "unpacking", "restored"} => In(Move!Path(m), bArchive)

(* What the archive holds is on the new host or still to be written; of the   *)
(* key files, the first n have been written if they are in it.                *)
Alone(i) == \A j \in DOMAIN Extras : Base[Extras[j]] = Base[Extras[i]] => i = j

KeysUpTo(n) ==
    /\ Len(bLeft.extras) = Len(Extras) - n
    /\ \A j \in 1 .. Len(Extras) - n : bLeft.extras[j] = Extras[n + j]
    /\ \A i \in 1 .. n : Alone(i) /\ Extras[i] \in bPacked.keys =>
          Base[Extras[i]] \in DOMAIN bHost.extras /\ bHost.extras[Base[Extras[i]]] = Extras[i]

Unpacked ==
    /\ bPc \in {"unpacking", "restored"} =>
          /\ \A f \in MoveEntry : In(f, bArchive) => f \in bHost.data \/ In(f, bLeft.data)
          /\ \E n \in 0 .. Len(Extras) : KeysUpTo(n)
    /\ bPc = "unpacking" /\ bPacked.config => bHost.config = "copied"
    /\ bPc = "restored" =>
          /\ bLeft.extras = << >> /\ bLeft.data = << >>
          /\ bShape = "named" /\ bPacked.config => bHost.config = "here"
    /\ bPc \in {"serving", "reading", "archived", "refused"} => bHost = bBefore
    /\ bBefore.data \subseteq bHost.data

MoveInv == MoveType /\ Packed /\ OnTheWay /\ Unpacked

(* What the assumption about the parameters comes to.                         *)
LEMMA MoveConstants ==
    /\ Folders \in Seq(Move!Folder) /\ Extras \in Seq(DOMAIN Base)
    /\ Temporary \subseteq Move!Folder /\ "nowhere" \notin Move!Folder
    /\ IsFiniteSet(Message)
    /\ \A f \in Move!Folder : Length[f] \in Nat \ {0} /\ Slashes[f] \subseteq Nat
    /\ Size \in [Message -> Nat \ {0}] /\ NameMax \in Nat /\ PrefixMax \in Nat
    /\ Move!Nowhere \in MovePlace
    /\ \A f \in Move!Folder : In(f, Folders)
<1>1. \A S : Move!IsFiniteSet(S) = IsFiniteSet(S)
  BY DEF IsFiniteSet, Move!IsFiniteSet
<1>2. Move!Nowhere \in MovePlace
  BY DEF Move!Nowhere, MovePlace
<1>3. \A f \in Move!Folder : In(f, Folders)
  BY DEF Move!Folder, Move!Range, In
<1>4. IsFiniteSet(Message)
  BY <1>1, MoveAssumption DEF Move!BackupAssumption
<1>5. ASSUME NEW f \in Move!Folder PROVE Length[f] \in Nat \ {0} /\ Slashes[f] \subseteq Nat
  <2>1. Length[f] \in Nat \ {0} /\ Slashes[f] \subseteq 1 .. Length[f] - 1
    BY MoveAssumption DEF Move!BackupAssumption
  <2>2. QED
    BY <2>1
<1>6. NameMax \in Nat /\ PrefixMax \in Nat /\ Size \in [Message -> Nat \ {0}]
  BY MoveAssumption DEF Move!BackupAssumption
<1>7. /\ Folders \in Seq(Move!Folder) /\ Extras \in Seq(DOMAIN Base)
      /\ Temporary \subseteq Move!Folder /\ "nowhere" \notin Move!Folder
  BY MoveAssumption DEF Move!BackupAssumption
<1>8. QED
  BY <1>2, <1>3, <1>4, <1>5, <1>6, <1>7

(* A path that has room in a header is one that split_ustar_path finds a      *)
(* place for.                                                                 *)
LEMMA RoomIsFound ==
    ASSUME NEW len \in Nat, NEW slashes \in SUBSET Nat, Move!Room(len, slashes)
    PROVE  Move!Split(len, slashes)
<1> USE MoveConstants
<1>1. CASE len <= NameMax
  BY <1>1 DEF Move!Split
<1>2. CASE \E prefix \in slashes, name \in 0 .. NameMax :
              prefix <= PrefixMax /\ prefix + 1 + name = len
  <2>1. PICK prefix \in slashes, name \in 0 .. NameMax :
            prefix <= PrefixMax /\ prefix + 1 + name = len
    BY <1>2
  <2>2. prefix \in Nat /\ name \in Nat /\ name <= NameMax
    BY <2>1
  <2>3. len - prefix - 1 <= NameMax /\ len <= NameMax + PrefixMax + 1
    BY <2>1, <2>2
  <2>4. prefix \in Move!Cuts(len, slashes)
    BY <2>1, <2>3 DEF Move!Cuts
  <2>5. QED
    BY <2>3, <2>4 DEF Move!Split
<1>3. QED
  BY <1>1, <1>2 DEF Move!Room

(* What is to be kept fits, and so do the directories above it.               *)
LEMMA KeptFits ==
    ASSUME NEW m \in Message, Move!ToBeKept(m)
    PROVE  /\ bPlace[m].dir \in Move!Folder /\ bPlace[m].dir \notin Temporary
           /\ Move!DirFits(bPlace[m].dir) /\ Move!FileFits(bPlace[m].dir, m)
<1> DEFINE d == bPlace[m].dir
<1>1. /\ d \in Move!Folder /\ d \notin Temporary
      /\ Move!Room(Move!Within(d, m), Move!Ends(d))
      /\ \A end \in Move!Ends(d) : Move!Room(end + 1, Move!Above(d, end))
  BY DEF Move!ToBeKept
<1> HIDE DEF d
<1>2. /\ Move!Ends(d) \in SUBSET Nat /\ Move!Within(d, m) \in Nat
      /\ \A end \in Move!Ends(d) : end + 1 \in Nat /\ Move!Above(d, end) \in SUBSET Nat
  <2>1. Length[d] \in Nat /\ Slashes[d] \subseteq Nat /\ Size[m] \in Nat
    BY <1>1, MoveConstants
  <2>2. QED
    BY <2>1 DEF Move!Ends, Move!Within, Move!Above
<1>3. Move!DirFits(d)
  BY <1>1, <1>2, RoomIsFound DEF Move!DirFits
<1>4. Move!FileFits(d, m)
  BY <1>1, <1>2, RoomIsFound DEF Move!FileFits
<1>5. QED
  BY <1>1, <1>3, <1>4 DEF d

(* A finite set of entries put in a row: each of them is in it.               *)
LEMMA InARow ==
    ASSUME NEW S, IsFiniteSet(S)
    PROVE  /\ Move!SetToSeq(S) \in Seq(S)
           /\ \A x \in S : In(x, Move!SetToSeq(S))
<1> DEFINE n == Cardinality(S)
<1>1. Move!Cardinality(S) = n
  BY DEF Cardinality, Move!Cardinality
<1>2. n \in Nat /\ ExistsBijection(1 .. n, S)
  BY FS_CardinalityType
<1> HIDE DEF n
<1>3. \E f \in [1 .. n -> S] : IsInjective(f)
  BY <1>2 DEF ExistsBijection, Bijection, Injection
<1>4. Move!SetToSeq(S) = CHOOSE f \in [1 .. n -> S] : IsInjective(f)
  BY <1>1 DEF Move!SetToSeq, Move!IsInjective, IsInjective
<1>5. Move!SetToSeq(S) \in [1 .. n -> S] /\ IsInjective(Move!SetToSeq(S))
  BY <1>3, <1>4
<1>6. Move!SetToSeq(S) \in Injection(1 .. n, S)
  BY <1>5 DEF Injection
<1>7. Cardinality(1 .. n) = n
  BY <1>2, FS_Interval
<1>8. Move!SetToSeq(S) \in Surjection(1 .. n, S)
  BY <1>6, <1>7, FS_Injection DEF n
<1>9. QED
  BY <1>2, <1>5, <1>8 DEF Surjection, In

(* The files that a listing finds, in a row.                                  *)
LEMMA Listed ==
    ASSUME MoveType, NEW d
    PROVE  LET S == {Move!Path(m) : m \in {x \in Message : bPlace[x].dir = d}}
           IN  /\ Move!SetToSeq(S) \in Seq(MoveEntry)
               /\ \A m \in Message : bPlace[m].dir = d => In(Move!Path(m), Move!SetToSeq(S))
<1> DEFINE M == {x \in Message : bPlace[x].dir = d}
           S == {Move!Path(m) : m \in M}
           row == Move!SetToSeq(S)
           f == [m \in M |-> Move!Path(m)]
<1>1. IsFiniteSet(M)
  <2>1. M \in SUBSET Message
    OBVIOUS
  <2>2. QED
    BY <2>1, MoveConstants, FS_Subset
<1>2. f \in Surjection(M, S)
  BY DEF Surjection
<1>3. IsFiniteSet(S)
  <2> HIDE DEF M, S, f
  <2>1. QED
    BY <1>1, <1>2, FS_Surjection
<1>4. S \subseteq MoveEntry
  <2> SUFFICES ASSUME NEW m \in Message PROVE Move!Path(m) \in MoveEntry
    OBVIOUS
  <2>1. bPlace[m] \in MovePlace
    BY DEF MoveType
  <2>2. QED
    BY <2>1 DEF MovePlace, MoveEntry, Move!Path
<1>5. row \in Seq(S) /\ \A x \in S : In(x, row)
  <2> HIDE DEF S
  <2>1. QED
    BY <1>3, InARow
<1>6. row \in Seq(MoveEntry)
  <2> HIDE DEF S, row
  <2>1. QED
    BY <1>4, <1>5
<1>7. ASSUME NEW m \in Message, bPlace[m].dir = d PROVE In(Move!Path(m), row)
  <2>1. Move!Path(m) \in S
    BY <1>7
  <2> HIDE DEF S, row
  <2>2. QED
    BY <1>5, <2>1
<1>8. QED
  BY <1>6, <1>7

(* A row without its head, one with nothing in it, and one with an element    *)
(* more.                                                                      *)
LEMMA RowTail ==
    ASSUME NEW S, NEW s \in Seq(S), s # << >>
    PROVE  /\ Head(s) = s[1] /\ Head(s) \in S /\ Tail(s) \in Seq(S)
           /\ Len(s) \in Nat /\ Len(s) > 0 /\ Len(Tail(s)) = Len(s) - 1
           /\ \A j \in 1 .. Len(s) - 1 : Tail(s)[j] = s[j + 1]
           /\ \A x : In(x, s) => x = Head(s) \/ In(x, Tail(s))
<1>1. /\ Head(s) = s[1] /\ Head(s) \in S /\ Tail(s) \in Seq(S)
      /\ Len(s) \in Nat /\ Len(s) > 0 /\ Len(Tail(s)) = Len(s) - 1
  OBVIOUS
<1>2. \A j \in 1 .. Len(s) - 1 : Tail(s)[j] = s[j + 1]
  OBVIOUS
<1>3. ASSUME NEW x, NEW k \in DOMAIN s, s[k] = x PROVE x = Head(s) \/ In(x, Tail(s))
  <2>1. k \in 1 .. Len(s)
    OBVIOUS
  <2>2. CASE k = 1
    BY <1>1, <1>3, <2>2
  <2>3. CASE k # 1
    <3>1. k - 1 \in 1 .. Len(s) - 1 /\ Tail(s)[k - 1] = x
      BY <1>1, <1>2, <1>3, <2>1, <2>3
    <3>2. DOMAIN Tail(s) = 1 .. Len(s) - 1
      BY <1>1
    <3>3. QED
      BY <3>1, <3>2 DEF In
  <2>4. QED
    BY <2>2, <2>3
<1>4. QED
  BY <1>1, <1>2, <1>3 DEF In

LEMMA EmptyRow == \A S : << >> \in Seq(S)
OBVIOUS

LEMMA RowMore ==
    ASSUME NEW S, NEW s \in Seq(S), NEW y \in S
    PROVE  /\ Append(s, y) \in Seq(S) /\ In(y, Append(s, y))
           /\ \A x : In(x, s) => In(x, Append(s, y))
<1>1. /\ Append(s, y) \in Seq(S) /\ Len(s) \in Nat
      /\ DOMAIN Append(s, y) = 1 .. Len(s) + 1 /\ DOMAIN s = 1 .. Len(s)
      /\ Append(s, y)[Len(s) + 1] = y
      /\ \A j \in 1 .. Len(s) : Append(s, y)[j] = s[j]
  OBVIOUS
<1>2. Len(s) + 1 \in DOMAIN Append(s, y) /\ \A j \in DOMAIN s : j \in DOMAIN Append(s, y)
  BY <1>1
<1>3. QED
  BY <1>1, <1>2 DEF In

(* What a step leaves alone when it is none of the backup's, or of the        *)
(* restore's.                                                                 *)
LEMMA BackupAlone ==
    ASSUME Unpacked, UNCHANGED <<bShape, bLeft, bHost, bBefore>>,
           bPc \in {"serving", "reading"}, bPc' \in {"serving", "reading", "archived"}
    PROVE  Unpacked'
BY DEF Unpacked

LEMMA RestoreAlone ==
    ASSUME OnTheWay, UNCHANGED <<bPlace, bStill, bArchive, bUnread>>,
           bPc \in {"archived", "unpacking", "restored"} \/ bPc' \in {"refused", "broken"},
           bPc' \notin {"reading"}
    PROVE  OnTheWay'
BY DEF OnTheWay, Move!ToBeKept, Move!Path

(* The configuration and the key files are read at the start.                 *)
LEMMA PackedStep ==
    ASSUME Packed,
           \/ Move!Start \/ Move!List \/ Move!ListFails \/ Move!Open \/ Move!OpenFails
           \/ Move!Complete \/ Move!BackupFails \/ Move!Shuffle
           \/ \E force, damaged \in BOOLEAN : Move!Refuse(force, damaged)
           \/ \E force \in BOOLEAN : Move!Unpack(force)
           \/ Move!UnpackExtra \/ Move!UnpackFile \/ Move!UnpackFails \/ Move!PointConfig
    PROVE  Packed'
<1>1. CASE Move!Start
  <2>1. PICK conf \in BOOLEAN, keys \in SUBSET Move!Range(Extras) :
            /\ bPacked' = [config |-> conf, keys |-> keys]
            /\ bUnread' = [config |-> ~conf, keys |-> Move!Range(Extras) \ keys, mail |-> {}]
    BY <1>1 DEF Move!Start
  <2>2. \A i \in DOMAIN Extras : Extras[i] \in Move!Range(Extras)
    BY DEF Move!Range
  <2>3. QED
    BY <2>1, <2>2 DEF Packed
<1>2. CASE Move!ListFails \/ Move!OpenFails
  <2>1. PICK M : bUnread' = [bUnread EXCEPT !.mail = M]
    BY <1>2 DEF Move!ListFails, Move!OpenFails
  <2>2. bPc = "reading" /\ bPacked' = bPacked
    BY <1>2 DEF Move!ListFails, Move!OpenFails
  <2>3. bUnread' = [config |-> bUnread.config, keys |-> bUnread.keys, mail |-> M]
    BY <2>1 DEF Packed
  <2>4. QED
    BY <2>2, <2>3 DEF Packed
<1>3. CASE Move!BackupFails
  BY <1>3 DEF Packed, Move!BackupFails, Move!Unread
<1>4. CASE \/ Move!List \/ Move!Open \/ Move!Complete \/ Move!Shuffle
           \/ \E force, damaged \in BOOLEAN : Move!Refuse(force, damaged)
           \/ \E force \in BOOLEAN : Move!Unpack(force)
           \/ Move!UnpackExtra \/ Move!UnpackFile \/ Move!UnpackFails \/ Move!PointConfig
  <2>1. UNCHANGED <<bPacked, bUnread>> /\ bPc # "serving"
    BY <1>4 DEF Move!List, Move!Open, Move!Complete, Move!Shuffle, Move!Mail, Move!Refuse,
                Move!Unpack, Move!UnpackExtra, Move!UnpackFile, Move!UnpackFails,
                Move!PointConfig, Move!backup
  <2>2. QED
    BY <2>1 DEF Packed
<1>5. QED
  BY <1>1, <1>2, <1>3, <1>4

(* The backup: handle_admin_backup, and the mail that moves meanwhile.        *)
LEMMA BackupStep ==
    ASSUME MoveInv,
           \/ Move!Start \/ Move!List \/ Move!ListFails \/ Move!Open \/ Move!OpenFails
           \/ Move!Complete \/ Move!BackupFails \/ Move!Shuffle
    PROVE  MoveInv'
<1> USE MoveConstants
<1>0. Packed'
  BY PackedStep DEF MoveInv
<1>1. Unpacked'
  <2>1. /\ Unpacked /\ UNCHANGED <<bShape, bLeft, bHost, bBefore>>
        /\ bPc \in {"serving", "reading"} /\ bPc' \in {"serving", "reading", "archived"}
    BY DEF MoveInv, Move!Start, Move!List, Move!ListFails, Move!Open, Move!OpenFails,
           Move!Complete, Move!BackupFails, Move!Shuffle, Move!Mail, Move!source, Move!target
  <2>2. QED
    BY <2>1, BackupAlone
<1>2. CASE Move!Start
  <2>1. MoveType'
    BY <1>2 DEF MoveInv, MoveType, Move!Start, Move!target, Move!Stored
  <2>2. OnTheWay'
    <3> SUFFICES ASSUME NEW m \in bStill' \ bUnread'.mail, Move!ToBeKept(m)'
                 PROVE  In(bPlace[m].dir, bTodo')
      BY <1>2 DEF Move!Start, OnTheWay
    <3>1. bPlace' = bPlace /\ bTodo' = Folders
      BY <1>2 DEF Move!Start
    <3>2. bPlace[m].dir \in Move!Folder
      BY <3>1 DEF Move!ToBeKept
    <3>3. QED
      BY <3>1, <3>2
  <2>3. QED
    BY <1>0, <1>1, <2>1, <2>2 DEF MoveInv
<1>3. CASE Move!List
  <2> DEFINE d == Head(bTodo)
             S == {Move!Path(m) : m \in {x \in Message : bPlace[x].dir = d}}
  <2>1. /\ bPc = "reading" /\ bPc' = bPc /\ bFiles = << >> /\ bTodo # << >>
        /\ bTodo' = Tail(bTodo)
        /\ bFiles' = IF d \in Temporary \/ ~Move!DirFits(d) THEN << >> ELSE Move!SetToSeq(S)
        /\ UNCHANGED <<bPlace, bStill, bArchive, bUnread, bLeft, bHost>>
    BY <1>3 DEF Move!List, Move!source, Move!backup, Move!target
  <2>2. /\ Move!SetToSeq(S) \in Seq(MoveEntry)
        /\ \A m \in Message : bPlace[m].dir = d => In(Move!Path(m), Move!SetToSeq(S))
    BY Listed DEF MoveInv
  <2> HIDE DEF S
  <2>3. bTodo \in Seq(Move!Folder)
    BY DEF MoveInv, MoveType
  <2>4. bTodo' \in Seq(Move!Folder) /\ \A x : In(x, bTodo) => x = d \/ In(x, bTodo')
    <3> HIDE DEF d
    <3>1. QED
      BY <2>1, <2>3, RowTail DEF d
  <2> HIDE DEF d
  <2>5. MoveType'
    <3>1. bFiles' \in Seq(MoveEntry)
      BY <2>1, <2>2
    <3>2. QED
      BY <2>1, <2>4, <3>1 DEF MoveInv, MoveType
  <2>6. OnTheWay'
    <3> SUFFICES ASSUME NEW m \in bStill' \ bUnread'.mail, Move!ToBeKept(m)'
                 PROVE  \/ In(bPlace[m].dir, bTodo')
                        \/ In(Move!Path(m), bFiles') \/ In(Move!Path(m), bArchive)
      BY <2>1 DEF OnTheWay, Move!Path
    <3>1. m \in bStill \ bUnread.mail /\ m \in Message /\ Move!ToBeKept(m)
      BY <2>1 DEF MoveInv, MoveType, Move!ToBeKept
    <3>2. \/ In(bPlace[m].dir, bTodo)
          \/ In(Move!Path(m), bFiles) \/ In(Move!Path(m), bArchive)
      BY <2>1, <3>1 DEF MoveInv, OnTheWay
    <3>3. ~In(Move!Path(m), bFiles)
      BY <2>1 DEF In
    <3>4. CASE In(bPlace[m].dir, bTodo) /\ ~In(bPlace[m].dir, bTodo')
      <4>1. bPlace[m].dir = d
        BY <2>4, <3>4
      <4>2. d \notin Temporary /\ Move!DirFits(d)
        BY <3>1, <4>1, KeptFits
      <4>3. In(Move!Path(m), bFiles')
        BY <2>1, <2>2, <3>1, <4>1, <4>2
      <4>4. QED
        BY <4>3
    <3>5. QED
      BY <3>2, <3>3, <3>4
  <2>7. QED
    BY <1>0, <1>1, <2>5, <2>6 DEF MoveInv
<1>4. CASE Move!Open
  <2> DEFINE f == Head(bFiles)
             goes == f = Move!Path(f[2]) /\ Move!FileFits(f[1], f[2])
  <2>1. /\ bPc = "reading" /\ bPc' = bPc /\ bFiles # << >> /\ bFiles' = Tail(bFiles)
        /\ bArchive' = IF goes THEN Append(bArchive, f) ELSE bArchive
        /\ UNCHANGED <<bPlace, bStill, bTodo, bUnread, bLeft, bHost>>
    BY <1>4 DEF Move!Open, Move!source, Move!target
  <2>2. bFiles \in Seq(MoveEntry) /\ bArchive \in Seq(MoveEntry)
    BY DEF MoveInv, MoveType
  <2>3. /\ f \in MoveEntry /\ bFiles' \in Seq(MoveEntry)
        /\ \A x : In(x, bFiles) => x = f \/ In(x, bFiles')
    <3> HIDE DEF f
    <3>1. QED
      BY <2>1, <2>2, RowTail DEF f
  <2> HIDE DEF f
  <2>4. /\ bArchive' \in Seq(MoveEntry) /\ (goes => In(f, bArchive'))
        /\ \A x : In(x, bArchive) => In(x, bArchive')
    <3> HIDE DEF goes
    <3>1. QED
      BY <2>1, <2>2, <2>3, RowMore
  <2>5. MoveType'
    BY <2>1, <2>3, <2>4 DEF MoveInv, MoveType
  <2>6. OnTheWay'
    <3> SUFFICES ASSUME NEW m \in bStill' \ bUnread'.mail, Move!ToBeKept(m)'
                 PROVE  \/ In(bPlace[m].dir, bTodo)
                        \/ In(Move!Path(m), bFiles') \/ In(Move!Path(m), bArchive')
      BY <2>1 DEF OnTheWay, Move!Path
    <3>1. m \in bStill \ bUnread.mail /\ m \in Message /\ Move!ToBeKept(m)
      BY <2>1 DEF MoveInv, MoveType, Move!ToBeKept
    <3>2. \/ In(bPlace[m].dir, bTodo)
          \/ In(Move!Path(m), bFiles) \/ In(Move!Path(m), bArchive)
      BY <2>1, <3>1 DEF MoveInv, OnTheWay
    <3>3. CASE Move!Path(m) = f
      <4>1. f[1] = bPlace[m].dir /\ f[2] = m
        BY <3>3 DEF Move!Path
      <4>2. goes
        BY <3>1, <3>3, <4>1, KeptFits
      <4>3. QED
        BY <2>4, <3>3, <4>2
    <3>4. QED
      BY <2>3, <2>4, <3>2, <3>3
  <2>7. QED
    BY <1>0, <1>1, <2>5, <2>6 DEF MoveInv
<1>5. CASE Move!Complete
  <2>1. MoveType'
    BY <1>5 DEF MoveInv, MoveType, Move!Complete, Move!source, Move!backup, Move!target
  <2>2. OnTheWay'
    <3> SUFFICES ASSUME NEW m \in bStill \ bUnread.mail, Move!ToBeKept(m)
                 PROVE  In(Move!Path(m), bArchive)
      BY <1>5 DEF Move!Complete, Move!source, Move!backup, OnTheWay, Move!ToBeKept, Move!Path
    <3>1. bPc = "reading" /\ bFiles = << >> /\ bTodo = << >>
      BY <1>5 DEF Move!Complete
    <3>2. QED
      BY <3>1 DEF MoveInv, OnTheWay, In
  <2>3. QED
    BY <1>0, <1>1, <2>1, <2>2 DEF MoveInv
<1>6. CASE Move!BackupFails
  <2>1. MoveType'
    BY <1>6 DEF MoveInv, MoveType, Move!BackupFails, Move!target
  <2>2. OnTheWay'
    BY <1>6 DEF OnTheWay, Move!BackupFails
  <2>3. QED
    BY <1>0, <1>1, <2>1, <2>2 DEF MoveInv
<1>7. CASE Move!Shuffle
  <2>1. PICK x \in Message, to \in {Move!Nowhere} \union [dir : Move!Folder, flag : Flag] :
            Move!Mail(x, to)
    BY <1>7 DEF Move!Shuffle
  <2>2. /\ bPc = "reading" /\ bPc' = bPc
        /\ bPlace' = [bPlace EXCEPT ![x] = to] /\ bStill' = bStill \ {x}
        /\ UNCHANGED <<bTodo, bFiles, bArchive, bUnread, bLeft, bHost>>
    BY <2>1 DEF Move!Mail, Move!backup, Move!target
  <2>3. MoveType'
    <3>1. to \in MovePlace
      BY DEF MovePlace
    <3>2. QED
      BY <2>2, <3>1 DEF MoveInv, MoveType
  <2>4. OnTheWay'
    <3> SUFFICES ASSUME NEW m \in bStill' \ bUnread'.mail, Move!ToBeKept(m)'
                 PROVE  \/ In(bPlace'[m].dir, bTodo)
                        \/ In(Move!Path(m)', bFiles) \/ In(Move!Path(m)', bArchive)
      BY <2>2 DEF OnTheWay
    <3>1. m \in bStill \ bUnread.mail /\ m # x /\ bPlace'[m] = bPlace[m]
      BY <2>2 DEF MoveInv, MoveType
    <3>2. Move!ToBeKept(m) /\ Move!Path(m)' = Move!Path(m)
      BY <3>1 DEF Move!ToBeKept, Move!Path
    <3>3. QED
      BY <2>2, <3>1, <3>2 DEF MoveInv, OnTheWay
  <2>5. QED
    BY <1>0, <1>1, <2>3, <2>4 DEF MoveInv
<1>8. CASE Move!ListFails
  <2> DEFINE d == Head(bTodo)
             M == bUnread.mail \union {m \in Message : bPlace[m].dir = d}
  <2>1. /\ bPc = "reading" /\ bPc' = bPc /\ bFiles = << >> /\ bTodo # << >>
        /\ bTodo' = Tail(bTodo) /\ bUnread' = [bUnread EXCEPT !.mail = M]
        /\ UNCHANGED <<bPlace, bStill, bFiles, bArchive, bLeft, bHost>>
    BY <1>8 DEF Move!ListFails, Move!source, Move!target
  <2> HIDE DEF M
  <2>2. bUnread'.mail = M
    BY <2>1 DEF MoveInv, Packed
  <2>3. bTodo \in Seq(Move!Folder)
    BY DEF MoveInv, MoveType
  <2>4. bTodo' \in Seq(Move!Folder) /\ \A x : In(x, bTodo) => x = d \/ In(x, bTodo')
    <3> HIDE DEF d
    <3>1. QED
      BY <2>1, <2>3, RowTail DEF d
  <2> HIDE DEF d
  <2>5. MoveType'
    BY <2>1, <2>4 DEF MoveInv, MoveType
  <2>6. OnTheWay'
    <3> SUFFICES ASSUME NEW m \in bStill' \ bUnread'.mail, Move!ToBeKept(m)'
                 PROVE  \/ In(bPlace[m].dir, bTodo')
                        \/ In(Move!Path(m), bFiles) \/ In(Move!Path(m), bArchive)
      BY <2>1 DEF OnTheWay, Move!Path
    <3>1. m \in bStill /\ m \in Message /\ Move!ToBeKept(m) /\ m \notin M
      BY <2>1, <2>2 DEF MoveInv, MoveType, Move!ToBeKept
    <3>2. m \notin bUnread.mail /\ bPlace[m].dir # d
      BY <3>1 DEF M
    <3>3. QED
      BY <2>1, <2>4, <3>1, <3>2 DEF MoveInv, OnTheWay
  <2>7. QED
    BY <1>0, <1>1, <2>5, <2>6 DEF MoveInv
<1>9. CASE Move!OpenFails
  <2> DEFINE f == Head(bFiles)
             M == bUnread.mail \union {f[2]}
  <2>1. /\ bPc = "reading" /\ bPc' = bPc /\ bFiles # << >> /\ bFiles' = Tail(bFiles)
        /\ bUnread' = [bUnread EXCEPT !.mail = M]
        /\ UNCHANGED <<bPlace, bStill, bTodo, bArchive, bLeft, bHost>>
    BY <1>9 DEF Move!OpenFails, Move!source, Move!target
  <2> HIDE DEF M
  <2>2. bUnread'.mail = M
    BY <2>1 DEF MoveInv, Packed
  <2>3. bFiles \in Seq(MoveEntry)
    BY DEF MoveInv, MoveType
  <2>4. bFiles' \in Seq(MoveEntry) /\ \A x : In(x, bFiles) => x = f \/ In(x, bFiles')
    <3> HIDE DEF f
    <3>1. QED
      BY <2>1, <2>3, RowTail DEF f
  <2> HIDE DEF f
  <2>5. MoveType'
    BY <2>1, <2>4 DEF MoveInv, MoveType
  <2>6. OnTheWay'
    <3> SUFFICES ASSUME NEW m \in bStill' \ bUnread'.mail, Move!ToBeKept(m)'
                 PROVE  \/ In(bPlace[m].dir, bTodo)
                        \/ In(Move!Path(m), bFiles') \/ In(Move!Path(m), bArchive)
      BY <2>1 DEF OnTheWay, Move!Path
    <3>1. m \in bStill /\ m \in Message /\ Move!ToBeKept(m) /\ m \notin M
      BY <2>1, <2>2 DEF MoveInv, MoveType, Move!ToBeKept
    <3>2. m \notin bUnread.mail /\ m # f[2]
      BY <3>1 DEF M
    <3>3. Move!Path(m) # f
      BY <3>2 DEF Move!Path
    <3>4. QED
      BY <2>1, <2>4, <3>1, <3>2, <3>3 DEF MoveInv, OnTheWay
  <2>7. QED
    BY <1>0, <1>1, <2>5, <2>6 DEF MoveInv
<1>10. QED
  BY <1>2, <1>3, <1>4, <1>5, <1>6, <1>7, <1>8, <1>9

(* The restore: run_restore and extract_backup.                               *)
LEMMA RestoreStep ==
    ASSUME MoveInv,
           \/ \E force, damaged \in BOOLEAN : Move!Refuse(force, damaged)
           \/ \E force \in BOOLEAN : Move!Unpack(force)
           \/ Move!UnpackExtra \/ Move!UnpackFile \/ Move!UnpackFails \/ Move!PointConfig
    PROVE  MoveInv'
<1> USE MoveConstants
<1>0. Packed'
  BY PackedStep DEF MoveInv
<1>1. OnTheWay'
  <2>1. /\ OnTheWay /\ UNCHANGED <<bPlace, bStill, bArchive, bUnread>>
        /\ bPc \in {"archived", "unpacking", "restored"} /\ bPc' \notin {"reading"}
    BY DEF MoveInv, Move!Refuse, Move!Unpack, Move!UnpackExtra, Move!UnpackFile,
           Move!UnpackFails, Move!PointConfig, Move!source, Move!backup
  <2>2. QED
    BY <2>1, RestoreAlone
<1>2. ASSUME NEW force \in BOOLEAN, NEW damaged \in BOOLEAN, Move!Refuse(force, damaged)
      PROVE  MoveInv'
  <2>1. MoveType' /\ Unpacked'
    BY <1>2 DEF MoveInv, MoveType, Unpacked, Move!Refuse, Move!source, Move!backup, Move!target
  <2>2. QED
    BY <1>0, <1>1, <2>1 DEF MoveInv
<1>3. ASSUME NEW force \in BOOLEAN, Move!Unpack(force) PROVE MoveInv'
  <2>1. /\ bPc = "archived" /\ bPc' = "unpacking"
        /\ bHost' = [bHost EXCEPT !.config = IF bPacked.config THEN "copied" ELSE @]
        /\ bLeft' = [extras |-> Extras, data |-> bArchive]
        /\ UNCHANGED <<bPlace, bStill, bTodo, bFiles, bPacked, bArchive, bShape, bBefore>>
    BY <1>3 DEF Move!Unpack, Move!source, Move!backup
  <2>2. /\ bHost' = [config |-> bHost'.config, extras |-> bHost.extras, data |-> bHost.data]
        /\ bHost'.data = bHost.data /\ (bPacked.config => bHost'.config = "copied")
    BY <2>1 DEF MoveInv, MoveType
  <2>3. MoveType'
    BY <2>1, <2>2 DEF MoveInv, MoveType
  <2>4. KeysUpTo(0)'
    BY <2>1 DEF KeysUpTo
  <2>5. Unpacked'
    <3>1. 0 \in 0 .. Len(Extras)
      OBVIOUS
    <3>2. bLeft'.data = bArchive' /\ bPc' = "unpacking" /\ bBefore' = bBefore
      BY <2>1
    <3>3. bBefore.data \subseteq bHost.data
      BY DEF MoveInv, Unpacked
    <3>4. bPacked' = bPacked
      BY <2>1
    <3>5. QED
      BY <2>2, <2>4, <3>1, <3>2, <3>3, <3>4 DEF Unpacked
  <2>6. QED
    BY <1>0, <1>1, <2>3, <2>5 DEF MoveInv
<1>4. CASE Move!UnpackExtra
  <2> DEFINE k == Head(bLeft.extras)
             keys == IF k \notin bPacked.keys THEN bHost.extras
                     ELSE [b \in DOMAIN bHost.extras \union {Base[k]} |->
                             IF b = Base[k] THEN k ELSE bHost.extras[b]]
  <2>1. /\ bPc = "unpacking" /\ bPc' = bPc /\ bLeft.extras # << >>
        /\ \/ k \notin bPacked.keys /\ bHost' = bHost
           \/ k \in bPacked.keys /\ bHost' = [bHost EXCEPT !.extras = keys]
        /\ bLeft' = [bLeft EXCEPT !.extras = Tail(@)]
        /\ UNCHANGED <<bPlace, bStill, bTodo, bFiles, bPacked, bArchive, bShape, bBefore>>
    BY <1>4 DEF Move!UnpackExtra, Move!source, Move!backup
  <2>2. bLeft.extras \in Seq(DOMAIN Base) /\ bLeft.data \in Seq(MoveEntry)
    BY DEF MoveInv, MoveType
  <2>3. /\ k = bLeft.extras[1] /\ Tail(bLeft.extras) \in Seq(DOMAIN Base)
        /\ Len(bLeft.extras) \in Nat /\ Len(bLeft.extras) > 0
        /\ Len(Tail(bLeft.extras)) = Len(bLeft.extras) - 1
        /\ \A j \in 1 .. Len(bLeft.extras) - 1 : Tail(bLeft.extras)[j] = bLeft.extras[j + 1]
    <3> HIDE DEF k
    <3>1. QED
      BY <2>1, <2>2, RowTail DEF k
  <2>4. /\ bLeft' = [extras |-> Tail(bLeft.extras), data |-> bLeft.data]
        /\ bLeft'.extras = Tail(bLeft.extras) /\ bLeft'.data = bLeft.data
    BY <2>1 DEF MoveInv, MoveType
  <2>5. /\ bHost' = [config |-> bHost.config, extras |-> keys, data |-> bHost.data]
        /\ bHost'.extras = keys /\ bHost'.data = bHost.data /\ bHost'.config = bHost.config
    <3>1. k \notin bPacked.keys => keys = bHost.extras
      OBVIOUS
    <3> HIDE DEF keys, k
    <3>2. bHost = [config |-> bHost.config, extras |-> bHost.extras, data |-> bHost.data]
      BY DEF MoveInv, MoveType
    <3>3. CASE k \notin bPacked.keys /\ bHost' = bHost
      BY <3>1, <3>2, <3>3
    <3>4. CASE bHost' = [bHost EXCEPT !.extras = keys]
      BY <3>2, <3>4
    <3>5. QED
      BY <2>1, <3>3, <3>4
  <2>6. MoveType'
    <3> HIDE DEF keys, k
    <3>1. QED
      BY <2>1, <2>2, <2>3, <2>4, <2>5 DEF MoveInv, MoveType
  <2>7. PICK n \in 0 .. Len(Extras) : KeysUpTo(n)
    BY <2>1 DEF MoveInv, Unpacked
  <2>8. /\ n \in Nat /\ n + 1 \in 1 .. Len(Extras) /\ Len(Extras) \in Nat
        /\ Len(bLeft.extras) = Len(Extras) - n
        /\ \A j \in 1 .. Len(Extras) - n : bLeft.extras[j] = Extras[n + j]
    <3> HIDE DEF keys, k
    <3>1. /\ Len(bLeft.extras) = Len(Extras) - n
          /\ \A j \in 1 .. Len(Extras) - n : bLeft.extras[j] = Extras[n + j]
      BY <2>7 DEF KeysUpTo
    <3>2. Len(bLeft.extras) \in Nat /\ Len(bLeft.extras) > 0
      BY <2>3
    <3>3. Len(Extras) \in Nat
      OBVIOUS
    <3>4. QED
      BY <3>1, <3>2, <3>3
  <2>9. k = Extras[n + 1]
    BY <2>3, <2>8
  <2>10. ASSUME NEW i \in 1 .. n + 1, Alone(i), Extras[i] \in bPacked.keys
         PROVE  Base[Extras[i]] \in DOMAIN keys /\ keys[Base[Extras[i]]] = Extras[i]
    <3>1. CASE i = n + 1
      <4>1. Extras[i] = k /\ k \in bPacked.keys
        BY <2>9, <2>10, <3>1
      <4>2. keys = [b \in DOMAIN bHost.extras \union {Base[k]} |->
                       IF b = Base[k] THEN k ELSE bHost.extras[b]]
        BY <4>1
      <4> HIDE DEF keys, k
      <4>3. QED
        BY <4>1, <4>2
    <3>2. CASE i # n + 1
      <4>1. i \in 1 .. n /\ i \in DOMAIN Extras /\ n + 1 \in DOMAIN Extras
        BY <2>8, <3>2
      <4>2. /\ Base[Extras[i]] \in DOMAIN bHost.extras
            /\ bHost.extras[Base[Extras[i]]] = Extras[i]
        BY <2>7, <2>10, <4>1 DEF KeysUpTo
      <4>3. Base[Extras[i]] # Base[Extras[n + 1]]
        BY <2>10, <3>2, <4>1 DEF Alone
      <4>4. QED
        BY <2>9, <4>2, <4>3
    <3>3. QED
      BY <3>1, <3>2
  <2>11. KeysUpTo(n + 1)'
    <3>1. /\ Len(bLeft'.extras) = Len(Extras) - (n + 1)
          /\ \A j \in 1 .. Len(Extras) - (n + 1) : bLeft'.extras[j] = Extras[(n + 1) + j]
      <4>1. Len(Tail(bLeft.extras)) = Len(Extras) - (n + 1)
        BY <2>3, <2>8
      <4>2. ASSUME NEW j \in 1 .. Len(Extras) - (n + 1)
            PROVE  Tail(bLeft.extras)[j] = Extras[(n + 1) + j]
        <5>1. j \in 1 .. Len(bLeft.extras) - 1 /\ j + 1 \in 1 .. Len(Extras) - n
              /\ n + (j + 1) = (n + 1) + j
          BY <2>8
        <5>2. QED
          BY <2>3, <2>8, <5>1
      <4>3. QED
        BY <2>4, <4>1, <4>2
    <3>2. \A i \in 1 .. n + 1 : Alone(i) /\ Extras[i] \in bPacked.keys =>
              /\ Base[Extras[i]] \in DOMAIN bHost'.extras
              /\ bHost'.extras[Base[Extras[i]]] = Extras[i]
      <4> HIDE DEF keys
      <4>1. QED
        BY <2>5, <2>10
    <3>3. QED
      BY <2>1, <3>1, <3>2 DEF KeysUpTo, Alone
  <2>12. Unpacked'
    <3>1. n + 1 \in 0 .. Len(Extras)
      BY <2>8
    <3>2. \A f \in MoveEntry : In(f, bArchive) => f \in bHost.data \/ In(f, bLeft.data)
      BY <2>1 DEF MoveInv, Unpacked
    <3>3. /\ bBefore.data \subseteq bHost.data
          /\ bPacked.config => bHost.config = "copied"
      BY <2>1 DEF MoveInv, Unpacked
    <3> HIDE DEF keys
    <3>4. QED
      BY <2>1, <2>4, <2>5, <2>11, <3>1, <3>2, <3>3 DEF Unpacked
  <2>13. QED
    BY <1>0, <1>1, <2>6, <2>12 DEF MoveInv
<1>5. CASE Move!UnpackFile
  <2> DEFINE f == Head(bLeft.data)
  <2>1. /\ bPc = "unpacking" /\ bPc' = bPc /\ bLeft.data # << >>
        /\ bHost' = [bHost EXCEPT !.data = @ \union {f}]
        /\ bLeft' = [bLeft EXCEPT !.data = Tail(@)]
        /\ UNCHANGED <<bPlace, bStill, bTodo, bFiles, bPacked, bArchive, bShape, bBefore>>
    BY <1>5 DEF Move!UnpackFile, Move!source, Move!backup
  <2>2. bLeft.extras \in Seq(DOMAIN Base) /\ bLeft.data \in Seq(MoveEntry)
    BY DEF MoveInv, MoveType
  <2> HIDE DEF f
  <2>3. /\ Tail(bLeft.data) \in Seq(MoveEntry)
        /\ \A x : In(x, bLeft.data) => x = f \/ In(x, Tail(bLeft.data))
    BY <2>1, <2>2, RowTail DEF f
  <2>4. /\ bLeft' = [extras |-> bLeft.extras, data |-> Tail(bLeft.data)]
        /\ bLeft'.extras = bLeft.extras /\ bLeft'.data = Tail(bLeft.data)
    BY <2>1 DEF MoveInv, MoveType
  <2>5. /\ bHost' = [config |-> bHost.config, extras |-> bHost.extras,
                     data |-> bHost.data \union {f}]
        /\ bHost'.extras = bHost.extras /\ bHost'.data = bHost.data \union {f}
        /\ bHost'.config = bHost.config
    BY <2>1 DEF MoveInv, MoveType
  <2>6. MoveType'
    BY <2>1, <2>2, <2>3, <2>4, <2>5 DEF MoveInv, MoveType
  <2>7. Unpacked'
    <3>1. \A e \in MoveEntry : In(e, bArchive) => e \in bHost'.data \/ In(e, bLeft'.data)
      BY <2>1, <2>3, <2>4, <2>5 DEF MoveInv, Unpacked
    <3>2. \E n \in 0 .. Len(Extras) : KeysUpTo(n)'
      BY <2>1, <2>4, <2>5 DEF MoveInv, Unpacked, KeysUpTo
    <3>3. /\ bBefore.data \subseteq bHost'.data
          /\ bPacked.config => bHost'.config = "copied"
      BY <2>1, <2>5 DEF MoveInv, Unpacked
    <3>4. QED
      BY <2>1, <3>1, <3>2, <3>3 DEF Unpacked
  <2>8. QED
    BY <1>0, <1>1, <2>6, <2>7 DEF MoveInv
<1>6. CASE Move!UnpackFails
  <2>1. MoveType' /\ Unpacked'
    BY <1>6 DEF MoveInv, MoveType, Unpacked, Move!UnpackFails, Move!source, Move!backup,
                    Move!target
  <2>2. QED
    BY <1>0, <1>1, <2>1 DEF MoveInv
<1>7. CASE Move!PointConfig
  <2>1. /\ bPc = "unpacking" /\ bPc' = "restored" /\ bLeft.extras = << >> /\ bLeft.data = << >>
        /\ bHost' = [bHost EXCEPT !.config = Move!Rewritten]
        /\ UNCHANGED <<bPlace, bStill, bTodo, bFiles, bPacked, bArchive, bShape, bLeft,
                       bBefore>>
    BY <1>7 DEF Move!PointConfig, Move!source, Move!backup
  <2>2. /\ bHost' = [config |-> Move!Rewritten, extras |-> bHost.extras, data |-> bHost.data]
        /\ bHost'.config = Move!Rewritten
        /\ bHost'.extras = bHost.extras /\ bHost'.data = bHost.data
    BY <2>1 DEF MoveInv, MoveType
  <2>3. MoveType'
    BY <2>1, <2>2 DEF MoveInv, MoveType
  <2>4. Unpacked'
    <3>1. \A e \in MoveEntry : In(e, bArchive) => e \in bHost'.data \/ In(e, bLeft'.data)
      BY <2>1, <2>2 DEF MoveInv, Unpacked
    <3>2. \E n \in 0 .. Len(Extras) : KeysUpTo(n)'
      BY <2>1, <2>2 DEF MoveInv, Unpacked, KeysUpTo
    <3>3. bBefore.data \subseteq bHost'.data
      BY <2>2 DEF MoveInv, Unpacked
    <3>4. bShape' = "named" /\ bPacked'.config => bHost'.config = "here"
      BY <2>1, <2>2 DEF MoveInv, Unpacked, Move!Rewritten
    <3>5. QED
      BY <2>1, <3>1, <3>2, <3>3, <3>4 DEF Unpacked
  <2>5. QED
    BY <1>0, <1>1, <2>3, <2>4 DEF MoveInv
<1>8. QED
  BY <1>2, <1>3, <1>4, <1>5, <1>6, <1>7

(* The backup in every behaviour of the sum.                                  *)
LEMMA MoveInvariant == SiteSpec => []MoveInv
<1>1. SiteInit => MoveInv
  <2> SUFFICES ASSUME Move!Init PROVE MoveInv
    BY DEF SiteInit
  <2> USE MoveConstants
  <2>0. /\ bPlace \in [Message -> {Move!Nowhere}
                               \union [dir : Move!Folder, flag : {CHOOSE f \in Flag : TRUE}]]
        /\ bPc = "serving" /\ bTodo = << >> /\ bFiles = << >> /\ bArchive = << >>
        /\ bUnread = Move!Unread /\ bStill = {}
        /\ bLeft = [extras |-> << >>, data |-> << >>]
        /\ bHost \in {Move!Fresh, Move!Old} /\ bBefore = bHost
    BY Zenon DEF Move!Init
  <2>1. bPlace \in [Message -> MovePlace]
    <3>1. [dir : Move!Folder, flag : {CHOOSE f \in Flag : TRUE}] \subseteq MovePlace
      BY DEF MovePlace
    <3>2. QED
      BY <2>0, <3>1
  <2>2. bHost = [config |-> bHost.config, extras |-> bHost.extras, data |-> bHost.data]
    BY <2>0 DEF Move!Fresh, Move!Old
  <2>3. MoveType
    <3>1. bLeft \in [extras : Seq(DOMAIN Base), data : Seq(MoveEntry)]
      BY <2>0, EmptyRow
    <3>2. bTodo \in Seq(Move!Folder) /\ bFiles \in Seq(MoveEntry) /\ bArchive \in Seq(MoveEntry)
      BY <2>0, EmptyRow
    <3>3. QED
      BY <2>0, <2>1, <2>2, <3>1, <3>2 DEF MoveType
  <2>4. Packed /\ OnTheWay /\ Unpacked
    <3>1. Packed
      BY <2>0 DEF Packed, Move!Unread
    <3>2. OnTheWay /\ Unpacked
      BY <2>0 DEF OnTheWay, Unpacked
    <3>3. QED
      BY <3>1, <3>2
  <2>5. QED
    BY <2>3, <2>4 DEF MoveInv
<1>2. MoveInv /\ [SiteNext]_allVars => MoveInv'
  <2>1. ASSUME MoveInv, UNCHANGED bVars PROVE MoveInv'
    BY <2>1 DEF bVars, MoveInv, MoveType, Packed, OnTheWay, Unpacked, KeysUpTo, Move!ToBeKept,
                Move!Path
  <2>2. ASSUME MoveInv, Move!Next PROVE MoveInv'
    <3>1. CASE Move!Rest
      BY <2>1, <2>2, <3>1 DEF Move!Rest, Move!vars, bVars
    <3>2. QED
      BY <2>2, <3>1, BackupStep, RestoreStep DEF Move!Next
  <2>3. QED
    BY <2>1, <2>2 DEF SiteNext, allVars
<1>3. QED
  BY <1>1, <1>2, PTL DEF SiteSpec, allVars

(* A restore that ends well has every message that was left alone during the  *)
(* backup and fits into the archive, every key file with a name of its own,   *)
(* but for those that could not be read, and what was there before; one that  *)
(* is refused changes no file (build_tar, add_dir_recursive, extract_backup,  *)
(* run_restore).                                                              *)
THEOREM MovesWhole == SiteSpec => []MovedWhole
<1>1. MoveInv => MovedWhole
  <2> SUFFICES ASSUME MoveInv PROVE MovedWhole
    OBVIOUS
  <2>1. ASSUME bPc = "restored", NEW m \in bStill \ bUnread.mail, Move!ToBeKept(m)
        PROVE  Move!Path(m) \in bHost.data
    <3>1. In(Move!Path(m), bArchive)
      BY <2>1 DEF MoveInv, OnTheWay
    <3>2. Move!Path(m) \in MoveEntry
      <4>1. m \in Message /\ bPlace[m] \in MovePlace
        BY DEF MoveInv, MoveType
      <4>2. QED
        BY <4>1 DEF MovePlace, MoveEntry, Move!Path
    <3>3. ~In(Move!Path(m), bLeft.data)
      BY <2>1 DEF MoveInv, Unpacked, In
    <3>4. QED
      BY <2>1, <3>1, <3>2, <3>3 DEF MoveInv, Unpacked
  <2>2. ASSUME bPc = "restored", NEW i \in DOMAIN Extras, Alone(i),
               Extras[i] \notin bUnread.keys
        PROVE  bHost.extras[Base[Extras[i]]] = Extras[i]
    <3>1. PICK n \in 0 .. Len(Extras) : KeysUpTo(n)
      BY <2>2 DEF MoveInv, Unpacked
    <3>2. bLeft.extras = << >>
      BY <2>2 DEF MoveInv, Unpacked
    <3>3. n = Len(Extras)
      BY <3>1, <3>2, MoveConstants DEF KeysUpTo
    <3>4. i \in 1 .. n
      BY <3>3, MoveConstants
    <3>5. Extras[i] \in bPacked.keys
      BY <2>2 DEF MoveInv, Packed
    <3>6. QED
      BY <2>2, <3>1, <3>4, <3>5 DEF KeysUpTo
  <2>3. /\ bPc = "restored" =>
              (bShape = "named" /\ ~bUnread.config => bHost.config = "here")
        /\ bBefore.data \subseteq bHost.data
        /\ bPc = "refused" => bHost = bBefore
    BY DEF MoveInv, Packed, Unpacked
  <2>4. QED
    BY <2>1, <2>2, <2>3 DEF MovedWhole, Move!MovedWhole, Alone
<1>2. QED
  BY <1>1, MoveInvariant, PTL
===============================================================================

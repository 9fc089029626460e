------------------------------- MODULE WebGate -------------------------------
(* What a request to the web server passes through before it may do anything: *)
(* route, route_inner and the checks at the head of the handlers in web.rs.   *)
(* The session, the state of the setup, the account, the admin's name and the *)
(* form's token are each looked up at a moment of their own, while other      *)
(* requests sign out, remove accounts or complete the setup, and the server   *)
(* restarts, which ends all sessions and makes old form tokens worthless.     *)
(*                                                                            *)
(* A browser has a session cookie and the token of the last form it was       *)
(* given, follows redirects, and may be made to send a request by a foreign   *)
(* page: with its cookie, but without the token.  Accounts, and what the      *)
(* handlers do, are those of Administration.tla; allow_default_password_auth  *)
(* is off.                                                                    *)
EXTENDS Naturals, FiniteSets

CONSTANTS
    Browser,
    User, Admin,      \* accounts, and the name of the admin
    TlsActive,        \* the HTTPS listener is bound
    MaxSessions, MaxRestarts   \* bounds

WebGateAssumption ==
    /\ Admin \in User /\ TlsActive \in BOOLEAN
    /\ MaxSessions \in Nat /\ MaxRestarts \in Nat

Page    == {"probe", "setup", "login", "logout", "user", "admin", "unknown"}
NoToken == 0
Many    == 4      \* redirects, or more

VARIABLES
    accounts,   \* those that exist; none before the setup
    sessions,   \* token |-> user
    seed,       \* of this run of the process
    trusted,    \* trust_proxy_headers, as this run of the process read it
    minted,     \* sessions so far
    jar, form,  \* of each browser: its cookie, and the form token it holds
    req, pc,    \* the request under way
    actor,      \* whom the session was found to belong to
    hops,       \* redirects followed
    acts        \* what the last request did: for whom, where, by a foreign page?

vars == <<accounts, sessions, seed, trusted, minted, jar, form, req, pc, actor, hops, acts>>
store == <<accounts, sessions, seed, trusted, minted>>
held  == <<jar, form>>

Nobody == "nobody"
NoReq  == [method |-> "GET", page |-> "login", tls |-> FALSE, peer |-> "remote",
           proxied |-> FALSE, site |-> "none", csrf |-> <<NoToken, 0>>, foreign |-> FALSE]

Init ==
    /\ accounts \in {{}, User}
    /\ sessions = << >> /\ seed = 0 /\ minted = 0 /\ trusted \in BOOLEAN
    /\ jar = [b \in Browser |-> NoToken] /\ form = [b \in Browser |-> <<NoToken, 0>>]
    /\ req = [b \in Browser |-> NoReq] /\ pc = [b \in Browser |-> "idle"]
    /\ actor = [b \in Browser |-> Nobody] /\ hops = [b \in Browser |-> 0]
    /\ acts = {}

Step(b, from, to) == pc[b] = from /\ pc' = [pc EXCEPT ![b] = to]
Answered(b, from) ==
    /\ Step(b, from, "idle")
    /\ req' = [req EXCEPT ![b] = NoReq]
    /\ actor' = [actor EXCEPT ![b] = Nobody] /\ hops' = [hops EXCEPT ![b] = 0]

(* The browser's own request: a page, or the form it holds.                   *)
Send(b, r) ==
    /\ Step(b, "idle", "sent")
    /\ req' = [req EXCEPT ![b] = [r EXCEPT !.csrf = form[b], !.site = "own", !.foreign = FALSE]]
    /\ acts' = {}
    /\ UNCHANGED <<store, held, actor, hops>>

(* A foreign page makes it send one; old browsers do not say where from.      *)
SendForeign(b, r) ==
    /\ Step(b, "idle", "sent")
    /\ \E site \in {"cross", "untold"} :
           req' = [req EXCEPT ![b] =
               [r EXCEPT !.csrf = <<NoToken, 0>>, !.site = site, !.foreign = TRUE]]
    /\ acts' = {}
    /\ UNCHANGED <<store, held, actor, hops>>

(* A redirect is followed with a GET, as long as there are not too many.      *)
Redirected(b, from, page, tls) ==
    /\ Step(b, from, "sent")
    /\ req' = [req EXCEPT ![b] = [@ EXCEPT !.method = "GET", !.page = page, !.tls = tls]]
    /\ hops' = [hops EXCEPT ![b] = IF @ < Many THEN @ + 1 ELSE Many]

(* A browser does not follow them for ever.                                   *)
GiveUp(b) ==
    /\ hops[b] = Many /\ Answered(b, "sent")
    /\ UNCHANGED <<store, held, acts>>

-------------------------------------------------------------------------------
(* Mutant: the proxy's header is not looked at. *)
IsHttpsDirect(r) == r.tls /\ ~r.proxied

(* connection_is_https, tls_ux_decision.  A proxy that speaks HTTPS to the    *)
(* browser says so in X-Forwarded-Proto, which is believed if it is trusted,  *)
(* and the redirect leads to it again.                                        *)
IsHttps(r) == IF r.proxied THEN trusted /\ r.tls ELSE r.tls

Secure(r) == IsHttps(r)
ToHttps(r) == r.page # "probe" /\ ~Secure(r) /\ r.peer # "loopback" /\ TlsActive

(* same_origin_ok, csrf_ok, require_auth_post; the token is derived from the  *)
(* session and the seed.                                                      *)
SameOrigin(r) == r.site \in {"own", "untold"}
CsrfOk(b)     == jar[b] # NoToken /\ req[b].csrf = <<jar[b], seed>>

(* Mutant: one of the two checks is enough. *)
AuthPostEither(b) == SameOrigin(req[b]) \/ CsrfOk(b)
AuthPost(b) == SameOrigin(req[b]) /\ CsrfOk(b)

(* setup_access_ok: on the host itself, or with the setup token, which only   *)
(* whoever fills in the form may know.                                        *)
SetupAccess(r) == r.peer = "loopback" \/ ~r.foreign

Pending == accounts = {}

-------------------------------------------------------------------------------
(* route: the session, then what needs none, then HTTPS.                      *)
Lookup(b) ==
    /\ Step(b, "sent", "routed")
    /\ actor' = [actor EXCEPT ![b] =
           IF jar[b] \in DOMAIN sessions THEN sessions[jar[b]] ELSE Nobody]
    /\ UNCHANGED <<store, held, req, hops, acts>>

RedirectTls(b) ==
    /\ ToHttps(req[b])
    /\ Redirected(b, "routed", req[b].page, TRUE)
    /\ UNCHANGED <<store, held, actor, acts>>

(* Health probe, metrics and ACME challenges need neither session nor HTTPS.  *)
Probe(b) ==
    /\ req[b].page = "probe" /\ Answered(b, "routed")
    /\ UNCHANGED <<store, held, acts>>

(* route_inner: before the setup is done everything leads to it ...           *)
ToSetup(b) ==
    /\ ~ToHttps(req[b]) /\ Pending /\ req[b].page \notin {"setup", "probe"}
    /\ Redirected(b, "routed", "setup", req[b].tls)
    /\ UNCHANGED <<store, held, actor, acts>>

Inner(b) ==
    /\ ~ToHttps(req[b]) /\ req[b].page # "probe" /\ (Pending => req[b].page = "setup")
    /\ Step(b, "routed", IF Pending THEN "setup" ELSE "page")
    /\ UNCHANGED <<store, held, req, actor, hops, acts>>

(* The page, also for a form that is refused: for want of access, as foreign, *)
(* after too many attempts, or for what was entered.                          *)
SetupPage(b) ==
    /\ Answered(b, "setup")
    /\ UNCHANGED <<store, held, acts>>

SignedIn(b, u, page) ==
    /\ minted < MaxSessions
    /\ minted' = minted + 1
    /\ sessions' = [t \in DOMAIN sessions \union {minted + 1} |->
                      IF t = minted + 1 THEN u ELSE sessions[t]]
    /\ jar' = [jar EXCEPT ![b] = minted + 1]
    /\ Redirected(b, pc[b], page, req[b].tls)

(* handle_setup; the account may be there by now, and then the edit fails.    *)
Setup(b) ==
    /\ pc[b] = "setup" /\ req[b].method = "POST"
    /\ SetupAccess(req[b]) /\ SameOrigin(req[b]) /\ Pending
    /\ accounts' = User
    /\ SignedIn(b, Admin, "user")
    /\ UNCHANGED <<seed, trusted, form, actor, acts>>

SetupLate(b) ==
    /\ Answered(b, "setup") /\ req[b].method = "POST" /\ ~Pending
    /\ UNCHANGED <<store, held, acts>>

(* ... and afterwards nothing does.                                           *)
SetupOver(b) ==
    /\ req[b].page = "setup"
    /\ Redirected(b, "page", "login", req[b].tls)
    /\ UNCHANGED <<store, held, actor, acts>>

LoginPage(b) ==
    /\ req[b].page = "login" /\ Answered(b, "page")
    /\ UNCHANGED <<store, held, acts>>

(* handle_login, and an invitation taken up.                                  *)
Login(b, u) ==
    /\ pc[b] = "page" /\ req[b].page = "login" /\ req[b].method = "POST"
    /\ u \in accounts
    /\ SignedIn(b, u, "user")
    /\ UNCHANGED <<accounts, seed, trusted, form, actor, acts>>

Cleared(b) ==
    /\ sessions' = [t \in DOMAIN sessions \ {jar[b]} |-> sessions[t]]
    /\ jar' = [jar EXCEPT ![b] = NoToken]

Logout(b) ==
    /\ req[b].page = "logout"
    /\ Cleared(b)
    /\ Redirected(b, "page", "login", req[b].tls)
    /\ UNCHANGED <<accounts, seed, trusted, minted, form, actor, acts>>

Inside(b) == req[b].page \in {"user", "admin", "unknown"}

(* Signed out: to the login, and later back to the page if it is a known one. *)
ToLogin(b) ==
    /\ Inside(b) /\ actor[b] = Nobody
    /\ Redirected(b, "page", "login", req[b].tls)
    /\ UNCHANGED <<store, held, actor, acts>>

(* The account is gone: so is the session.                                    *)
Revoke(b) ==
    /\ Inside(b) /\ actor[b] # Nobody /\ actor[b] \notin accounts
    /\ Cleared(b)
    /\ Redirected(b, "page", "login", req[b].tls)
    /\ UNCHANGED <<accounts, seed, trusted, minted, form, actor, acts>>

Enter(b) ==
    /\ Inside(b) /\ actor[b] \in accounts
    /\ Step(b, "page", IF req[b].page = "unknown" THEN "show" ELSE "handler")
    /\ UNCHANGED <<store, held, req, actor, hops, acts>>

(* The handlers: only the admin gets past the head of an admin page.          *)
Denied(b) ==
    /\ req[b].page = "admin" /\ actor[b] # Admin /\ Answered(b, "handler")
    /\ UNCHANGED <<store, held, acts>>

Allowed(b) ==
    /\ req[b].page = "admin" => actor[b] = Admin
    /\ Step(b, "handler", IF req[b].method = "GET" THEN "show" ELSE "post")
    /\ UNCHANGED <<store, held, req, actor, hops, acts>>

(* A page carries the token of the session it was asked for with.             *)
Show(b) ==
    /\ Answered(b, "show")
    /\ form' = [form EXCEPT ![b] = <<jar[b], seed>>]
    /\ UNCHANGED <<store, jar, acts>>

Expired(b) ==
    /\ ~AuthPost(b) /\ Answered(b, "post")
    /\ UNCHANGED <<store, held, acts>>

(* An account is removed, and its sessions.                                    *)
WithoutAccount(u) ==
    /\ u # Admin /\ accounts' = accounts \ {u}
    /\ sessions' = [t \in {t \in DOMAIN sessions : sessions[t] # u} |-> sessions[t]]

Act(b) ==
    /\ AuthPost(b) /\ Answered(b, "post")
    /\ acts' = {[user |-> actor[b], page |-> req[b].page, foreign |-> req[b].foreign]}
    /\ \/ UNCHANGED <<accounts, sessions>>
       \/ req[b].page = "admin" /\ \E u \in accounts : WithoutAccount(u)
    /\ UNCHANGED <<seed, trusted, minted, held>>

(* Requests under way are answered by nobody; the operator may have edited    *)
(* the configuration.                                                         *)
Restart ==
    /\ seed < MaxRestarts
    /\ seed' = seed + 1 /\ trusted' \in BOOLEAN
    /\ sessions' = << >>
    /\ pc' = [b \in Browser |-> "idle"]
    /\ req' = [b \in Browser |-> NoReq]
    /\ actor' = [b \in Browser |-> Nobody] /\ hops' = [b \in Browser |-> 0]
    /\ UNCHANGED <<accounts, minted, held, acts>>

(* Meanwhile other browsers complete the setup, or remove an account.         *)
SetupElsewhere ==
    /\ Pending /\ accounts' = User
    /\ UNCHANGED <<sessions, seed, trusted, minted, held, req, pc, actor, hops, acts>>

RemoveElsewhere(u) ==
    /\ u \in accounts /\ WithoutAccount(u)
    /\ UNCHANGED <<seed, trusted, minted, held, req, pc, actor, hops, acts>>

Serve(b) ==
    \/ GiveUp(b) \/ Lookup(b) \/ Probe(b) \/ RedirectTls(b) \/ ToSetup(b) \/ Inner(b)
    \/ SetupPage(b) \/ Setup(b) \/ SetupLate(b) \/ SetupOver(b) \/ LoginPage(b)
    \/ (\E u \in User : Login(b, u)) \/ Logout(b) \/ ToLogin(b) \/ Revoke(b)
    \/ Enter(b) \/ Denied(b) \/ Allowed(b) \/ Show(b) \/ Expired(b) \/ Act(b)

Requests ==
    [method : {"GET", "POST"}, page : Page, tls : {FALSE, TlsActive},
     peer : {"loopback", "remote"}, proxied : BOOLEAN,
     site : {"none"}, csrf : {<<NoToken, 0>>}, foreign : {FALSE}]

Next ==
    \/ \E b \in Browser, r \in Requests : Send(b, r) \/ SendForeign(b, r)
    \/ \E b \in Browser : Serve(b)
    \/ Restart \/ SetupElsewhere \/ \E u \in User : RemoveElsewhere(u)

Spec == Init /\ [][Next]_vars

-------------------------------------------------------------------------------
(* A proxy on another host that ends TLS and is not trusted: every request    *)
(* through it looks like plain HTTP.                                          *)
Circles(r) ==
    TlsActive /\ ~trusted /\ r.proxied /\ r.peer = "remote" /\ r.page # "probe"

(* Redirects end: to HTTPS, to the setup or the login, and from there to a    *)
(* page, whatever is signed out, removed or set up meanwhile (route,          *)
(* tls_ux_decision).  The one way in which they go on for ever is through a   *)
(* proxy that is not trusted while the HTTPS listener is bound.               *)
RedirectsEnd == \A b \in Browser : hops[b] > 3 => Circles(req[b])

(* Whatever is done, is done at the wish of the user it is done for, and on   *)
(* the admin's pages that is the admin (require_auth_post, is_admin).         *)
ActsAreMeant == \A a \in acts : ~a.foreign /\ a.user \in User /\ (a.page = "admin" => a.user = Admin)
===============================================================================

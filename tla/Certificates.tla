----------------------------- MODULE Certificates -----------------------------
(* The server's certificate: acme.rs obtains and renews it in background      *)
(* threads, main.rs loads it when the process starts.                         *)
(*                                                                            *)
(* One thread is the renewal loop, which looks every twelve hours; the admin  *)
(* page starts one-shot threads beside it.  They share three files - the      *)
(* account key, the certificate and its private key, each written in place -  *)
(* and the map of the challenges that the web server answers.                 *)
(*                                                                            *)
(* The authority is external: for each name of an order it makes an           *)
(* authorization with a token of its own, or gives one again that another     *)
(* order of the same account has under way, and it fetches what the web       *)
(* server answers for the token.  A tick of the clock stands for a stretch of *)
(* days in which the loop looks at least once: it only ticks while the        *)
(* process runs and no thread is at work (an issuance takes minutes).         *)
EXTENDS Integers, FiniteSets

CONSTANTS
    Loop,         \* the renewal loop
    Shot,         \* one-shot threads
    Domains,      \* names on the certificate
    Life, Ahead,  \* lifetime, and how long before its end it is renewed (30 days)
    MaxAge,       \* age at which a file that openssl cannot date is renewed (60 days)
    MaxClock, MaxOrders, MaxStops,    \* bounds of the model
    Tolerance     \* looks in a row that may fail

CertificateAssumption ==
    /\ Loop \notin Shot
    /\ {Domains, Life, Ahead, MaxAge, MaxClock, MaxOrders, MaxStops, Tolerance} \subseteq Nat
    /\ Domains > 0 /\ Ahead < Life
    /\ Tolerance < Ahead /\ MaxAge + Tolerance < Life

VARIABLES
    clock, up, stops,
    dated,      \* the openssl command is there and can read a whole certificate
    acme,       \* acme = true in the config file
    cert, key,  \* the two files: order they belong to, when written, until when valid
    account,    \* account.key: whose it is
    served,     \* the certificate the listeners present
    tokens,     \* challenge |-> account that answers it (http01_tokens)
    validated,  \* at the authority: challenges to fetch, and their outcome
    pc, acct, order, left,   \* of each thread
    authz,      \* of each thread and name: the order the authorization was made for
    dropped,    \* threads whose token another took away while it was to be fetched
    orders,
    failing,    \* looks of the loop in a row that failed
    worst,      \* the most of them so far
    raced       \* the two files were written by two at once, or not to the end

vars == <<clock, up, stops, dated, acme, cert, key, account, served, tokens, validated,
          pc, acct, order, left, authz, dropped, orders, failing, worst, raced>>

files   == <<cert, key, account>>
host    == <<clock, up, stops, dated, acme, served>>
past    == <<failing, worst, raced>>
working == <<acct, order, left, authz, dropped>>

Thread  == {Loop} \union Shot
NoKey   == "none"
Absent  == [kind |-> "absent", id |-> 0, at |-> 0, until |-> 0]
Broken  == [kind |-> "broken", id |-> 0, at |-> clock, until |-> 0]
Whole(i, until) == [kind |-> "whole", id |-> i, at |-> clock, until |-> until]

Resting(t) == pc[t] \in {"idle", "sleep"}
Writing(t) == pc[t] \in {"certWrite", "keyCreate", "keyWrite"}

(* The challenge that thread t is at. *)
Challenge(t) == <<authz[t][left[t]], left[t]>>
(* All those of its order.                                                    *)
Held(t) == IF order[t] = 0 THEN {} ELSE {<<authz[t][d], d>> : d \in 1 .. Domains}
(* The others that have set its token.                                        *)
Sharing(t) == {s \in Thread \ {t} : pc[s] \in {"notify", "poll"} /\ Challenge(s) = Challenge(t)}
NoAuthz == [d \in 1 .. Domains |-> 0]

-------------------------------------------------------------------------------
Init ==
    /\ clock = 0 /\ up = FALSE /\ stops = 0
    /\ dated \in BOOLEAN /\ acme \in BOOLEAN
    /\ cert = Absent /\ key = Absent /\ account = NoKey
    /\ served = Absent
    /\ tokens = << >> /\ validated = << >>
    /\ pc = [t \in Thread |-> "idle"]
    /\ acct = [t \in Thread |-> NoKey]
    /\ order = [t \in Thread |-> 0] /\ left = [t \in Thread |-> 0]
    /\ authz = [t \in Thread |-> NoAuthz] /\ dropped = {}
    /\ orders = 0 /\ failing = 0 /\ worst = 0 /\ raced = FALSE

Step(t, from, to) == up /\ pc[t] = from /\ pc' = [pc EXCEPT ![t] = to]

(* rustls refuses a key that does not fit the certificate: TLS is disabled.   *)
Loadable == cert.kind = "whole" /\ key.kind = "whole" /\ cert.id = key.id

ServerStart ==
    /\ ~up
    /\ up' = TRUE
    /\ served' = IF Loadable THEN cert ELSE Absent
    /\ pc' = [pc EXCEPT ![Loop] = IF acme THEN "check" ELSE "idle"]
    /\ UNCHANGED <<clock, stops, dated, acme, files, tokens, validated, working, orders, past>>

(* The end of the process, at the end of its grace period or by a crash.      *)
Stop ==
    /\ up /\ stops < MaxStops
    /\ up' = FALSE /\ stops' = stops + 1
    /\ served' = Absent /\ tokens' = << >>
    /\ pc' = [t \in Thread |-> "idle"]
    /\ validated' = << >>
    /\ acct' = [t \in Thread |-> NoKey]
    /\ order' = [t \in Thread |-> 0] /\ left' = [t \in Thread |-> 0]
    /\ authz' = [t \in Thread |-> NoAuthz] /\ dropped' = {}
    /\ raced' = (raced \/ \E t \in Thread : Writing(t))
    /\ UNCHANGED <<clock, dated, acme, files, orders, failing, worst>>

(* The admin page turns ACME on: the first time the loop starts, later a      *)
(* thread beside it.                                                          *)
Enable(s) ==
    /\ up
    /\ acme' = TRUE
    /\ IF pc[Loop] = "idle" THEN pc' = [pc EXCEPT ![Loop] = "check"]
                            ELSE pc[s] = "idle" /\ pc' = [pc EXCEPT ![s] = "check"]
    /\ UNCHANGED <<clock, up, stops, dated, served, files, tokens, validated, working, orders,
                   past>>

Tick ==
    /\ up /\ clock < MaxClock
    /\ \A t \in Thread : Resting(t)
    /\ clock' = clock + 1
    /\ pc' = [pc EXCEPT ![Loop] = IF @ = "sleep" THEN "check" ELSE @]
    /\ UNCHANGED <<up, stops, dated, acme, served, files, tokens, validated, working, orders,
                   past>>

(* An issuance is over: nothing of it is left in the thread, and the          *)
(* authority fetches no more of its challenges, but those of others too.      *)
Ended(t) ==
    /\ acct' = [acct EXCEPT ![t] = NoKey]
    /\ order' = [order EXCEPT ![t] = 0] /\ left' = [left EXCEPT ![t] = 0]
    /\ authz' = [authz EXCEPT ![t] = NoAuthz] /\ dropped' = dropped \ {t}
    /\ LET others == UNION {Held(s) : s \in Thread \ {t}}
       IN  validated' = [c \in DOMAIN validated \intersect others |-> validated[c]]

-------------------------------------------------------------------------------
(* Mutant: renewed once it has expired. *)
NeedsRenewalExpired ==
    CASE cert.kind = "absent"          -> TRUE
      [] cert.kind = "whole" /\ dated  -> cert.until < clock
      [] OTHER                         -> clock - cert.at > MaxAge

(* needs_renewal.                                                             *)
NeedsRenewal ==
    CASE cert.kind = "absent"          -> TRUE
      [] cert.kind = "whole" /\ dated  -> cert.until < clock + Ahead
      [] OTHER                         -> clock - cert.at > MaxAge

Rest(t) == IF t = Loop THEN "sleep" ELSE "idle"
Looked(t, ok) ==
    /\ failing' = IF t = Loop THEN (IF ok THEN 0 ELSE failing + 1) ELSE failing
    /\ worst' = IF failing' > worst THEN failing' ELSE worst

CheckValid(t) ==
    /\ ~NeedsRenewal /\ Step(t, "check", Rest(t))
    /\ Looked(t, TRUE)
    /\ UNCHANGED <<host, files, tokens, validated, working, orders, raced>>

CheckDue(t) ==
    /\ NeedsRenewal /\ orders < MaxOrders
    /\ Step(t, "check", IF account = NoKey THEN "accountCreate" ELSE "order")
    /\ acct' = [acct EXCEPT ![t] = account]
    /\ UNCHANGED <<host, files, tokens, validated, order, left, authz, dropped, orders, past>>

(* A new account key, written in place: a half-written one (t's is then      *)
(* "broken") makes every later issuance fail.                                 *)
AccountCreate(t) ==
    /\ Step(t, "accountCreate", "accountWrite")
    /\ account' = "broken"
    /\ UNCHANGED <<host, cert, key, tokens, validated, working, orders, past>>

AccountWrite(t) ==
    /\ Step(t, "accountWrite", "order")
    /\ account' = t
    /\ acct' = [acct EXCEPT ![t] = t]
    /\ UNCHANGED <<host, cert, key, tokens, validated, order, left, authz, dropped, orders,
                   past>>

(* newAccount and newOrder.  The authorization of a name is new, or that of   *)
(* another thread of the same account, if it has not failed.                  *)
Made(t, d) == {authz[s][d] : s \in {s \in Thread \ {t} :
                  order[s] # 0 /\ acct[s] = acct[t]
                  /\ (<<authz[s][d], d>> \in DOMAIN validated
                         => validated[<<authz[s][d], d>>] # "invalid")}}
Order(t) ==
    /\ acct[t] # "broken" /\ orders < MaxOrders
    /\ Step(t, "order", "authz")
    /\ orders' = orders + 1
    /\ order' = [order EXCEPT ![t] = orders + 1]
    /\ left' = [left EXCEPT ![t] = Domains]
    /\ \E from \in [1 .. Domains -> 1 .. orders + 1] :
         /\ \A d \in 1 .. Domains : from[d] \in {orders + 1} \union Made(t, d)
         /\ authz' = [authz EXCEPT ![t] = from]
    /\ UNCHANGED <<host, files, tokens, validated, acct, dropped, past>>

With(f, k, v) == [x \in DOMAIN f \union {k} |-> IF x = k THEN v ELSE f[x]]
Without(f, k) == [x \in DOMAIN f \ {k} |-> f[x]]

(* For each name: set_http01 ...                                              *)
SetToken(t) ==
    /\ left[t] > 0 /\ Step(t, "authz", "notify")
    /\ tokens' = With(tokens, Challenge(t), acct[t])
    /\ UNCHANGED <<host, files, validated, working, orders, past>>

(* ... then tell the authority, if no other has yet ...                       *)
Notify(t) ==
    /\ Step(t, "notify", "poll")
    /\ validated' = IF Challenge(t) \in DOMAIN validated THEN validated
                    ELSE With(validated, Challenge(t), "pending")
    /\ UNCHANGED <<host, files, tokens, working, orders, past>>

(* ... which fetches what the web server answers.                             *)
Fetching(c) == c \in DOMAIN validated /\ validated[c] = "pending"
Fetch(c) ==
    /\ up /\ Fetching(c)
    /\ \E t \in Thread :
           /\ c \in Held(t)
           /\ validated' = [validated EXCEPT ![c] =
                  IF c \in DOMAIN tokens /\ tokens[c] = acct[t] THEN "valid" ELSE "invalid"]
    /\ UNCHANGED <<host, files, tokens, pc, working, orders, past>>

(* Mutant: the map is emptied. *)
ClearTokenAll(t) == << >>

(* clear_http01, whoever else has the token.                                  *)
ClearToken(t) == Without(tokens, Challenge(t))

(* The poll ends with a valid name, or after two minutes without an answer:  *)
(* the thread goes on all the same.                                           *)
PollDone(t) ==
    /\ Step(t, "poll", "authz")
    /\ validated[Challenge(t)] # "invalid"
    /\ tokens' = ClearToken(t)
    /\ left' = [left EXCEPT ![t] = @ - 1]
    /\ dropped' = IF validated[Challenge(t)] = "pending"
                  THEN (dropped \ {t}) \union Sharing(t) ELSE dropped \ {t}
    /\ UNCHANGED <<host, files, validated, acct, order, authz, orders, past>>

PollInvalid(t) ==
    /\ Step(t, "poll", Rest(t))
    /\ validated[Challenge(t)] = "invalid"
    /\ tokens' = ClearToken(t)
    /\ Looked(t, FALSE)
    /\ Ended(t)
    /\ UNCHANGED <<host, files, orders, raced>>

(* A request that fails ends the issuance; a token that is set stays set.     *)
RequestFails(t) ==
    /\ pc[t] \in {"order", "authz", "notify", "poll"}
    /\ Step(t, pc[t], Rest(t))
    /\ Looked(t, FALSE)
    /\ Ended(t)
    /\ UNCHANGED <<host, files, tokens, orders, raced>>

(* Finalize, poll the order and download: only if every name is valid.        *)
Authorized(t) ==
    \A c \in Held(t) : c \in DOMAIN validated /\ validated[c] = "valid"

CertCreate(t) ==
    /\ left[t] = 0 /\ Authorized(t)
    /\ Step(t, "authz", "certWrite")
    /\ cert' = Broken
    /\ raced' = (raced \/ \E s \in Thread \ {t} : Writing(s))
    /\ UNCHANGED <<host, key, account, tokens, validated, working, orders, failing, worst>>

CertWrite(t) ==
    /\ Step(t, "certWrite", "keyCreate")
    /\ cert' = Whole(order[t], clock + Life)
    /\ UNCHANGED <<host, key, account, tokens, validated, working, orders, past>>

KeyCreate(t) ==
    /\ Step(t, "keyCreate", "keyWrite")
    /\ key' = Broken
    /\ UNCHANGED <<host, cert, account, tokens, validated, working, orders, past>>

KeyWrite(t) ==
    /\ Step(t, "keyWrite", Rest(t))
    /\ key' = Whole(order[t], 0)
    /\ Looked(t, TRUE)
    /\ Ended(t)
    /\ UNCHANGED <<host, cert, account, tokens, orders, raced>>

(* The disk is full.                                                          *)
WriteFails(t) ==
    /\ Writing(t) /\ Step(t, pc[t], Rest(t))
    /\ raced' = TRUE
    /\ Looked(t, FALSE)
    /\ Ended(t)
    /\ UNCHANGED <<host, files, tokens, orders>>

Issue(t) ==
    \/ CheckValid(t) \/ CheckDue(t) \/ AccountCreate(t) \/ AccountWrite(t) \/ Order(t)
    \/ SetToken(t) \/ Notify(t) \/ PollDone(t) \/ PollInvalid(t) \/ RequestFails(t)
    \/ CertCreate(t) \/ CertWrite(t) \/ KeyCreate(t) \/ KeyWrite(t) \/ WriteFails(t)

Next ==
    \/ ServerStart \/ Stop \/ Tick
    \/ \E s \in Shot : Enable(s)
    \/ \E t \in Thread : Issue(t)
    \/ \E c \in DOMAIN validated : Fetch(c)
    \/ (clock = MaxClock \/ orders = MaxOrders) /\ UNCHANGED vars

Spec == Init /\ [][Next]_vars

-------------------------------------------------------------------------------
(* While the authority is to fetch the challenge that a thread has set, it is *)
(* answered with the thread's own account, whatever other threads set and     *)
(* clear meanwhile, those with the same authorization included: that is,      *)
(* unless one of them gave up waiting (set_http01, clear_http01).             *)
ChallengeAnswered ==
    \A t \in Thread \ dropped :
        pc[t] \in {"notify", "poll"} /\ Fetching(Challenge(t)) =>
            Challenge(t) \in DOMAIN tokens /\ tokens[Challenge(t)] = acct[t]

(* A certificate in the file does not expire before it is replaced, while at  *)
(* most Tolerance looks in a row fail: with openssl to read its date, or by   *)
(* the age of the file without (needs_renewal).                               *)
RenewedInTime ==
    cert.kind = "whole" /\ worst <= Tolerance /\ Resting(Loop) => clock <= cert.until

(* handle_dns_https_setup tells the admin: "When it's ready, restart          *)
(* desertemail once; after that, you and your users log in at".               *)
ServedNotExpired ==
    /\ served.kind = "whole" /\ ~raced /\ worst = 0
    /\ Loadable /\ clock <= cert.until
    => clock <= served.until
===============================================================================

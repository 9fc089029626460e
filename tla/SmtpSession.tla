----------------------------- MODULE SmtpSession -----------------------------
(***************************************************************************)
(* One SMTP connection (src/src/smtp.rs, handle_client and deliver_mail):  *)
(* the command states, STARTTLS, AUTH, the transaction, and the delivery   *)
(* of a message to its recipients one after another - the sender's Sent    *)
(* folder, the local mailboxes, the outbound queue - which stops at the    *)
(* first error.  Meanwhile a live reload may change who has a mailbox.     *)
(*                                                                         *)
(* Commands that are refused change nothing and are no steps.  The verdict *)
(* of the password check, the lockout, the throttle, greylisting, the      *)
(* trust checks and the quotas is a choice (see AuthLimiter,               *)
(* OutboundThrottle and Greylist for the first ones).                      *)
(***************************************************************************)
EXTENDS Naturals, Sequences

CONSTANTS
    Address,    \* recipient addresses
    Local,      \* those that may resolve to a mailbox
    Ours,       \* those of one of our domains
    User,       \* users that may log in
    Nobody,     \* nobody is logged in
    MaxRcpts,   \* bound: recipients of a transaction
    MaxCharged, \* bound: recipients charged to a user
    MaxReloads  \* bound: changes of the users

ASSUME AddressAssumption ==
    /\ Local \subseteq Address /\ Ours \subseteq Address
    /\ User \subseteq Local /\ Nobody \notin Address
ASSUME BoundAssumption == {MaxRcpts, MaxCharged, MaxReloads} \subseteq Nat

VARIABLES
    port,     \* the listener the connection came in by
    live,     \* addresses that resolve to a mailbox (cfg.resolve_mailbox)
    state,    \* State, with the steps of DATA told apart
    tls,      \* is_tls
    user,     \* authenticated_user
    rcpts,    \* recipients of the transaction
    todo,     \* deliver_mail: recipients still to be visited
    remote,   \* deliver_mail: recipients to be queued
    count,    \* deliver_mail: messages stored or queued
    got,      \* history: recipients stored or queued by this delivery
    reply,    \* history: the answer to the last DATA
    removed,  \* history: addresses that lost their mailbox since their RCPT
    charged,  \* history: recipients the throttle recorded for a user
    sent,     \* history: recipients of the messages a user submitted
    under,    \* history: whether TLS was on when the user, the transaction came
    reloads   \* history: reloads so far

sessionVars == <<state, tls, user, rcpts>>
deliverVars == <<todo, remote, count, got, reply>>
chargeVars == <<charged, sent>>
reloadVars == <<live, removed, reloads>>
vars == <<port, reloadVars, sessionVars, deliverVars, chargeVars, under>>

\* Port 25 and the submission port, each with or without a certificate, the
\* implicit TLS port, and require_tls_for_auth.
Port ==
    {p \in [submission : BOOLEAN, starttls : BOOLEAN, implicit : BOOLEAN,
            requireTls : BOOLEAN] : p.implicit => p.submission /\ p.starttls}

Reading == {"init", "greeted", "mail", "rcpt"}
Delivering == {"sent", "deliver", "enqueue"}
Stage == Reading \union {"data"} \union Delivering \union {"closed"}

Elements(list) == {list[i] : i \in DOMAIN list}

Init ==
    /\ port \in Port
    /\ live \in SUBSET Local
    /\ state = "init"
    /\ tls = port.implicit
    /\ user = Nobody
    /\ rcpts = << >>
    /\ todo = << >> /\ remote = << >> /\ count = 0
    /\ got = {} /\ reply = "none" /\ removed = {}
    /\ charged = [u \in User |-> 0]
    /\ sent = [u \in User |-> 0]
    /\ under = [user |-> tls, rcpts |-> tls]
    /\ reloads = 0

\* Users, domains and quotas are replaced while the connection goes on.
Reload ==
    /\ reloads < MaxReloads
    /\ reloads' = reloads + 1
    /\ live' \in SUBSET Local
    /\ removed' = removed \union (live \ live')
    /\ UNCHANGED <<port, sessionVars, deliverVars, chargeVars, under>>

-----------------------------------------------------------------------------
(* The commands. *)

Greet ==
    /\ state \in {"init", "greeted"}
    /\ state' = "greeted"
    /\ UNCHANGED <<port, reloadVars, tls, user, rcpts, deliverVars, chargeVars,
                   under>>

\* Mutant: the handshake leaves the session as it was.
StartTlsKeeping ==
    /\ state \in Reading
    /\ port.starttls /\ ~tls
    /\ tls' = TRUE
    /\ UNCHANGED <<port, reloadVars, state, user, rcpts, deliverVars,
                   chargeVars, under>>

\* Nothing the client said before the handshake is kept.
StartTls ==
    /\ state \in Reading
    /\ port.starttls /\ ~tls
    /\ tls' = TRUE
    /\ state' = "init"
    /\ user' = Nobody
    /\ rcpts' = << >>
    /\ UNCHANGED <<port, reloadVars, deliverVars, chargeVars, under>>

\* The credentials are right (authenticate reads the users as they are now).
Auth(u) ==
    /\ state \in Reading
    /\ user = Nobody
    /\ port.requireTls => tls
    /\ u \in live
    /\ user' = u
    /\ under' = [under EXCEPT !.user = tls]
    /\ UNCHANGED <<port, reloadVars, state, tls, rcpts, deliverVars, chargeVars>>

\* Locked out, or QUIT, or the connection is lost between two commands.
Close ==
    /\ state \in Reading
    /\ state' = "closed"
    /\ UNCHANGED <<port, reloadVars, tls, user, rcpts, deliverVars, chargeVars,
                   under>>

\* Mutant: anybody may start a transaction.
MailFromAnybody ==
    /\ state \in {"greeted", "mail", "rcpt"}
    /\ state' = "mail"
    /\ rcpts' = << >>
    /\ removed' = {}
    /\ under' = [under EXCEPT !.rcpts = tls]
    /\ UNCHANGED <<port, live, reloads, tls, user, deliverVars, chargeVars>>

\* A new transaction replaces the one before.
Mail ==
    /\ state \in {"greeted", "mail", "rcpt"}
    /\ port.submission => user # Nobody
    /\ state' = "mail"
    /\ rcpts' = << >>
    /\ removed' = {}
    /\ under' = [under EXCEPT !.rcpts = tls]
    /\ UNCHANGED <<port, live, reloads, tls, user, deliverVars, chargeVars>>

\* The recipient joins the transaction.
AddRcpt(r) ==
    /\ state \in {"mail", "rcpt"}
    /\ Len(rcpts) < MaxRcpts
    /\ state' = "rcpt"
    /\ rcpts' = Append(rcpts, r)
    /\ removed' = removed \ {r}
    /\ under' = [under EXCEPT !.rcpts = @ /\ tls]

\* Mutant: only the first recipient of a transaction is recorded.
RcptSubmissionOnce(r) ==
    /\ port.submission
    /\ user # Nobody => charged[user] < MaxCharged
    /\ charged' = [u \in User |-> IF u = user /\ state = "mail"
                                  THEN charged[u] + 1 ELSE charged[u]]
    /\ AddRcpt(r)
    /\ UNCHANGED <<port, live, reloads, tls, user, deliverVars, sent>>

\* Submission: any address, if the throttle lets it pass and records it.
RcptSubmission(r) ==
    /\ port.submission
    /\ user # Nobody => charged[user] < MaxCharged
    /\ charged' = [u \in User |-> IF u = user THEN charged[u] + 1 ELSE charged[u]]
    /\ AddRcpt(r)
    /\ UNCHANGED <<port, live, reloads, tls, user, deliverVars, sent>>

\* Inbound: a mailbox of one of our domains, let through by greylisting.
RcptInbound(r) ==
    /\ ~port.submission
    /\ r \in Ours \intersect live
    /\ AddRcpt(r)
    /\ UNCHANGED <<port, live, reloads, tls, user, deliverVars, chargeVars>>

\* The command; the message is read next.
Data ==
    /\ state = "rcpt"
    /\ state' = "data"
    /\ reply' = "none"
    /\ UNCHANGED <<port, reloadVars, tls, user, rcpts, todo, remote, count, got,
                   chargeVars, under>>

Rset ==
    /\ state \in Reading
    /\ state' = "greeted"
    /\ rcpts' = << >>
    /\ UNCHANGED <<port, reloadVars, tls, user, deliverVars, chargeVars, under>>

-----------------------------------------------------------------------------
(* DATA *)

\* The answer to DATA, if the client is still there to read it.
Answer(code) ==
    \/ state' = "greeted" /\ reply' = code
    \/ state' = "closed" /\ reply' = "none"

\* deliver_mail returns: its variables are gone.
LeaveDelivery == todo' = << >> /\ remote' = << >> /\ count' = 0

\* The message is refused as a whole.
Reject ==
    /\ state = "data"
    /\ Answer("rejected")
    /\ UNCHANGED <<port, reloadVars, tls, user, rcpts, todo, remote, count, got,
                   chargeVars, under>>

\* More bytes than max_message_bytes.
TooLarge == Reject

\* More Received headers than max_received_hops.
Looping == Reject

\* Inbound: listed, spam, or failing SPF and DMARC, where that is enforced.
Distrusted == ~port.submission /\ Reject

\* The message is read, up to the final dot or to the end of the connection.
DataRead ==
    /\ state = "data"
    /\ state' = IF port.submission THEN "sent" ELSE "deliver"
    /\ todo' = rcpts
    /\ remote' = << >>
    /\ count' = 0
    /\ got' = {}
    /\ sent' = [u \in User |-> IF port.submission /\ u = user
                               THEN sent[u] + Len(rcpts) ELSE sent[u]]
    /\ UNCHANGED <<port, reloadVars, tls, user, rcpts, reply, charged, under>>

\* A copy for the Sent folder of the user, if there is still a mailbox.
SentCopy ==
    /\ state = "sent"
    /\ state' = "deliver"
    /\ count' = IF user \in live THEN count + 1 ELSE count
    /\ UNCHANGED <<port, reloadVars, tls, user, rcpts, todo, remote, got, reply,
                   chargeVars, under>>

\* Mutant: a mailbox that cannot take the message is passed over.
DeliverErrorIgnored ==
    /\ state = "deliver"
    /\ todo # << >>
    /\ Head(todo) \in live
    /\ todo' = Tail(todo)
    /\ count' = count + 1
    /\ UNCHANGED <<port, reloadVars, sessionVars, remote, got, reply, chargeVars,
                   under>>

\* 452 or 451: over quota, or an I/O error, at the Sent folder or a mailbox.
\* What was stored before stays stored.
DeliverError ==
    /\ \/ state = "sent" /\ user \in live
       \/ state = "deliver" /\ todo # << >> /\ Head(todo) \in live
       \/ state = "enqueue"
    /\ Answer("error")
    /\ LeaveDelivery
    /\ UNCHANGED <<port, reloadVars, tls, user, rcpts, got, chargeVars, under>>

\* The next recipient has a mailbox.
DeliverLocal ==
    /\ state = "deliver"
    /\ todo # << >>
    /\ Head(todo) \in live
    /\ todo' = Tail(todo)
    /\ got' = got \union {Head(todo)}
    /\ count' = count + 1
    /\ UNCHANGED <<port, reloadVars, sessionVars, remote, reply, chargeVars,
                   under>>

\* The next recipient has none: to the queue, or nowhere if inbound.
DeliverElsewhere ==
    /\ state = "deliver"
    /\ todo # << >>
    /\ Head(todo) \notin live
    /\ todo' = Tail(todo)
    /\ remote' = IF port.submission THEN Append(remote, Head(todo)) ELSE remote
    /\ UNCHANGED <<port, reloadVars, sessionVars, count, got, reply, chargeVars,
                   under>>

\* All were visited: queue the message for the remote ones, or answer.
DeliverEnqueue ==
    /\ state = "deliver"
    /\ todo = << >> /\ remote # << >>
    /\ state' = "enqueue"
    /\ UNCHANGED <<port, reloadVars, tls, user, rcpts, deliverVars, chargeVars,
                   under>>

Enqueued ==
    /\ state = "enqueue"
    /\ state' = "deliver"
    /\ got' = got \union Elements(remote)
    /\ count' = count + Len(remote)
    /\ remote' = << >>
    /\ UNCHANGED <<port, reloadVars, tls, user, rcpts, todo, reply, chargeVars,
                   under>>

\* 250, or 451 when nobody got the message.
Delivered ==
    /\ state = "deliver"
    /\ todo = << >> /\ remote = << >>
    /\ Answer(IF count = 0 THEN "error" ELSE "ok")
    /\ LeaveDelivery
    /\ UNCHANGED <<port, reloadVars, tls, user, rcpts, got, chargeVars, under>>

\* The connection fails or the process dies while the message is read or
\* delivered: no answer.
Abort ==
    /\ state \in {"data"} \union Delivering
    /\ state' = "closed"
    /\ LeaveDelivery
    /\ UNCHANGED <<port, reloadVars, tls, user, rcpts, got, reply, chargeVars,
                   under>>

\* The client connects again.
Connect ==
    /\ state = "closed"
    /\ state' = "init"
    /\ tls' = port.implicit
    /\ user' = Nobody
    /\ rcpts' = << >>
    /\ under' = [user |-> tls', rcpts |-> tls']
    /\ UNCHANGED <<port, reloadVars, deliverVars, chargeVars>>

Command ==
    \/ Greet \/ StartTls \/ Close \/ Mail \/ Data \/ Rset
    \/ \E u \in User : Auth(u)
    \/ \E r \in Address : RcptSubmission(r) \/ RcptInbound(r)

Delivery ==
    \/ TooLarge \/ Looping \/ Distrusted \/ DataRead \/ SentCopy
    \/ DeliverError \/ DeliverLocal \/ DeliverElsewhere \/ DeliverEnqueue
    \/ Enqueued \/ Delivered \/ Abort

Next == Reload \/ Command \/ Delivery \/ Connect

Spec == Init /\ [][Next]_vars
-----------------------------------------------------------------------------
TypeOK ==
    /\ port \in Port
    /\ {live, removed} \subseteq SUBSET Local
    /\ state \in Stage
    /\ tls \in BOOLEAN
    /\ user \in User \union {Nobody}
    /\ {rcpts, todo, remote} \subseteq Seq(Address)
    /\ count \in Nat
    /\ got \subseteq Address
    /\ reply \in {"none", "rejected", "error", "ok"}
    /\ {charged, sent} \subseteq [User -> Nat]
    /\ under \in [user : BOOLEAN, rcpts : BOOLEAN]
    /\ reloads \in Nat

\* A 250 is a promise kept: every recipient of the transaction has the message
\* in a mailbox or in the queue, and there is one at least - unless, inbound,
\* a reload took its mailbox away after its RCPT was accepted.
AckComplete ==
    [][reply # "ok" /\ reply' = "ok" =>
          /\ got # {}
          /\ \A r \in Elements(rcpts) :
                r \in got \/ (~port.submission /\ r \in removed)]_vars

\* Nothing goes to the outbound queue but what an authenticated user of a
\* submission listener sends, over TLS where that is required - although the
\* login, the transaction and the delivery are far apart and STARTTLS, RSET
\* and MAIL may come between them.
NoRelay ==
    remote # << >> =>
        /\ port.submission
        /\ user # Nobody
        /\ port.requireTls => tls

\* Nothing said before the TLS handshake counts after it: neither a login nor
\* a transaction is carried across.
NothingAcrossStartTls ==
    /\ user # Nobody => under.user = tls
    /\ state \in {"mail", "rcpt", "data"} \union Delivering => under.rcpts = tls

\* Whoever sends a message was charged for each of its recipients: no order of
\* logins, handshakes and transactions spends what another user was charged.
EveryRecipientCharged == \A u \in User : sent[u] <= charged[u]
-----------------------------------------------------------------------------
(* The inductive invariant of SmtpSessionProofs. *)

\* The states in which rcpts is the transaction under way.
Transaction == {"mail", "rcpt", "data"} \union Delivering

\* Who may be where: a submission listener has a user in every transaction,
\* and logs in over TLS where that is required.
SessionInv ==
    /\ port.submission /\ state \in Transaction => user # Nobody
    /\ port.requireTls /\ user # Nobody => tls
    /\ state \in Transaction \ {"mail"} => rcpts # << >>
    /\ state \in {"sent", "enqueue"} => port.submission

\* The recipients of the transaction were charged to the user before the
\* message is sent.
ChargeInv ==
    \A u \in User :
        /\ sent[u] <= charged[u]
        /\ port.submission /\ user = u /\ state \in {"mail", "rcpt", "data"} =>
               sent[u] + Len(rcpts) <= charged[u]

\* During a delivery each recipient of the transaction waits for its turn or
\* for the queue, has the message, or - inbound - has lost its mailbox.
DeliverInv ==
    /\ remote # << >> => port.submission /\ state \in {"deliver", "enqueue"}
    /\ state \in Delivering =>
           /\ \A r \in Elements(rcpts) :
                  \/ r \in Elements(todo) \union Elements(remote) \union got
                  \/ ~port.submission /\ r \in removed
           /\ ~port.submission /\ count > 0 => got # {}
    /\ ~port.submission /\ state \in Transaction =>
           Elements(rcpts) \subseteq live \union removed

\* The parts together: what the commands before it and the reloads during it
\* leave to every step of a delivery.
IndInv ==
    /\ TypeOK /\ SessionInv /\ NothingAcrossStartTls /\ ChargeInv /\ DeliverInv
=============================================================================

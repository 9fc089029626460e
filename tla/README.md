# Formal models of desertemail

desertemail is a mail server in one Rust program: SMTP in and out, IMAP, webmail
and an admin page, one thread per connection, all state in files and in a few
process-wide tables behind mutexes.  This directory holds TLA+ models of the
parts where threads, files and clocks meet, TLC instances that check them, and
proofs of the most important results with TLAPS.  Sources are named below by
their file in the crate (`queue.rs` is `src/src/queue.rs`).

Contents: 1 the system, 2 the modules, 3 the runs, 4 fairness, 5 the proofs,
6 where the code and its documentation disagree, 7 other observations, 8 what
is not modelled, 9 the plan, 10 how to run it.

## 1. The system

### 1.1 Inventory

| Part | State it keeps | Operations | Talks to |
|---|---|---|---|
| Outbound queue (`queue.rs`) | one file per message in `{data_dir}/queue`: sender, recipients, creation, next attempt, retry count, body | `enqueue` (connection threads), `start_worker`/`process_queue` (one worker thread, every 30 s), `delete_queued` (admin page) | DNS, remote SMTP servers, Maildir (bounces) |
| SMTP server (`smtp.rs`) | per connection: command state, TLS, authenticated user, recipients, buffer | EHLO, STARTTLS, AUTH, MAIL, RCPT, DATA, RSET, QUIT; `deliver_mail` | all the limiters, greylisting, Maildir, queue, configuration |
| Connection limiter (`limits.rs`) | an atomic total, a mutex-protected count per address | `try_acquire`, drop of the guard | every listener |
| Brute-force lockout (`ratelimit.rs`) | failures and lockout per address | `check_allowed`, `record_failure`, `record_success` | SMTP AUTH, IMAP LOGIN, web forms |
| Outbound throttle (`ratelimit.rs`) | accepted recipients per user name, as typed, in the last hour | `check_outbound`, `record_outbound` | RCPT of submission sessions |
| Greylisting (`spamscore.rs`) | one file per triplet: first sight, last acceptance; every session prunes the files of all | `greylist_prune`, `greylist_check` | first RCPT of inbound sessions |
| Maildir (`storage.rs`) | `tmp`, `new`, `cur` per folder; flags in file names; a 5 s cache of mailbox sizes | deliver, append, flags, expunge, move, size | SMTP, IMAP, web, bounces |
| IMAP server (`imap.rs`) | per connection: selected folder and a snapshot of its messages | LOGIN, SELECT, FETCH, STORE, EXPUNGE, COPY, APPEND, IDLE | Maildir, lockout |
| Configuration (`config.rs`), users (`useredit.rs`), invitations (`invites.rs`) | the config file; users, quotas, domains behind one lock each; a file of invitations | live reload, edits of users and quotas, create and redeem | web, SMTP and IMAP as readers |
| Web (`web.rs`) | login sessions and a secret for form tokens in memory, first-run setup | login, compose, folders, admin pages, backup | everything above |
| Trust checks (`spf.rs`, `dkim.rs`, `dmarc.rs`, `spamscore.rs`) | none (a DNSBL cache) | evaluate a message, sign one | DNS client |
| DNS client (`dns.rs`) | none | a query, the reading of a response | name servers over UDP |
| Certificates (`acme.rs`, `tls.rs`) | three files, the challenges that the web server answers, the certificate that is served | renewal loop, one-shot threads, load at the start | certificate authority, web server |
| Port mapping (`portmap.rs`) | the URL shown, a status file; leases at the router | a loop over UPnP and NAT-PMP | router |
| Backup (`web.rs`, `tarball.rs`, `main.rs`) | none; an archive in memory | build, `--restore` | Maildir, configuration |
| The rest (`doctor.rs`, `metrics.rs`, `main.rs`, `shutdown.rs`, `crypto.rs`, ...) | counters | start, diagnose, stop | |

### 1.2 How the parts interact

A listener accepts a connection, asks the **connection limiter** for a guard and
gives the connection a thread.  An SMTP thread asks the **lockout** before it
checks a password and tells it the result; on a submission listener it asks the
**throttle** at every RCPT and tells it of every recipient accepted; on port 25
it asks **greylisting** at the first RCPT of a transaction.  After DATA it runs
the trust checks, then `deliver_mail`: a copy for the Sent folder, the local
mailboxes one after another, and one `enqueue` for all the remote recipients.
The **queue** worker is the only reader of what `enqueue` wrote; the two share
nothing but the directory, and the admin page deletes from the same directory.
The limiters share nothing with each other.  The configuration is shared by
reference; its users, domains and quotas are replaced under it by a reload.

A web request passes the **gate** (HTTPS, setup, session, form token, role) and
then calls what it is for: the Maildir, the queue, or an **edit** of the
configuration followed by a reload.  Of the sender's domain the **trust checks**
ask the **DNS client**; what they find decides between inbox, junk and refusal.
Beside all this run the **certificate** loop, the **port mapping** loop and the
queue worker.

### 1.3 What is hard, and what has to be right

| Part | Hard | What makes it correct |
|---|---|---|
| Queue | crash between a delivery and the rewrite of the file; some recipients delivered, some deferred, some refused; lost reply to the final dot; a failed rename or unlink that is ignored; the admin's unlink and the worker's rename; a file read while it is written; backoff against lifetime | no acknowledged recipient is forgotten; each one gets one copy or one bounce unless a fault is to blame; every retry falls within the lifetime; every message leaves the queue |
| SMTP server | logins, handshakes and transactions in any order; a delivery that fails half way; recipients that lose their mailbox between RCPT and DATA | a 250 leaves nobody out; no relaying; nothing survives STARTTLS; every recipient sent was charged |
| Connection limiter | one counter outside the lock, given back in two steps | counters agree with the connections; limits hold; no refusal below them |
| Lockout, throttle | check and record are apart, each with its own reading of the clock | the budget is exceeded by no more than the number of sessions in between; nobody is refused without cause |
| Greylisting | truncate-and-write in place, read, prune and write unlocked, prunes by sessions of other triplets, crash in between | nobody gets in early; a sender that comes back in time gets in |
| Maildir, IMAP | sessions act on snapshots; flags are renames; sizes are cached | no message is lost but by an expunge; numbering stays in step; the quota is exceeded by a bounded amount |
| Quota | the size is cached, computed directory by directory, passing over what cannot be read, and checked apart from the storing | what exceeds the quota unseen is a burst |
| Configuration, users, invitations | read-edit-write without a lock through a temporary file of one name; field by field reload; an invitation looked up, used and removed in separate steps | edits are lost only when they clash; the server runs with what the file says; an invitation makes one account; the setup stays closed |
| Text of the configuration | an editor that rewrites lines of a file written by hand | an edit changes what it says and nothing else |
| Web gate | each check looks at a moment of its own; restarts; other origins | what is done was asked for by whom it is done for; redirects end |
| Trust checks | records that refer to each other, a shared budget, failing queries | SPF comes to what the records mean; a refusal is one the domain wants |
| DKIM | relays change white space, fields and lines | verified exactly if it says what was signed |
| DNS client | pointers in names, truncated responses | reading ends and stays within the response |
| Certificates | two threads that may share an authorization, failing renewals, a listener that loads once | challenges are answered, renewal comes before the end |
| Port mapping | leases, granted for as long as the router likes, against the pauses of a loop that fails and falls back | a mapping granted for long enough does not lapse between two rounds |
| Backup | mail moves while it is read; files that cannot be read; paths at the limits of a header | what was left alone is there after the restore |

The hazards, each with its line, are in `PROJECT.json`.

## 2. The modules

All times are clock values in an abstract unit; `now_secs()` is the variable
`clock`, and where the code reads the clock once and goes on using the value,
the model has a variable for that reading.  Ghost (history) variables are marked
as such; no guard of an action that models code reads one, except where it
bounds the state space.  Definitions marked "Mutant" are slips a programmer
could make; no specification uses them, they exist so that each property can be
shown to notice one.

### OutboundQueue

The queue directory, `enqueue`, the worker, the admin's deletion, and crashes.

| TLA+ | Code |
|---|---|
| `onDisk[m]`, `hdr[m]` | how much of the file is there (nothing, no separator yet, body cut short, all), and the header fields `rcpts`, `retry`, `next`, `created` |
| `enq[m]`, `linked` | how far `enqueue` is with it, and whether the path still is the inode it writes to: after a rename or an unlink by somebody else, the rest is written to a file without a name |
| `EnqueueCreate` ... `EnqueueError` | `enqueue`: the file is created under its final name and written in place; an I/O error leaves it as it is |
| `WorkerWake`, `EntrySkip`, `EntryExpired`, `EntryAttempt`, `ScanDone` | one pass of `process_queue` over the sorted directory: `load_message`, not yet due, expired, due |
| `DomainStart` ... `DomainsDone` | `deliver_message`: one SMTP session per recipient domain, or one for everything with a smarthost; MX addresses tried in order; accepted, refused (5xx to one RCPT refuses the whole group), failed, or accepted with the reply lost |
| `BounceStored`, `BounceUnreported` | `bounce_message`: into the Maildir of a local sender, else only a log line |
| `OutcomeDone`, `OutcomeGiveUp`, `OutcomeRetry`, `RemoveFile`, `PersistError` | the match on the outcome: remove, bounce the rest when the next attempt would be too late, or `rewrite_message` with what remains; the errors of both are dropped |
| `AdminDelete` | `delete_queued` |
| `Crash` | a kill, or the exit two seconds after SIGTERM (`main.rs`), and the next start |

`Handoff` is what the queue promises to whoever submits a message: a ledger with
one entry for each recipient, owed once the submission is acknowledged, settled
once a remote host took a copy, a bounce was written or the admin deleted the
message.  A debt is never forgotten, a settled entry is never opened again, every
debt is settled in the end.  `OutboundQueue!HandoffSpec` maps the files and the
counts of copies and bounces to the ledger; a recipient the file no longer names
without a decision would be `"lost"`, a value the ledger never takes.

### SmtpSession

One connection: `handle_client` and `deliver_mail`, with reloads of the users in
between.

| TLA+ | Code |
|---|---|
| `port` | which listener, with or without a certificate, and `require_tls_for_auth` |
| `state`, `tls`, `user`, `rcpts` | `state` (with its recipients), `is_tls`, `authenticated_user` |
| `todo`, `remote`, `count` | the local variables of `deliver_mail` |
| `Greet`, `StartTls`, `Auth`, `Mail`, `RcptSubmission`, `RcptInbound`, `Data`, `Rset`, `Close` | the arms of the command loop; refused commands change nothing and are no steps |
| `DataRead`, `TooLarge`, `Looping`, `Distrusted` | the reading of the message and the checks before delivery |
| `SentCopy`, `DeliverLocal`, `DeliverElsewhere`, `DeliverEnqueue`, `Enqueued`, `Delivered`, `DeliverError` | `deliver_mail`, recipient by recipient; the first error ends it and what was stored stays |
| `Reload`, `Abort`, `Connect` | `resolve_mailbox` reads the users as they are at that moment; the connection or the process dies; the client returns |

What the limiters, the quota and the trust checks decide is a choice here; the
limiters have modules of their own.

### ConnLimiter

`try_acquire` and the drop of its guard, step by step: the mutex, the count of
the address, the atomic total and its correction on refusal.  `Drop` and
`ReleaseIp` are two steps because the code gives the total back before it
takes the lock.

### AuthLimiter, OutboundThrottle

The two tables of `ratelimit.rs`.  Both are asked and told in separate calls:
`StartAttempt`/`CheckAllowed`, the slow password check, `RecordFailure` or
`RecordSuccess`; and `StartRcpt`/`Pass`, `StartRecord`/`Record`.  Each call reads
the clock before it waits for the lock, so a call may work with a reading that
is older than another's (`stamp`, at most `MaxLag` behind in AuthLimiter).
Pruning and the empty-entry clean-up are part of the action that does them.
`WindowAt` is what a lockout needs: the failures within one window, that which
ends with a recorded one, however long the lockout is after it.

The throttle's map has the name as the client typed it for its key (`NameOf`),
while the password check folds the case: an account has a budget for each spelling
of its name, and what is shown is shown of a name as typed.  Section 7 says what
this leaves of the cap.

### Greylist

One triplet's file: `greylist_prune` (read, then unlink by what was read),
`greylist_check` (read, decide, write) and `write_greylist_entry` (truncate, first
field, second field), all unlocked, in any number of sessions, with failing writes and
crashes at every step.  Pruning walks the whole directory, so sessions of other
triplets (`Stranger`) read this file, and unlink it, as well.  A file without a
readable second field, or empty, reads the way `parse` reads it.

### Mailbox

A user's Maildir, IMAP sessions, webmail requests and deliveries.

| TLA+ | Code |
|---|---|
| `file[m]` | the path of message `m`: folder, `new` or `cur`, flag letters |
| `pc`, `cmd`, `work` | where a thread is, the command or request it serves, and the messages that is still to visit |
| `folder[t]`, `snap[t]` | `State::Selected`: the folder and the listing that the session works with |
| `found`, `kept`, `seen` | a listing under way: what `new` held, what stayed in the directory since it was opened, what has been in it at some time |
| `ReadNew`, `ReadCur`, `ListFails` | `list_messages`: `new`, then `cur`; whatever changed while a directory was read may be found or not; an entry that vanishes at the wrong moment fails it |
| `Change` | a rename or an unlink, as the listings under way see it |
| `Deliver`, `AppendRaw` | `deliver`, `append_raw` |
| `Select`, `Refresh`, `AppendCommand`, `Store`/`StoreOne`/`StoreFails`, `Expunge`/`ExpungeOne`, `CommandDone`, `CloseDone`, `Copy`/`CopyOne`/`CopyDone`, `Leave` | SELECT; NOOP and IDLE; APPEND; STORE message by message; EXPUNGE and CLOSE; the listing after these; COPY; LOGOUT |
| `Request`, `WebOne`, `WebDone` | `page_message`, `handle_star`, `handle_bulk`, `handle_empty_trash`, `handle_empty_spam`: list the folder, then open, flag, delete, move |

Nothing is locked: a thread addresses a message by the path it saw, flags and
all, and the call fails when somebody changed the message in between.  That is
what `ExpungedOnlyDeleted` and `NoLostUpdate` rest on, and their mutants (a call
that finds the message by its base name) show how little it takes to lose it.
FETCH and SEARCH change nothing and are no steps.

### QuotaCache

`mailbox_size`, its cache and its invalidation, with the callers `check_quota`
(SMTP) and its like in IMAP: `CheckCached` takes the kept size while it is fresh,
`CheckScan` ... `ScanDone` add it up and keep it, `Refuse`, `Store`, `StoreFails` and
`Forget` are what the caller does with it.  `dir_size_recursive` goes from directory
to directory, and `new` and `cur` of a folder are two: it lists one (`ScanList`), asks
for the size of each entry by its name (`ScanCount`), and passes over what cannot be
read, an entry (`ScanFails`) or a directory with all below it (`ScanSkip`).  Between any
two of these steps others store unchecked (webmail), flag messages, which renames
them from `new` to `cur`, move and remove them.  A size is the set of entries
counted, so that a model state says which messages were left out, and which were
counted twice.

### Administration

The accounts and everything that changes them: one thread for each request.

| TLA+ | Code |
|---|---|
| `config`, `temp`, `fd` | `config.toml`, the temporary file that all threads share by name, and which of them a thread's open file has become by a rename |
| `users`, `quotas`, `admin` | the live tables behind `RwLock`s |
| `invite`, `session` | the invitation store and the login sessions, each under a mutex |
| `Setup`, `Login`, `OwnPassword`, `UserAdd`, `UserPassword`, `UserRemove`, `UserRename`, `UserQuota`, `RedeemLookup` | the heads of the handlers in `web.rs`, with what each checks |
| `EditRead`, `EditRefused`, `TempCreate`, `TempWrite`, `TempRename`, `EditFails` | `edit_file` and `write_atomic` |
| `ReloadRead` ... `ReloadAdmin` | `reload_users_quotas`, field by field |
| `FinishSignIn` ... `RedeemSignIn` | what a handler does after that |
| `ideal`, `met`, `used` | ghosts: the file if the edits had been made one by one; which kinds of requests have met; how often an invitation was granted |

Two writers in the shared temporary file may leave a file with a tail of the
longer text (`Torn`); what a parser makes of it is `Readings`.

### ConfigText

The text of the same file: lines, the two parsers (`Config::parse` and
`parse_sections`) and the editor that writes sections anew and single settings in
place.  Escaping is a count, since neither parser undoes it; a value is cut at a
`#`.  `IsFile` and `IsEdit` say what a file and an edit are: any lines of the four
kinds, in any order and number, and any words.  `Kept` are the lines that a
rewriting leaves alone, and `Listens` those that keep `enable_acme` from setting the
TLS port.  `Meant` says what an edit means for the server, without mentioning lines;
`EditsExact` compares it with what the server reads afterwards, for files of the
shapes its premises name (`Parses`, `Safe`) and edits with words that need no care
(`Harmless`; the handlers let others through).  Section 7 lists what they exclude.

### WebGate

`route`, `route_inner` and the checks before a handler acts: each looks at the
accounts, the sessions and the form's token in a step of its own.  A browser has a
cookie and the token of the last form it saw, follows redirects and may be made to
send requests by another site, and it may reach the server directly or through a
proxy, whose headers are trusted or not (`trusted`, read at the start of the process).
It follows redirects until there are too many (`GiveUp`).  What the last request did is
in `acts`; a GET that changes something (signing out, a message marked as seen) does
not count as an act.

### SenderPolicy

SPF as a machine with a stack (`Evaluate` takes one term of the innermost record;
includes and redirects push), its budget of lookups, and queries that may fail;
then DKIM's results, DMARC with the fall-back to the organization, and the
verdict of `inbound_trust_check`.  `truth` is what the records mean, from a
definition by recursion over them without a budget.

### DkimTransit

`Send` signs (relaxed canonicalization of fields and body), relays add trace
fields, fold, add or drop fields and lines, `Verify` is `verify_one`.  A line, and the
value of a field, is a sequence of words and gaps in which no gap follows another
(a gap is all the white space between two words).  The signed fields are a set:
the order in which they are hashed is the one `h=` itself gives, on both sides.
`Authentic` says what it means for a message to be unchanged, word by word.

### DnsClient

`query` over its servers, and `query_once` with `parse_name` cell by cell: labels,
pointers, ends, and everything that makes it give up.

### Certificates

The renewal loop and one-shot threads (`check`, account, order, and for each name
token, notification, poll; then the two files), the authority, restarts, and the
certificate loaded at the start.  The authority makes an authorization for each
name, with a token, or hands out the one that another order of the same account has
under way (`authz`, `Order`).  The map of challenges is keyed by the token alone, so
two threads may set, and clear, the same one (`Sharing`); `dropped` are those whose
token another took away.  A tick of the clock is a stretch of days in which
the loop looks at least once.

### PortMap

One round - UPnP or NAT-PMP, address, each port, status file - and the pause;
leases run down at the router, which may refuse, grant a shorter lease than was asked
for (`Mapped`, `Grants`), map to another port, answer nothing that says so
(`SeemsMapped`), or restart.  `good` are the mappings that are to last.

### Backup

`handle_admin_backup` packs the configuration and the key files (`Start`), then lists
directory by directory and opens the files it saw (`List`, `Open`) while mail is
delivered, moved and renamed (`Shuffle`); what cannot be read is passed over
(`ListFails`, `OpenFails`, `unread`) and the archive completed without it;
`split_ustar_path` decides which paths fit (`Cuts`, `Split`): a path is its length
and the positions of its slashes, all that the function looks at.  `run_restore`
unpacks file by file, may be refused or fail, and points `data_dir` to the new
place (`PointConfig`).

### The sums

`Limits`, `Network` and `Site` each hold several modules that share no state with
each other in the code: a behaviour is one of a single part, chosen at the start
(`part`), while the others keep one initial state.  This is a sum, not a
composition; it checks exactly what one instance for each part would.  The sums
have the constants of their parts and name the assumptions on them; `MCLimits`,
`MCNetwork` and `MCSite` are their small instances.  (They start from `MCSpec`,
which gives the parts that rest one initial state instead of all.)  The proofs
are about the sums, hence about each part with any constants.

## 3. The runs

Every property of a passing run is also checked against a mutant of the model
that must violate it.

| Run | Question | What it shows |
|---|---|---|
| `queue_safe` | is any recipient forgotten, served twice, or retried too late? | the inductive invariant of the proofs, `NoSilentLoss`, `OneFateBarringFaults` and `AttemptBeforeExpiry` hold with crashes, lost replies, failed renames, deletions |
| `queue_live` | does the queue keep its promise to the end? | the queue implements `Handoff` with its fairness; every acknowledged message leaves the directory |
| `queue_deleted`, `queue_whole` | | the disagreements of section 6 |
| `limits` | may a session be let past a limit, or be kept out below it? | `CountersExact`, `LimitsHold`, `RefusedOnlyWhenFull`: the connection counters are exact at every step and a refusal for the total happens only with that many in service; `GuessBudget`, `RefusedForCause`: an address gets `Max` guesses per window and one for each further connection, and no refusal without `Max` failures of its own within one window; `CapWithSlack`, `NothingForgotten`: the cap of a user name as typed is exceeded by one recipient per further session, never because an event was dropped too early; `NoEarlyAccept`, `RetryAccepted`: no interleaving or crash lets a sender in early, and without overlap or fault one that returns in time is accepted; `LeftOutForCause`: a message that a quota check does not see could not be read by the scan, or is just being stored, or was renamed or arrived during a scan, or arrived where nobody tells the cache, and not longer ago than a cached size lives and a scan takes |
| `network` | whom may the server's peers make it believe? | `AckComplete`, `NoRelay`, `NothingAcrossStartTls`, `EveryRecipientCharged`: what a 250 promises, who reaches the queue, what survives STARTTLS, who pays, on every kind of listener; `SpfMeant`, `RefusalJustified`: records that refer to each other in circles come to what they mean within the budget, and a refusal is one the domain wants; `VerifiedIffAuthentic`; `NamesEnd`; `ChallengeAnswered`: with threads that share an authorization too, unless one gave up waiting; `RenewedInTime`; `MappingSurvives`: of a mapping granted for longer than a renewal takes |
| `site` | what may requests from the browser do to each other and to the server? | `EditsSurvive`, `LiveFollowsFile`, `InviteOnce`, `GrantedIsSpent`, `SetupStaysDone`: what is lost or repeated is lost only in the cases the property names (two edits that clash, a failing file operation, a removal in between); `EditsExact`: an edit does what it says to the text and nothing else; `RedirectsEnd`: but through a proxy that is not trusted; `ActsAreMeant`; `MovedWhole`: but for what could not be read |
| `served_certificate`, `dns_failure`, `greylist_whitelist` | | disagreements of section 6 |
| `mailbox` | does an old view remove or overwrite anything; does a listing miss anything? | no: what disappears is `\Deleted` (or in the trash or junk) at that moment, flags are changed from what they are, and a message that stays in the folder is listed though others move it from `new` to `cur`; and the inductive invariant |
| `mailbox_numbers` | | a disagreement of section 6 |

### Bounds, and why they are enough

* *Queue.*  One message: the worker handles one message at a time and messages
  meet only in the scan's order (two messages with these steps are beyond TLC;
  the proofs cover any number).  Four recipients give every mixture of outcomes:
  two that share a session, one in another domain, one without a domain
  (`MCAllTo`).  Two addresses per domain make "failed here, accepted there" and
  "reply lost, repeated there" possible.  `Backoff = <<1, 2>>` and `MaxAge = 3`
  reach the first retry, the last entry of the table and expiry both by the next
  attempt and by the scan.  One crash and one fault suffice for a first
  repetition, which is what `OneFateBarringFaults` counts; the proof covers all.
  `queue_live` is smaller (two domains, one address each, lifetime 2), since
  liveness needs the graph in memory.  `Smarthost` is FALSE in the runs; the
  proofs hold for both values.
* *SMTP session.*  Two users with mailboxes and a remote address, transactions of
  up to two recipients (local and remote in either order, or the same one twice),
  two charges per user, one reload.  A second reload or a third recipient adds
  no new order of events, and the proofs hold for any number.
* *Connection limiter.*  Five connections from two addresses against limits of 3
  and 2: both limits bind, separately and together.
* *Lockout.*  `Max = 2`, window 2, lockout 3, clock to 3, two connections from an
  address and one from another.  Four attempts per log suffice to exceed the
  budget of 3 if that could be; the bound is tight (the second connection does
  get its guess in).  `Span` is the length over which the budget holds: the
  shorter of window and lockout, less the lag with which a call may apply its
  reading of the clock.
* *Throttle.*  `Max = 2`, window 2, three sessions, two under one spelling of a name and
  one under another, clock to 3: events leave the window and come back.
* *Greylist.*  Two sessions with one triplet and one of another, of which two are under
  way at a time, delay 1, lifetime 1 and a day of 1, one fault, clock to 4, and to 5
  as long as nothing overlapped and nothing failed (`MCNext`): first sight, retry,
  expiry and a second first sight, with a stranger's prune beside them.
  `greylist_whitelist` needs no stranger.
* *Quota.*  Two sessions, two messages, two folders (the inbox, of whose changes
  the cache is told, and one of whose changes it is not), a quota of one message,
  a lifetime of 2 and scans of 1, two changes or read errors: one session scans while
  the other stores.  There are no more checks at a time than messages left to
  store (`MCNext`): a further check could only refuse.
* *Sender's records.*  Three domains (one, its organization, a stranger), each
  with no record or one of ten that cover every mechanism, includes and redirects
  in a circle and ones that lead on; a budget of 4 lookups and a depth of 3
  instead of 10 and 10, so that both run out; four DMARC records, three kinds of
  signatures, three settings.
* *DKIM.*  Four messages with every kind of gap, an empty body, a missing and a
  repeated field; two changes on the way, which suffice for one to undo another.
* *DNS.*  Responses of five cells - a name, a pointer anywhere, a length - and two
  pointers in a row at most instead of the code's limit; two servers.
* *Certificates.*  The loop and one thread, a lifetime of 3 stretches, renewal 2
  before the end, four stretches, two orders, one restart, one failing look: a
  renewal that fails once and succeeds next time, and two that overlap.
* *Port mapping.*  Lease 6, pause 2, rounds of up to 1 (an hour, 55 minutes and
  some seconds in the code; all that counts is the order), leases granted for 1, for 5,
  the least that outlasts a renewal, and for all 6, one restart.  A router that tells
  its address tells a public one (`MCNext`); the kind only decides what is shown.
* *Administration.*  Two requests on two accounts, so that any two steps of any two
  handlers meet; two sessions, two invitations, one password (what it is never
  decides anything), one failing operation.
* *Configuration text.*  Thirty-five files of seven heads and five tables, every
  edit with every kind of word - plain, with a backslash, with a `#` - and two edits in a
  row: a file the operator wrote, and one that the editor wrote.
* *Web gate.*  One browser and everything else as steps of the environment, two
  sessions, one restart; with a proxy, trusted or not, and without.
* *Backup.*  Two messages and four directories, one change of the mail and one thing
  that cannot be read during the backup: paths that fit, that must be cut, and that do
  not fit; a configuration that names its data directory, and one without a last
  newline.
* *Mailbox.*  Two threads and two changes are what it takes for one to act on a
  view the other made old.  One message is there from the start, in any of three
  folders, in `new` or in `cur`, marked or not; the other is delivered, appended
  or copied, so that requests and commands for several messages occur.  `\Seen`
  stands for `\Flagged` as well (all that differs is that the star toggles).  The
  proofs hold for any number of all of these.  `mailbox_numbers` needs two
  messages and one session.

`CHECK_DEADLOCK` is never switched off: where a bound ends a behaviour, or the
code has come to an end, the module says so with a step that changes nothing.

## 4. Fairness

Only `queue_live` needs it.  `FairSpec` says that the worker takes a step when it
can (its thread loops for ever and every network operation has a timeout), that
an `enqueue` under way runs on (its thread is blocked by nothing but the disk),
and that time passes.  It does not say that a remote host ever accepts anything,
that a rename ever succeeds, or that there are no crashes; these are only
bounded in number by `MaxFaults` and `MaxCrashes`.  The abstract ledger's
fairness (every debt is settled) follows from the expiry of messages.

## 5. The proofs

All proofs are for every value of the constants that satisfies the named
assumptions.  Most of these say no more than that bounds are naturals, that the
backoff table is a non-empty sequence of positive numbers and the lifetime
positive, that addresses and sentinel values are what they are called, and that
sets of connections, accounts and messages are finite.  Those that say more:

* `Certificates`: `Tolerance < Ahead` and `MaxAge + Tolerance < Life` - the code
  renews 30 days before the end of 90, so that there is room for failures; without
  room no renewal could be in time.
* `PortMap`: `Sleep + 2 * Round < Lease` - 55 minutes of pause in a lease of an
  hour leave less than two and a half for each round.  It says that what is asked for
  is enough; what routers grant (`Grants`) is any set of numbers.
* `Greylist`: a stranger is none of the triplet's sessions.
* `SenderPolicy`: `MaxLookups <= MaxDepth + 1` (10 and 10 in the code), which is why
  the limit on redirects never decides anything; and `Published`: what an answer
  holds beyond its first SPF record is not looked at.
* `DnsClient`: a pointer is a number that no label length is, which is how they
  are told apart on the wire.
* `DkimTransit`: the messages are `Message`s, that is, no gap follows another and no
  gap is a word.
* `ConfigText`: a word that needs no care, or is a number, is none that does; nor does
  the editor's own `true`; the empty word is not cut at a `#`; and the files and edits
  are files and edits.  A header without a name (`[]`) is no line of such a file
  (section 8).

TLC checks the inductive invariants of the queue and of the mailbox as invariants
of the runs; the others were checked with TLC on the same instances.

**OutboundQueueProofs.**  `NoSilentLoss` alone is not inductive: while the worker
has a message loaded, a recipient may be neither decided nor likely to stay in
the file.  The invariant adds

* `FileInv`: a message has a file only after `enqueue` began, and a file without
  a separator belongs to an `enqueue` under way or failed;
* `WorkerInv`: the worker's lists (`left`, `group`, `remaining`, `perm`) are
  disjoint, and empty at the control points where the code has used them up;
* `AccountInv`: every recipient is decided, or named by the file, or cancelled,
  and for the loaded message also decided or in one of the lists (so that the
  file may be replaced by what is in `remaining`);
* `CopyInv`: whoever the file still names, or the lists still hold, was decided
  at most as often as there were faults, hence has a decision to spare.

`OnlyAddressed` is the converse of `NoSilentLoss`: nobody is named, by a file or by
the worker, whom the message was not submitted for.  With both, the ledger that
`HandoffSpec` describes has an entry for each recipient and no other, and
`QueueImplementsHandoff` shows, action by action, that a step of the queue enters
a message in the ledger, closes one or several of its entries, or leaves it alone
(the safety part of `HandoffSpec`; its fairness is TLC's).  Other theorems:
`Invariance`, `TypeCorrectness`, `Durability` (`NoSilentLoss`),
`BoundedRepetition` (`OneFateBarringFaults`), `AttemptsInTime`
(`AttemptBeforeExpiry`).

**SmtpSessionProofs.**  `AckComplete` speaks of the step that answers 250.  What
makes it true there is `DeliverInv`: throughout a delivery every recipient waits
for its turn or for the queue, has the message, or - inbound - has lost its
mailbox since its RCPT.  The last case needs what RCPT established, carried along
as `Elements(rcpts) \subseteq live \union removed`.  `SessionInv` says who may be
in which state, and `ChargeInv` that the recipients of the transaction under way
were charged before they are sent.  Theorems: `Invariance`, `AckIsAPromise`
(`AckComplete`), `NoOpenRelay` (`NoRelay`), `NoFreeRecipient`
(`EveryRecipientCharged`), `TlsBarrier` (`NothingAcrossStartTls`).

**MailboxProofs.**  The three properties speak of single steps; what makes them true
is kept by `IndInv`: `FileInv` (a message in `new` has no flags, so that a listing
that reports none for it is right), `ListingInv` (what stayed in the directory
since it was opened is there; whatever stayed in the folder was found in `new` or
is kept in `cur`) and `WorkInv` (what an EXPUNGE is to remove carried `\Deleted`
when it was listed).  The lemma `Changes` reduces every change of a message to a
path that was listed and is still the same.  The argument for `ListingComplete`
needs that no step takes a message from `cur` back to `new`, a hypothesis of
`ChangeListing` that each caller discharges.  Theorems: `Invariance`,
`NothingVanishes` (`ExpungedOnlyDeleted`), `FlagsAccumulate` (`NoLostUpdate`),
`NothingMissed` (`ListingComplete`).

**LimitsProofs.**

* *Connections.*  The counters are equal to the cardinality of the set of connections at
  certain steps; every action moves one connection between such sets.  `LockInv` (who
  holds the mutex, and what it knows about the count of its address) and `BoundInv` (the
  total exceeds the maximum by at most the one that is about to take it back)
  complete the invariant.  Theorems: `Invariance`, `NoDrift` (`CountersExact`), `Limits`
  (`LimitsHold`), `RefusedForFull` (`RefusedOnlyWhenFull`: the step that refuses
  for the total is taken under the mutex, so that the one that is over the maximum is
  its own).
* *Throttle.*  `ThrottleCap` (`CapWithSlack`): for any hour, those accepted in it and
  the sessions that are past the check and may still be accepted in it are together
  no more than the cap and one for each further session (`OutSlack`).
  `ThrottleCountsAll` (`NothingForgotten`): whatever is pruned is older than the
  window, whichever reading of the clock the call that prunes has taken.  Both are
  about one spelling of a name.
* *Lockout.*  `LockoutBudget` (`GuessBudget`): for any address and time span, either the
  list still holds all failures within the span, and is shorter than the maximum
  (`Open`), or the address is locked out for the rest of the span, and what was and
  may still be recorded is within the budget (`Closed`).  `LockoutForCause`
  (`RefusedForCause`): a lockout that stands was imposed by a failure with `Max` in the
  window that ends with it (`Cause`), and a call that records later, with an older
  reading of the clock, takes none of them away (`AuthCause`).
* *Greylist.*  `GreylistDelays` (`NoEarlyAccept`): whatever a session is about to write,
  or has written so far, is a first sight that really happened, and whoever is
  let in was seen before (`GreyTrue`).  `GreylistLetsIn` (`RetryAccepted`): while
  sessions come one after another and no write fails, the file has the newest first
  sight, and all older ones are beyond the lifetime of an entry; a stranger that is
  about to unlink the file read an entry whose lifetime is over, and no session is
  under way (`GreyOrder`).
* *Quota.*  `QuotaMissesOnlyBursts` (`LeftOutForCause`): what a scan has passed over lies
  in a directory that it has still to list, or is listed and has still to be counted, or
  could not be read, or has arrived or been renamed since it began; and what a kept size
  leaves out could not be read, or has arrived or been renamed since its scan
  began (`ScanExcuse`, `CacheExcuse`).

**NetworkProofs.**

* *Router.*  `MappingsSurvive` (`MappingSurvives`) from an invariant that says how much
  of a lease is left at each point of a round, of a mapping that was granted for longer
  than a renewal takes (`RouterLease`).
* *Certificates.*  `ChallengesAnswered` (`ChallengeAnswered`): two threads
  have an authorization in common only if they have the account in common, so that what
  one sets the other may answer with (`CertShared`); a thread that clears it has either
  been told that the authority is done with it, or gave up waiting, which makes the
  others that wait for it `dropped` (`CertPolled`, `CertAnswer`).
  `CertificateRenewed` (`RenewedInTime`): a look that is still to come counts as a
  failure to be expected; with it and those that failed in a row there is always
  room for as many as are tolerated (`RenewMargin`).
* *DNS.*  `ReadingEnds` (`NamesEnd`): between two pointers a name is read forward, so
  each step is paid for by the cells it goes on, and each pointer by a whole response
  (`DnsBudget`).
* *SPF.*  `SpfKeepsBudget`: a record reached by so many redirects has cost a query for
  each, so the budget is spent before the limit on redirects is reached.
  `SpfMeansWhatItSays` (`SpfMeant`) compares a machine with a stack and a budget with
  a definition by recursion over the records that has neither.  Its invariant,
  `Follow`, gives each record on the stack a depth: as many records as the budget
  still had queries when it was entered.  The innermost record has passed only terms that
  decide nothing (`Passed`); followed on, each comes to what the one below waits for
  (`Waits`), and the outermost to what the sender's record means.  That the
  recursion has a solution at all (`Recursion`) is shown by the least number it could
  lack one for.
* *Verdict.*  `RefusedByPolicyOnly` (`RefusalJustified`) builds on it.

**TransitProofs.**  `SignatureMeansWhatItSays` (`VerifiedIffAuthentic`) relates two
accounts of a text: the canonical form that dkim.rs hashes, which trims, collapses
and drops lines, and `Says`, which numbers the words and notes before which of them
is a gap, without constructing anything.

* *Numbers.*  The number of a word is the cardinality of the words up to it.  It grows by
  one at a word and stays at a gap (`NthStep`), so that two words have two numbers
  (`NthLess`), and two lines that agree up to a place number it alike (`NthAlike`).
* *Lines.*  Two canonical lines that say the same are equal (`CanonSaysAll`).
  Otherwise there is a least place where they differ, or where one has ended.  If a
  word stands there in one of them (`WordDiffers`), the other says another word of
  that number, or none, or says it after a gap; if a gap does (`GapDiffers`), a word
  follows it, since a canonical line ends in none, and the other has that word without
  the gap.
* *Texts.*  A text and its canonical form say the same (`TextSays`, and `UnledSays` for a
  leading gap, which changes places but no numbers); so the canonical forms are
  equal exactly if the texts say the same (`SameText`, `SameValue`).  A line is
  canonically empty exactly if it says nothing (`EmptyText`), so the lines that
  `CanonBody` drops are those that `SaysBody` does not count (`SameBody`).
* *Messages.*  `TransitInv`: what is on its way consists of lines still, whatever the
  relays did (`RespacedLine`, `AlteredLine`), a signature is of what was sent, and a
  result is what `verify_one` makes of the message as it is (`Passes`).

**SiteProofs.**

* *Accounts.*  The lemma `AccSteps` sorts the steps of the handlers by what they do to
  file and tables.  `NoEditLost` (`EditsSurvive`): as long as no two edits have met,
  the file is what the edits so far make one by one, and the only thread in the
  editor has its own edit of that (`EditsInv`).  `LiveIsFile` (`LiveFollowsFile`):
  while requests do not meet, one at a time is busy; what it has replaced so far is
  what the file says, and without one all tables are (`LiveInv`).  `GrantsAreSpent`
  (`GrantedIsSpent`, by `TokenInv`) and `SingleUse` (`InviteOnce`): as long as no
  edits met and nobody was removed, an invitation that was granted has left an account
  that every later redemption finds, and at most one thread is between the editor and
  the end of a redemption of it (`OnceInv`).  `SetupIsOver` (`SetupStaysDone`):
  outside the exceptions the property names, after the setup there is an admin, in
  the file, in what the reloads carry and in the live tables, whom nobody removes
  (`SetupInv`).
* *Gate.*  `RedirectsStop` (`RedirectsEnd`): a request that does not go in the circle
  through a proxy has a bounded number of redirects left (`HopsLeft`), and one that
  does stays in it (`GateSecure`, `GateCircles`).  `NothingUnasked` (`ActsAreMeant`): what a
  form carries was given to the user whose session it is used in (`GateInv`).
* *Backup.*  `MovesWhole` (`MovedWhole`): a message left alone is waiting to be listed,
  waiting to be opened, in the archive, or could not be kept or read (`OnTheWay`); what
  could be read of the configuration and the keys is packed (`Packed`); a path that fits
  is cut and joined again to itself (`MoveInv`, `RoomIsFound`, `KeptFits`).

**EditProofs.**  `EditsAreExact` (`EditsExact`) is a statement about files of any length:
what the parser makes of the text that the editor has written is what the edit means
for what the parser made of the text before.

* *Places.*  A table is a function on the places of a section of which the last one with
  a key counts (`LastHas`, `TableIs`).  If places of one file are mapped into another
  in their order, with the same keys and values, the tables are the same
  (`LastCarried`, `TableCarried`); with one line more, or changed, they differ by one
  `Put` (`TablePut`).  Which section a line is in depends on the last header before it
  (`SectionIs`, `SectionAlike`).
* *Settings.*  `set_top_level_string` writes a setting over every line that has it
  (`TopReplaced`), or, where there is none, before the first header, which moves all
  lines behind by one (`TopInserted`).  Either way the settings are `Put`, and both
  tables and all other lines stay (`Setting`).
* *Rewriting.*  `rewrite_sections` keeps the lines outside the two tables.  They are
  numbered by how many of them come up to each (`Ranks`), which preserves their order,
  their sections and hence their tables (`KeptLines`, `KeptSections`, `KeptTables`),
  and a block behind is a section of its own with each key once (`BlockGrown`).  So
  the server reads the tables that were written and the settings that were there
  (`Rewriting`).
* *Edits.*  For each edit a lemma about what it is to do (`MeantAdd`, ...) and one about
  what it does (`AddDoes`, `RemoveDoes`, `QuotaDoes`, `RenameDoes`, `SetupDoes`, `AcmeDoes`,
  `SetDoes`).  Those of rewriting need that a table read and written again is the same,
  which is where nothing special may stand in it (`TablesWritten`); the renaming
  also that the editor sees the one `admin_user` that the server does (`AloneSays`).
* *Sequences of edits.*  What an edit makes of a file is a file again, whatever words it
  has (`TextInv`), so the lemmas apply to the next one.

**What proving changed.**  Some properties turned out to hold only on the small
instance, and were corrected: `RetryAccepted` with a delay of zero; `SetupStaysDone`
with two setups at once (section 7), which TLC finds with four requests.  In the
models, the failures of the lockout became positions in a log, and paths of the
backup lengths with slashes.  `VerifiedIffAuthentic` needs that no gap follows another:
two in a row would be collapsed to two blanks, where the code, for which they are
one stretch of white space, leaves one.  The lines are now typed accordingly.
`EditsExact` was false for files that TLC was not given: with a `web_tls_listen` in
some other section `enable_acme`, which looks for it in every line, does not set the
port (section 7); `Safe` now has it once and before the first section.  That
edits have plain words was a choice of edits in the run and is a premise now, and the
run has edits with other words.  `RefusedForCause` came to be about one window
because the failures up to the refusal, with a lockout longer than the window, need
not have met in any.  The kept lines of a rewriting, once a fold over the
text, are defined by their numbers.

**Only model-checked.**  `QueueDrains` and the fairness of `Handoff` (liveness, and
ENABLED, are beyond the prover).  Every invariant and every action property of a
passing run is proved.  The properties of the violation runs are refuted, not
proved.  No module declares a RECURSIVE operator; where a definition recurses (the
meaning of SPF records), it is a recursive function.

## 6. Where the code and its documentation disagree

* **A deleted entry comes back** (`queue_deleted`).  `rewrite_message`
  (`queue.rs:318`) renames its temporary file over the path whether or not the
  entry still exists, so a message that the admin page reported as deleted while
  the worker had it loaded is retried after all.
* **A message can be sent cut short** (`queue_whole`).  `enqueue` (`queue.rs:61`)
  writes under the final name; a scan that falls between the separator and the
  end of the body loads and sends what is there.  A temporary name and a rename,
  as `rewrite_message` does it, would rule it out.
* **The greylist's whitelist ends early** (`greylist_whitelist`).  Pruning
  (`spamscore.rs:157`) and look-up both go by the first sight; the last
  acceptance that is stored, and that the documentation gives a lifetime of its
  own, never decides anything when the delay is shorter than the lifetime.
* **EXPUNGE numbers go the wrong way** (`mailbox_numbers`).  The comment at
  `imap.rs:848` says that the numbers "must be emitted high-to-low so remaining
  indices stay valid"; `do_expunge` unlinks in that order, but returns the numbers
  ascending, and not adjusted, and that is how they are sent.  A client that
  removes a message at each response is out of step after the first.

* **A renewed certificate is not served** (`served_certificate`).  The files are
  loaded when the process starts (`main.rs:189`); the renewal loop only writes
  them.  "Restart desertemail once" (`web.rs:4212`) is not enough: without a
  restart after each renewal the old certificate is served beyond its end.
* **A DNS failure can cause a refusal** (`dns_failure`), although `smtp.rs:628`
  says it never does.  When the lookup of a domain's own DMARC record fails, the
  organization's is applied; a failed address lookup counts as no match, so that
  SPF comes to fail; and the second condition (`smtp.rs:756`) does not look at
  DKIM's TempError.

## 7. Other observations

Seen while modelling, and visible in the models:

* A message is given up when its *next* attempt would be too late, hence some
  hours before the 24 h that `src/README.md` line 70 names: with the default table,
  after about 20 h.
* `outbound_max_per_hour` (`config.rs:91`) is no bound on what an account sends.  The
  throttle is asked with the name as typed (`smtp.rs:251`, `279`, `ratelimit.rs:201`,
  `226`), which the password check folds to lower case (`config.rs:719`), so each spelling
  has a budget of its own; under one spelling it is exceeded by up to one recipient
  for each concurrent session (`CapWithSlack` is the tight bound); and what is sent by
  webmail is neither checked nor counted (`web.rs:5579`).
* A greylist file read by one session while another has just truncated it counts
  as never seen: an accepted sender may be deferred once more
  (`RetryAccepted` has the premise `~overlap` for that reason).  The same happens to a
  sender whose entry was renewed between the moment when some other session, of
  whatever triplet, read the expired one and the moment when it unlinked it
  (`spamscore.rs:157`-`167`).
* When `deliver_mail` fails at a later recipient the earlier ones keep their
  copies and the client is told to try again (`DeliverError`), so that they get
  another copy.  The connection ending inside DATA delivers what was received
  (`smtp.rs:433`).
* An `enqueue` that fails after writing the separator leaves a file the worker
  will send, although the client was told to try again.
* A session learns of other sessions' changes by silently taking a new listing: NOOP,
  IDLE, APPEND and STORE replace the view without EXPUNGE responses
  (`imap.rs:216`, `386`, `1047`), so that a client's numbers may point elsewhere
  afterwards.  A file that vanishes during a listing fails it, and a session then
  keeps the view it had.
* A STORE that would not change the path in view answers OK without looking at the
  disk, even if the message was changed or is gone (`storage.rs:241`).
* EXPUNGE reports a message whose unlink failed (`imap.rs:859`).
* A listing may contain a message twice, once from `new` and once from `cur`.
* Saving a draft removes the previous one before the new one is written
  (`web.rs:5412`).
* One recipient refused with 5xx at RCPT makes the whole domain group of that
  message fail (`queue.rs:757`).

* *Accounts.*  Two setups with different names at the same time both succeed
  (`web.rs:1475` looks before `web.rs:1503` writes); each admin can then remove the
  other, and with both gone the setup page is open again.  Two edits at the same time
  lose one; a reload that read before the other's rename can leave a removed user
  live.  The temporary file has one name for all threads (`useredit.rs:477`), so two
  writers may leave a torn or empty file, which opens the setup again.
  `set_quota_live` after the reload may overwrite a later edit.  An invitation
  (`invites.rs:5`: "Single-use") is granted twice when edits clash or the account is
  removed in between.  A rename that overtakes a checked removal can remove the
  admin's own account; a login that overtakes a removal or a password reset leaves a
  session; a renamed user's session may be revoked between reload and remap.
* *Configuration text.*  Escapes are never undone, so every rewrite doubles a
  backslash; a `#` inside quotes cuts the value; a quota that is no number is 0 for
  the server and dropped by the editor; after a line without `=` an edit succeeds and
  the reload fails; an `admin_user` with a comment behind it, or given twice, does not
  follow a rename; a `web_tls_listen` in any section, where the server does not look
  for it, keeps `enable_acme` (`useredit.rs:456`) from setting the port.
* *Certificates.*  Two threads at once, or a crash between the two files, leave a
  pair that does not fit, which the renewal check does not notice; a half-written
  account key makes every later order fail; the challenges of a failed order stay.
  The map of challenges has the token alone for its key (`acme.rs:27`-`43`): if the
  authority gives two threads of one account the same authorization, the one that
  gives up after two minutes takes the answer away from the other.
* *Port mapping.*  The server is shown as reachable although the web port was not
  mapped (`portmap.rs:146`); an external port other than the one asked for,
  and the lifetime granted, are ignored (`portmap.rs:437`), so that a mapping granted for
  less than 55 minutes lapses in every pause; an empty or missing answer to
  AddPortMapping counts as success (`portmap.rs:677`).
* *Web gate.*  With TLS active behind a proxy that is not trusted, the redirect to
  HTTPS leads in a circle (`web.rs:1163`; `Circles` is the exception in `RedirectsEnd`);
  a POST that is redirected arrives as a GET.
* *DKIM.*  A field that is there twice is signed by its first occurrence and
  verified by its last, so that the server does not verify its own signature;
  `VerifiedIffAuthentic` excludes such messages.  Bytes of a header that are not UTF-8
  are replaced before they are hashed (`dkim.rs:583`); a word of the model is what is left
  after that.
* *DNS.*  A truncated response is asked for again, over UDP.
* *Quota.*  A change in the inbox forgets every user's size, one in a nested folder
  nobody's (`storage.rs:469` says otherwise); webmail stores without asking.  What is
  marked or moved between the reading of two directories may be missed or counted twice,
  and what cannot be read counts nothing (`storage.rs:477`-`500`), until the kept size
  ages.
* *Backup.*  `cur` is read before `new`, so that a message opened meanwhile is missed
  although `web.rs:5933` promises "the full data_dir"; a file renamed between listing
  and opening is skipped, as is one that cannot be opened or read, config.toml and the
  key files among them, with a line in the log and an archive that succeeds
  (`tarball.rs:151`); an entry in error is dropped from a listing without even that
  (`tarball.rs:129`); a directory that is removed fails the backup; an account named
  `tmp` is left out; key files of one name overwrite each other; a configuration
  without `data_dir` gets it in whatever section is open at its end, or not at all
  when it lacks the last newline; an archive cut off between two entries counts as
  whole; `--force` leaves old files; a damaged archive is refused only after empty
  directories were made for it.

## 8. What is not modelled

Pure functions with no state (password hashing, cryptography, the score of a message,
page rendering), counters nothing reads (metrics), read-only diagnosis (doctor),
installers and the site.  Of the modelled parts: the text of messages and replies;
IMAP's LOGIN, FETCH and SEARCH; drafts and search in the webmail; simple
canonicalization and the tags of DKIM; the DNSBL cache; discovery packets, JSON and
JWS; edits of the domains and of single settings beside those of accounts, and the
command line's, in `Administration` (their text is in `ConfigText`); a header without
a name (`[]`) in the configuration, which leads the parser back to the settings but
not `top_level_string`.  All files are assumed to be written in the order of the calls
(a process crash, not a loss of power).  Remote hosts, relays, the authority, the
router and name servers are choices.  `LiveFollowsFile` is about requests that edit
and reload one after another; of reloads that overlap, which may leave a table older
than the file, only what `AckComplete` and `SetupStaysDone` say of them is checked.
`PROJECT.json` lists every part with its reason.

## 9. The plan

1. **IMAP, continued**: what the client is told, as a second view beside the
   session's; for which commands the two agree.
2. **Composition**: an SMTP session with the throttle and the queue in one module,
   so that `AckComplete` and `NoSilentLoss` meet.
3. **Drafts and sending** in the webmail.

## 10. Running

    tlc -workers 2 -config MCOutboundQueue_safe.cfg MCOutboundQueue.tla
    tlapm OutboundQueueProofs.tla

The longest runs (`mailbox`, `queue_safe`, `network`, `site`) take two to four minutes, the
longest proofs (`SiteProofs`, `EditProofs`, `NetworkProofs`, `TransitProofs`) about six.

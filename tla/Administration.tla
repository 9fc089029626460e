---------------------------- MODULE Administration ----------------------------
(* The accounts of desertemail and everything that changes them while the     *)
(* server runs: first-run setup, the admin page, the account page and the     *)
(* redemption of invitations (web.rs), the editor of config.toml              *)
(* (useredit.rs), the live reload (config.rs), the invitation store           *)
(* (invites.rs) and the login sessions.                                       *)
(*                                                                            *)
(* Every request has a thread.  Each edit of the configuration is a read of   *)
(* the file, a temporary file under a name that all threads of the process    *)
(* share, a rename over the file, and a reload of the live tables field by    *)
(* field, all without a lock.  Invitations and sessions have a mutex each, so *)
(* that one call on them is one step.                                         *)
EXTENDS Naturals, FiniteSets

CONSTANTS
    Thread,       \* threads that serve requests
    Name,         \* account names (keys of [users])
    Pwd,          \* passwords
    Sid,          \* login session tokens
    Token,        \* invitation tokens
    None,         \* no account, no password, no session, a token not issued yet
    Gone,         \* an invitation that is no longer pending
    MaxRequests,  \* bound: requests begun
    MaxFaults     \* bound: failing file operations

AdminAssumption ==
    /\ None \notin Name \union Pwd \union Sid \union Token
    /\ Gone \notin Name \union {None}
    /\ MaxRequests \in Nat /\ MaxFaults \in Nat
    /\ IsFiniteSet(Thread)

VARIABLES
    config,     \* what config.toml holds
    temp,       \* what .config.toml.tmp.<pid> holds, or NoFile
    users,      \* live: name -> password, None if there is no such account
    quotas,     \* live: names with a quota of their own
    admin,      \* live: admin_user
    invite,     \* token -> invited name, or None, or Gone
    session,    \* session token -> account name, None if it is not signed in
    pc, req,    \* per thread: where it is, the request it serves
    copy,       \* per thread: the document it read
    fd,         \* per thread: the name of the file it has open for writing by now
    begun, faults,  \* counters for the bounds
    ideal,      \* ghost: the document if the edits had been made one by one
    met,        \* ghost: what has happened at the same time, or failed
    used        \* ghost: token -> number of redemptions that were granted

files == <<config, temp>>
live  == <<users, quotas, admin>>
vars  == <<config, temp, users, quotas, admin, invite, session,
           pc, req, copy, fd, begun, faults, ideal, met, used>>

-------------------------------------------------------------------------------
(* Documents and the edits of useredit.rs.                                    *)

Document == [users : [Name -> Pwd \union {None}], quotas : SUBSET Name,
             admin : Name \union {None}]
Blank    == [users |-> [n \in Name |-> None], quotas |-> {}, admin |-> None]
Has(d, n) == d.users[n] # None

Content ==
    [kind : {"whole", "empty"}, doc : Document, tail : {Blank}]
    \union [kind : {"torn"}, doc : Document, tail : Document]
Whole(d)   == [kind |-> "whole", doc |-> d, tail |-> Blank]
Emptied    == [kind |-> "empty", doc |-> Blank, tail |-> Blank]
Torn(d, e) == [kind |-> "torn", doc |-> d, tail |-> e]
NoFile     == [kind |-> "none", doc |-> Blank, tail |-> Blank]

(* What a reader may make of a file: an emptied one is a valid configuration  *)
(* without accounts; behind a shorter document the last lines of a longer one *)
(* may be left, which name some of its accounts.                              *)
Readings(c) ==
    IF c.kind # "torn" THEN {c.doc}
    ELSE {[c.doc EXCEPT !.users =
              [n \in Name |-> IF n \in S THEN c.tail.users[n] ELSE @[n]]]
            : S \in SUBSET {n \in Name : Has(c.tail, n)}}

AddUser(r, d)  == [d EXCEPT !.users[r.name] = r.pwd]
SetPassword(r, d) == [d EXCEPT !.users[r.name] = r.pwd]
RemoveUser(r, d)  == [d EXCEPT !.users[r.name] = None, !.quotas = @ \ {r.name}]
SetQuota(r, d) ==
    [d EXCEPT !.quotas = IF r.cap THEN @ \union {r.name} ELSE @ \ {r.name}]
CompleteSetup(r, d) == [AddUser(r, d) EXCEPT !.admin = r.name]
RenameUser(r, d) ==
    [users  |-> [d.users EXCEPT ![r.name] = None, ![r.new] = d.users[r.name]],
     quotas |-> IF r.name \in d.quotas THEN (d.quotas \ {r.name}) \union {r.new}
                                       ELSE d.quotas,
     admin  |-> IF d.admin = r.name THEN r.new ELSE d.admin]

EditOk(r, d) ==
    CASE r.kind \in {"setup", "add", "redeem"} -> ~Has(d, r.name)
      [] r.kind = "rename" -> Has(d, r.name) /\ ~Has(d, r.new)
      [] r.kind \in {"password", "own", "remove"} -> Has(d, r.name)
      [] r.kind = "quota"  -> TRUE

Edited(r, d) ==
    CASE r.kind = "setup" -> CompleteSetup(r, d)
      [] r.kind \in {"add", "redeem"} -> AddUser(r, d)
      [] r.kind \in {"password", "own"} -> SetPassword(r, d)
      [] r.kind = "remove" -> RemoveUser(r, d)
      [] r.kind = "rename" -> RenameUser(r, d)
      [] r.kind = "quota"  -> SetQuota(r, d)

-------------------------------------------------------------------------------
(* Requests.                                                                  *)

Request == [kind : {"none", "setup", "login", "add", "password", "own", "remove",
                    "rename", "quota", "redeem"},
            keep : Sid \union {None}, name : Name \union {None},
            new : Name \union {None}, pwd : Pwd \union {None},
            tok : Token \union {None}, cap : BOOLEAN]
Idle == [kind |-> "none", keep |-> None, name |-> None, new |-> None,
         pwd |-> None, tok |-> None, cap |-> FALSE]

Editing   == {"create", "write", "swap"}             \* between read and rename
Reloading == {"reload", "users", "quotas", "admin"}  \* until the live tables are new

(* Still to touch the live tables: handle_admin_user_quota does so once more. *)
Unsettled(t) == pc[t] \in Reloading \/ (pc[t] = "finish" /\ req[t].kind = "quota")
InService == {t \in Thread : pc[t] # "idle"}

SetupPending == \A n \in Name : users[n] = None

(* route_inner: the session's user, as long as that account exists. *)
Signed(k) == session[k] # None /\ users[session[k]] # None
IsAdmin(k) == Signed(k) /\ session[k] = admin

TypeOK ==
    /\ config \in Content /\ temp \in Content \union {NoFile}
    /\ users \in [Name -> Pwd \union {None}]
    /\ quotas \subseteq Name /\ admin \in Name \union {None}
    /\ invite \in [Token -> Name \union {None, Gone}]
    /\ session \in [Sid -> Name \union {None}]
    /\ pc \in [Thread -> {"idle", "looked", "edit", "sign", "finish", "settle"}
                         \union Editing \union Reloading]
    /\ req \in [Thread -> Request] /\ copy \in [Thread -> Document]
    /\ fd \in [Thread -> {"closed", "temp", "config", "unlinked"}]
    /\ begun \in 0..MaxRequests /\ faults \in 0..MaxFaults
    /\ ideal \in Document /\ used \in [Token -> Nat]
    /\ met \subseteq {"rename", "setup", "reload", "edit", "removal", "fault"}

(* The server starts with the configuration in the file.  Either nobody has   *)
(* an account yet, or there is an admin with a login session.                 *)
Init ==
    /\ \E n \in Name, p \in Pwd, k \in Sid :
         \/ ideal = Blank /\ session = [s \in Sid |-> None]
         \/ /\ ideal = CompleteSetup([Idle EXCEPT !.name = n, !.pwd = p], Blank)
            /\ session = [s \in Sid |-> IF s = k THEN n ELSE None]
    /\ config = Whole(ideal) /\ temp = NoFile
    /\ users = ideal.users /\ quotas = ideal.quotas /\ admin = ideal.admin
    /\ invite = [k \in Token |-> None] /\ used = [k \in Token |-> 0]
    /\ pc = [t \in Thread |-> "idle"] /\ req = [t \in Thread |-> Idle]
    /\ copy = [t \in Thread |-> Blank] /\ fd = [t \in Thread |-> "closed"]
    /\ begun = 0 /\ faults = 0 /\ met = {}

Goto(t, label) == pc' = [pc EXCEPT ![t] = label]

Done(t) ==
    /\ pc'   = [pc EXCEPT ![t] = "idle"]
    /\ req'  = [req EXCEPT ![t] = Idle]
    /\ copy' = [copy EXCEPT ![t] = Blank]

Stay == UNCHANGED <<files, live, invite, session, fd, faults, ideal, used>>

(* The invitation store: load_raw and prune_expired, create, revoke_by_hash   *)
(* (or expiry) and regenerate, each of them under the store's mutex.          *)
Pending(k) == invite[k] \in Name
Issue(k, n) == invite[k] = None /\ invite' = [invite EXCEPT ![k] = n]
Revoke(k) == Pending(k) /\ invite' = [invite EXCEPT ![k] = Gone]
Reissue(old, new) ==
    /\ Pending(old) /\ invite[new] = None
    /\ invite' = [invite EXCEPT ![old] = Gone, ![new] = invite[old]]

(* set_quota_live *)
CapLive(n, capped) == quotas' = IF capped THEN quotas \union {n} ELSE quotas \ {n}

(* A thread takes up a request that passed the checks of its handler.  What   *)
(* is noted is a renaming that meets any other request, and two setups.       *)
Begin(t, r, label) ==
    /\ pc[t] = "idle" /\ begun < MaxRequests
    /\ req' = [req EXCEPT ![t] = r]
    /\ Goto(t, label)
    /\ begun' = begun + 1
    /\ met' = met
         \union (IF \E u \in InService : "rename" \in {r.kind, req[u].kind} THEN {"rename"} ELSE {})
         \union (IF \E u \in InService : {r.kind, req[u].kind} = {"setup"} THEN {"setup"} ELSE {})
    /\ UNCHANGED copy

(* handle_setup: open only while no account exists in the live table.         *)
Setup(t, n, p) ==
    /\ SetupPending
    /\ Begin(t, [Idle EXCEPT !.kind = "setup", !.name = n, !.pwd = p], "edit")
    /\ Stay

(* handle_login: the password is checked; the session is entered afterwards.  *)
Login(t, n) ==
    /\ users[n] # None
    /\ Begin(t, [Idle EXCEPT !.kind = "login", !.name = n], "sign")
    /\ Stay

(* handle_account_password: the user's own password.                          *)
OwnPassword(t, k, p) ==
    /\ Signed(k)
    /\ Begin(t, [Idle EXCEPT !.kind = "own", !.name = session[k], !.pwd = p], "edit")
    /\ Stay

(* The forms of the admin page: handle_admin_user_add, _password, _remove,    *)
(* _rename and _quota, with what each checks against the live tables.         *)
AdminForm(t, k, r) ==
    /\ IsAdmin(k)
    /\ Begin(t, r, "edit")
    /\ Stay

UserAdd(t, k, n, p) ==
    /\ users[n] = None
    /\ AdminForm(t, k, [Idle EXCEPT !.kind = "add", !.name = n, !.pwd = p])

UserPassword(t, k, n, p) ==
    /\ users[n] # None
    /\ \E logout \in BOOLEAN :
         AdminForm(t, k, [Idle EXCEPT !.kind = "password", !.name = n, !.pwd = p,
             !.cap = logout, !.keep = IF logout /\ n = session[k] THEN k ELSE None])

(* Mutant: the admin may remove the account it is signed in with. *)
UserRemoveAny(t, k, n) ==
    AdminForm(t, k, [Idle EXCEPT !.kind = "remove", !.name = n])

UserRemove(t, k, n) ==
    /\ n # session[k]
    /\ AdminForm(t, k, [Idle EXCEPT !.kind = "remove", !.name = n])

UserRename(t, k, n, m) ==
    /\ users[n] # None /\ users[m] = None
    /\ AdminForm(t, k, [Idle EXCEPT !.kind = "rename", !.name = n, !.new = m])

UserQuota(t, k, n) ==
    \E capped \in BOOLEAN :
        AdminForm(t, k, [Idle EXCEPT !.kind = "quota", !.name = n, !.cap = capped])

(* handle_invite_redeem: look the token up, without consuming it, ...         *)
RedeemLookup(t, k, p) ==
    /\ ~SetupPending
    /\ Pending(k)
    /\ Begin(t, [Idle EXCEPT !.kind = "redeem", !.tok = k, !.name = invite[k],
                             !.pwd = p], "looked")
    /\ Stay

(* invites::redeem; its error, if the file cannot be written, is dropped.     *)
Consume(k) ==
    \/ invite' = [invite EXCEPT ![k] = IF @ \in Name THEN Gone ELSE @] /\ UNCHANGED <<faults, met>>
    \/ /\ invite[k] \in Name /\ faults < MaxFaults
       /\ faults' = faults + 1 /\ met' = met \union {"fault"} /\ UNCHANGED invite

(* Mutant: who finds the account there is taken for its new owner. *)
RedeemExistsGranted(t) ==
    /\ pc[t] = "looked" /\ users[req[t].name] # None
    /\ Consume(req[t].tok)
    /\ used' = [used EXCEPT ![req[t].tok] = @ + 1]
    /\ Done(t)
    /\ UNCHANGED <<files, live, session, fd, begun, ideal>>

(* ... then see whether somebody has the account by now.                      *)
RedeemExists(t) ==
    /\ pc[t] = "looked" /\ users[req[t].name] # None
    /\ Consume(req[t].tok)
    /\ Done(t)
    /\ UNCHANGED <<files, live, session, fd, begun, ideal, used>>

RedeemProceed(t) ==
    /\ pc[t] = "looked" /\ users[req[t].name] = None
    /\ Goto(t, "edit")
    /\ UNCHANGED <<req, copy, begun, met>> /\ Stay

-------------------------------------------------------------------------------
(* persist_and_reload: edit_file, write_atomic, reload_users_quotas.          *)

(* Mutant: the edit starts from the live tables. *)
EditReadLive(t) ==
    /\ pc[t] = "edit"
    /\ \E d \in Readings(config) : EditOk(req[t], d)
    /\ copy' = [copy EXCEPT ![t] =
           Edited(req[t], [users |-> users, quotas |-> quotas, admin |-> admin])]
    /\ Goto(t, "create")
    /\ met' = met \union (IF \E u \in Thread : pc[u] \in Editing THEN {"edit", "reload"}
                         ELSE IF \E u \in Thread : Unsettled(u) THEN {"reload"} ELSE {})
    /\ UNCHANGED <<req, begun>> /\ Stay

(* The file is read and the edit applied to what was read.                    *)
EditRead(t) ==
    /\ pc[t] = "edit"
    /\ \E d \in Readings(config) :
         /\ EditOk(req[t], d)
         /\ copy' = [copy EXCEPT ![t] = Edited(req[t], d)]
    /\ Goto(t, "create")
    /\ met' = met \union (IF \E u \in Thread : pc[u] \in Editing THEN {"edit", "reload"}
                         ELSE IF \E u \in Thread : Unsettled(u) THEN {"reload"}
                         ELSE {})
    /\ UNCHANGED <<req, begun>> /\ Stay

(* The edit refuses: the account exists already, or no longer.                *)
EditRefused(t) ==
    /\ pc[t] = "edit"
    /\ \E d \in Readings(config) : ~EditOk(req[t], d)
    /\ IF req[t].kind = "redeem" THEN Consume(req[t].tok)
                                 ELSE UNCHANGED <<invite, faults, met>>
    /\ Done(t)
    /\ UNCHANGED <<files, live, session, fd, begun, ideal, used>>

(* File::create: the name belongs to the process, so that the file may be     *)
(* another thread's; it is truncated.                                         *)
TempCreate(t) ==
    /\ pc[t] = "create"
    /\ temp' = Emptied
    /\ fd' = [fd EXCEPT ![t] = "temp"]
    /\ Goto(t, "write")
    /\ UNCHANGED <<config, live, invite, session, req, copy, begun, faults,
                   ideal, met, used>>

(* What a file holds after d was written from its start: whatever another     *)
(* thread has put there since it was truncated may stick out behind.          *)
Written(c, d) ==
    {Whole(d)} \union (IF c.kind # "empty" /\ c.doc # d THEN {Torn(d, c.doc)} ELSE {})

(* write_all and sync_all: into the open file, whatever it is called by now.  *)
TempWrite(t) ==
    /\ pc[t] = "write"
    /\ \/ fd[t] = "temp" /\ temp' \in Written(temp, copy[t]) /\ UNCHANGED config
       \/ fd[t] = "config" /\ config' \in Written(config, copy[t]) /\ UNCHANGED temp
       \/ fd[t] = "unlinked" /\ UNCHANGED files
    /\ fd' = [fd EXCEPT ![t] = "closed"]
    /\ Goto(t, "swap")
    /\ UNCHANGED <<live, invite, session, req, copy, begun, faults, ideal, met, used>>

(* fs::rename over config.toml.                                               *)
TempRename(t) ==
    /\ pc[t] = "swap" /\ temp # NoFile
    /\ config' = temp /\ temp' = NoFile
    /\ fd' = [u \in Thread |-> CASE fd[u] = "temp" -> "config"
                                 [] fd[u] = "config" -> "unlinked"
                                 [] OTHER -> fd[u]]
    /\ ideal' = IF EditOk(req[t], ideal) THEN Edited(req[t], ideal) ELSE ideal
    /\ met' = IF req[t].kind \in {"remove", "rename"} THEN met \union {"removal"} ELSE met
    /\ copy' = [copy EXCEPT ![t] = Blank]
    /\ Goto(t, "reload")
    /\ UNCHANGED <<live, invite, session, req, begun, faults, used>>

(* Creating, writing or renaming fails; a failed rename also removes whatever *)
(* has the temporary name.  The request answers with the error.               *)
EditFails(t) ==
    /\ \/ pc[t] \in Editing /\ faults < MaxFaults /\ faults' = faults + 1
       \/ pc[t] = "swap" /\ temp = NoFile /\ UNCHANGED faults
    /\ temp' = IF pc[t] = "swap" THEN NoFile ELSE temp
    /\ fd' = [u \in Thread |->
                 IF u = t THEN "closed"
                 ELSE IF pc[t] = "swap" /\ fd[u] = "temp" THEN "unlinked" ELSE fd[u]]
    /\ Done(t)
    /\ UNCHANGED <<config, live, invite, session, begun, ideal, met, used>>

(* reload_users_quotas: the file is read and parsed, ...                      *)
ReloadRead(t) ==
    /\ pc[t] = "reload"
    /\ \E d \in Readings(config) : copy' = [copy EXCEPT ![t] = d]
    /\ Goto(t, "users")
    /\ UNCHANGED <<req, begun, met>> /\ Stay

(* (a file that cannot be read or parsed ends the request with an error)      *)
ReloadFails(t) ==
    /\ pc[t] = "reload"
    /\ \/ config.kind = "torn" /\ UNCHANGED faults
       \/ faults < MaxFaults /\ faults' = faults + 1
    /\ met' = met \union {"fault"}
    /\ Done(t)
    /\ UNCHANGED <<files, live, invite, session, fd, begun, ideal, used>>

(* ... and the live tables are replaced one after another.                    *)
ReloadUsers(t) ==
    /\ pc[t] = "users" /\ users' = copy[t].users /\ Goto(t, "quotas")
    /\ UNCHANGED <<files, quotas, admin, invite, session, req, copy, fd, begun,
                   faults, ideal, met, used>>

ReloadQuotas(t) ==
    /\ pc[t] = "quotas" /\ quotas' = copy[t].quotas /\ Goto(t, "admin")
    /\ UNCHANGED <<files, users, admin, invite, session, req, copy, fd, begun,
                   faults, ideal, met, used>>

(* Mutant: who the admin is is not reloaded. *)
ReloadAdminNot(t) ==
    /\ pc[t] = "admin" /\ Goto(t, "finish")
    /\ copy' = [copy EXCEPT ![t] = Blank]
    /\ UNCHANGED <<files, live, invite, session, req, fd, begun, faults, ideal,
                   met, used>>

ReloadAdmin(t) ==
    /\ pc[t] = "admin" /\ admin' = copy[t].admin /\ Goto(t, "finish")
    /\ copy' = [copy EXCEPT ![t] = Blank]
    /\ UNCHANGED <<files, users, quotas, invite, session, req, fd, begun,
                   faults, ideal, met, used>>

-------------------------------------------------------------------------------
(* What the handlers do once the new configuration is live.                   *)

Unused == {k \in Sid : session[k] = None /\ \A u \in Thread : req[u].keep # k}

(* make_session_token and set_session *)
SignIn(t) == \E k \in Unused : session' = [session EXCEPT ![k] = req[t].name]

(* clear_sessions_for_user, sparing the acting session if it is that user's   *)
SignOut(n, spared) ==
    session' = [k \in Sid |-> IF session[k] = n /\ k # spared THEN None ELSE session[k]]

(* The end of handle_login and handle_setup.                                  *)
FinishSignIn(t) ==
    /\ \/ pc[t] = "sign"
       \/ pc[t] = "finish" /\ req[t].kind = "setup"
    /\ SignIn(t)
    /\ Done(t)
    /\ UNCHANGED <<files, live, invite, fd, begun, faults, ideal, met, used>>

FinishPlain(t) ==
    /\ pc[t] = "finish" /\ req[t].kind \in {"add", "own"}
    /\ Done(t)
    /\ UNCHANGED <<begun, met>> /\ Stay

FinishPassword(t) ==
    /\ pc[t] = "finish" /\ req[t].kind = "password"
    /\ IF req[t].cap THEN SignOut(req[t].name, req[t].keep) ELSE UNCHANGED session
    /\ Done(t)
    /\ UNCHANGED <<files, live, invite, fd, begun, faults, ideal, met, used>>

FinishRemove(t) ==
    /\ pc[t] = "finish" /\ req[t].kind = "remove"
    /\ SignOut(req[t].name, None)
    /\ Done(t)
    /\ UNCHANGED <<files, live, invite, fd, begun, faults, ideal, met, used>>

(* set_quota_live, once more after the reload *)
FinishQuota(t) ==
    /\ pc[t] = "finish" /\ req[t].kind = "quota"
    /\ CapLive(req[t].name, req[t].cap)
    /\ Done(t)
    /\ UNCHANGED <<files, users, admin, invite, session, fd, begun, faults, ideal,
                   met, used>>

(* The mailbox directory is moved, if it can be; the sessions are given the   *)
(* new name.                                                                  *)
RemapSessions(t) ==
    /\ pc[t] = "finish" /\ req[t].kind = "rename"
    /\ session' = [k \in Sid |-> IF session[k] = req[t].name THEN req[t].new ELSE session[k]]
    /\ Done(t)
    /\ UNCHANGED <<files, live, invite, fd, begun, faults, ideal, met, used>>

(* Mutant: the invitation is kept. *)
RedeemConsumeNot(t) ==
    /\ pc[t] = "finish" /\ req[t].kind = "redeem"
    /\ used' = [used EXCEPT ![req[t].tok] = @ + 1]
    /\ Goto(t, "settle")
    /\ UNCHANGED <<files, live, invite, session, req, copy, fd, begun, faults,
                   ideal, met>>

RedeemConsume(t) ==
    /\ pc[t] = "finish" /\ req[t].kind = "redeem"
    /\ Consume(req[t].tok)
    /\ used' = [used EXCEPT ![req[t].tok] = @ + 1]
    /\ Goto(t, "settle")
    /\ UNCHANGED <<files, live, session, req, copy, fd, begun, ideal>>

RedeemSignIn(t) ==
    /\ pc[t] = "settle" /\ req[t].kind = "redeem"
    /\ SignIn(t)
    /\ Done(t)
    /\ UNCHANGED <<files, live, invite, fd, begun, faults, ideal, met, used>>

-------------------------------------------------------------------------------
(* Requests that are one step, and the rest of the world.                     *)

Aside == UNCHANGED <<files, live, pc, req, copy, fd, begun, faults, ideal, met, used>>

(* A page for an account that does not exist (any more) ends the session.     *)
RevokeOnRequest(k) ==
    /\ ~SetupPending /\ session[k] # None /\ users[session[k]] = None
    /\ session' = [session EXCEPT ![k] = None]
    /\ UNCHANGED invite /\ Aside

Logout(k) ==
    /\ ~SetupPending /\ session[k] # None
    /\ session' = [session EXCEPT ![k] = None]
    /\ UNCHANGED invite /\ Aside

UserLogout(k, n) ==
    /\ IsAdmin(k) /\ users[n] # None
    /\ SignOut(n, k)
    /\ UNCHANGED invite /\ Aside

InviteCreate(k, tok, n) ==
    /\ IsAdmin(k) /\ users[n] = None /\ Issue(tok, n)
    /\ UNCHANGED session /\ Aside

(* handle_admin_invite_revoke, or the invitation expires.                     *)
InviteRevoke(tok) ==
    /\ Revoke(tok)
    /\ UNCHANGED session /\ Aside

InviteRegenerate(k, old, new) ==
    /\ IsAdmin(k) /\ Reissue(old, new)
    /\ UNCHANGED session /\ Aside

Forms(t) ==
    \E k \in Sid, n \in Name :
        \/ UserRemove(t, k, n)
        \/ UserQuota(t, k, n)
        \/ \E m \in Name : UserRename(t, k, n, m)
        \/ \E p \in Pwd : UserAdd(t, k, n, p) \/ UserPassword(t, k, n, p)

Requests(t) ==
    \/ \E n \in Name : Login(t, n) \/ \E p \in Pwd : Setup(t, n, p)
    \/ \E k \in Sid, p \in Pwd : OwnPassword(t, k, p)
    \/ \E k \in Token, p \in Pwd : RedeemLookup(t, k, p)
    \/ Forms(t)

Steps(t) ==
    \/ RedeemExists(t) \/ RedeemProceed(t)
    \/ EditRead(t) \/ EditRefused(t) \/ TempCreate(t) \/ TempWrite(t) \/ TempRename(t)
    \/ EditFails(t)
    \/ ReloadRead(t) \/ ReloadFails(t) \/ ReloadUsers(t) \/ ReloadQuotas(t) \/ ReloadAdmin(t)
    \/ FinishSignIn(t) \/ FinishPlain(t) \/ FinishPassword(t) \/ FinishRemove(t)
    \/ FinishQuota(t) \/ RemapSessions(t)
    \/ RedeemConsume(t) \/ RedeemSignIn(t)

Others ==
    \/ \E k \in Sid : RevokeOnRequest(k) \/ Logout(k)
    \/ \E k \in Sid, n \in Name : UserLogout(k, n)
    \/ \E k \in Sid, tok \in Token, n \in Name : InviteCreate(k, tok, n)
    \/ \E tok \in Token : InviteRevoke(tok)
    \/ \E k \in Sid, old, new \in Token : InviteRegenerate(k, old, new)

(* No more requests within the bound. *)
Rest == begun = MaxRequests /\ InService = {} /\ UNCHANGED vars

Next == (\E t \in Thread : Requests(t) \/ Steps(t)) \/ Others \/ Rest

Spec == Init /\ [][Next]_vars

-------------------------------------------------------------------------------
(* Properties.                                                                *)

(* No edit is undone by another one: unless two edits were ever between their *)
(* read and their rename at the same time, the file holds what all of them    *)
(* give when applied one after another (edit_file takes no lock).             *)
EditsSurvive == "edit" \notin met => config = Whole(ideal)

(* The live tables follow the file: unless one request edited while another   *)
(* was not yet through with its edit and reload, or a reload failed, the live *)
(* tables are those of the file whenever nobody is replacing them             *)
(* (reload_users_quotas reads first and replaces field by field).             *)
LiveFollowsFile ==
    (met \intersect {"reload", "fault"} = {} /\ \A t \in Thread : ~Unsettled(t))
        => [users |-> users, quotas |-> quotas, admin |-> admin] = ideal

(* "Single-use": an invitation is granted twice only if two edits clashed or  *)
(* an account was removed or renamed in between, although looking it up,      *)
(* creating the account and removing the invitation are separate steps.       *)
InviteOnce ==
    met \intersect {"edit", "removal"} = {} => \A k \in Token : used[k] <= 1

(* An invitation that was granted is no longer pending, unless the store      *)
(* could not be written (the error of invites::redeem is dropped).            *)
GrantedIsSpent == "fault" \notin met => \A k \in Token : used[k] > 0 => invite[k] = Gone

(* Setup does not come back: once there was an account, the server is not     *)
(* open for first-run setup again, unless two edits clashed, a file operation *)
(* failed, an account was renamed while another request was served, or two    *)
(* setups were under way at once: then there are two accounts that were the   *)
(* admin's, and each may remove the other.  The admin's own account cannot be *)
(* removed, and renaming keeps the number.                                    *)
SetupStaysDone ==
    (met \intersect {"rename", "setup", "edit", "fault"} = {} /\ ideal # Blank
        /\ \A t \in Thread : ~Unsettled(t)) => ~SetupPending
===============================================================================

---------------------------------- MODULE Site ----------------------------------
(* How the server is run from the browser: the checks a request passes, the   *)
(* requests that edit config.toml at the same time, what an edit makes of its *)
(* text, and the backup that moves the server to another host.  A behaviour   *)
(* is one of each alone, while the others rest.                               *)
EXTENDS ConfigText

CONSTANTS
    Thread, Name, Pwd, Sid, Token, None, Gone, MaxRequests, MaxFaults,  \* Administration
    Browser, User, Admin, TlsActive, MaxSessions, MaxRestarts,          \* WebGate
    Message, Flag, Folders, Length, Slashes, Size, Temporary, Extras,   \* Backup
    Base, NameMax, PrefixMax, MaxMail, MaxErrors

VARIABLES part,
    config, temp, users, quotas, admin, invite, session, aPc, aReq, copy, fd, begun, faults,
    ideal, met, used,
    accounts, sessions, seed, trusted, minted, jar, form, wReq, wPc, actor, hops, acts,
    bPlace, bPc, bTodo, bFiles, bPacked, bArchive, bUnread, bChanges, bStill, bShape,
    bLeft, bHost, bBefore

Accounts == INSTANCE Administration WITH pc <- aPc, req <- aReq

Gate == INSTANCE WebGate WITH req <- wReq, pc <- wPc

Move == INSTANCE Backup WITH
    place <- bPlace, pc <- bPc, todo <- bTodo, files <- bFiles, packed <- bPacked,
    archive <- bArchive, unread <- bUnread, changes <- bChanges, still <- bStill,
    shape <- bShape, left <- bLeft, host <- bHost, before <- bBefore

(* What each of the parts takes for granted about its parameters.             *)
ASSUME EditorAssumption == TextAssumption
ASSUME AccountsAssumption == Accounts!AdminAssumption
ASSUME GateAssumption == Gate!WebGateAssumption
ASSUME MoveAssumption == Move!BackupAssumption

-------------------------------------------------------------------------------
aVars == <<config, temp, users, quotas, admin, invite, session, aPc, aReq, copy, fd, begun,
           faults, ideal, met, used>>
wVars == <<accounts, sessions, seed, trusted, minted, jar, form, wReq, wPc, actor, hops, acts>>
bVars == <<bPlace, bPc, bTodo, bFiles, bPacked, bArchive, bUnread, bChanges, bStill, bShape,
           bLeft, bHost, bBefore>>

Part == {"text", "edits", "gate", "backup"}

SiteInit == part \in Part /\ Init /\ Accounts!Init /\ Gate!Init /\ Move!Init

SiteNext ==
    \/ part = "text" /\ Next /\ UNCHANGED <<part, aVars, wVars, bVars>>
    \/ part = "edits" /\ Accounts!Next /\ UNCHANGED <<part, vars, wVars, bVars>>
    \/ part = "gate" /\ Gate!Next /\ UNCHANGED <<part, vars, aVars, bVars>>
    \/ part = "backup" /\ Move!Next /\ UNCHANGED <<part, vars, aVars, wVars>>

SiteSpec == SiteInit /\ [][SiteNext]_<<part, vars, aVars, wVars, bVars>>

(* The edits of config.toml end as if made one by one (Administration).       *)
EditsSurvive == Accounts!EditsSurvive
(* The server runs with what the file says (Administration).                  *)
LiveFollowsFile == Accounts!LiveFollowsFile
(* An invitation makes one account (Administration).                          *)
InviteOnce == Accounts!InviteOnce
(* An invitation that made an account is spent (Administration).              *)
GrantedIsSpent == Accounts!GrantedIsSpent
(* The setup is not offered again (Administration).                           *)
SetupStaysDone == Accounts!SetupStaysDone
(* Redirects end, but through a proxy that is not trusted (WebGate).          *)
RedirectsEnd == Gate!RedirectsEnd
(* What is done for a user is what this user asked for (WebGate).             *)
ActsAreMeant == Gate!ActsAreMeant
(* What was left alone during a backup is there after the restore (Backup).   *)
MovedWhole == Move!MovedWhole
===============================================================================

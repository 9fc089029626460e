-------------------------------- MODULE Limits ---------------------------------
(* What a session consults before it is let go on: the connection limiter,    *)
(* the lockout, the throttle, greylisting and the quota.  None of them knows  *)
(* of another: a behaviour is one of each alone, while the others rest.       *)
EXTENDS ConnLimiter

CONSTANTS
    Session,                                          \* sessions of all kinds
    PeerOf, AuthMax, AuthWindow, AuthLockout,         \* AuthLimiter
    AuthLag, AuthClock, AuthTries,
    Spelling, NameOf, OutMax, OutWindow, OutClock,    \* OutboundThrottle
    GreySession, GreyStranger,                        \* Greylist
    GreyDelay, GreyTtl, GreyGrace, GreyClock, GreyFaults,
    SizeSession,                                      \* QuotaCache
    Message, Folder, Inbox, Quota, SizeTtl, ScanLag, SizeClock, SizeChanges

VARIABLES part,
    aClock, aFailures, aLockout, aPc, aStamp, aLog,
    oClock, oEvents, oPc, oStamp, oLog,
    gClock, gFile, gPc, gStamp, gEntry, gOpen, gAccepted, gDeferred, gSeen,
    gOverlap, gFaults,
    qClock, qPlace, qCache, qPc, qMsg, qTodo, qListed, qCounted, qBegun,
    qUnread, qSince, qHidden, qPending, qChanges

Auth == INSTANCE AuthLimiter WITH
    IpOf <- PeerOf, Max <- AuthMax, Window <- AuthWindow, Lockout <- AuthLockout,
    MaxLag <- AuthLag, MaxClock <- AuthClock, MaxTries <- AuthTries,
    clock <- aClock, failures <- aFailures, lockout <- aLockout, pc <- aPc,
    stamp <- aStamp, log <- aLog

Outbound == INSTANCE OutboundThrottle WITH
    Name <- Spelling, Max <- OutMax, Window <- OutWindow, MaxClock <- OutClock,
    clock <- oClock, events <- oEvents, pc <- oPc, stamp <- oStamp, log <- oLog

Grey == INSTANCE Greylist WITH
    Session <- GreySession, Stranger <- GreyStranger,
    Delay <- GreyDelay, Ttl <- GreyTtl, Grace <- GreyGrace,
    MaxClock <- GreyClock, MaxFaults <- GreyFaults,
    clock <- gClock, file <- gFile, pc <- gPc, stamp <- gStamp, entry <- gEntry,
    open <- gOpen, accepted <- gAccepted, deferred <- gDeferred, seen <- gSeen,
    overlap <- gOverlap, faults <- gFaults

Size == INSTANCE QuotaCache WITH
    Session <- SizeSession, Ttl <- SizeTtl, Lag <- ScanLag,
    MaxClock <- SizeClock, MaxChanges <- SizeChanges,
    clock <- qClock, place <- qPlace, cache <- qCache, pc <- qPc, msg <- qMsg,
    todo <- qTodo, listed <- qListed, counted <- qCounted, begun <- qBegun,
    unread <- qUnread, since <- qSince, hidden <- qHidden, pending <- qPending, changes <- qChanges

(* What each of the limits takes for granted about its configuration.         *)
ASSUME AuthAssumption ==
    Auth!SessionAssumption /\ Auth!LimitAssumption /\ Auth!BoundAssumption
ASSUME OutboundAssumption ==
    Outbound!SessionAssumption /\ Outbound!LimitAssumption /\ Outbound!BoundAssumption
ASSUME GreyAssumption ==
    Grey!SessionAssumption /\ Grey!LimitAssumption /\ Grey!BoundAssumption
ASSUME SizeAssumption == Size!QuotaAssumption

-------------------------------------------------------------------------------
aVars == <<aClock, aFailures, aLockout, aPc, aStamp, aLog>>
oVars == <<oClock, oEvents, oPc, oStamp, oLog>>
gVars == <<gClock, gFile, gPc, gStamp, gEntry, gOpen, gAccepted, gDeferred, gSeen,
           gOverlap, gFaults>>
qVars == <<qClock, qPlace, qCache, qPc, qMsg, qTodo, qListed, qCounted, qBegun,
           qUnread, qSince, qHidden, qPending, qChanges>>

LimitsInit ==
    /\ part \in {"connections", "lockout", "throttle", "greylist", "quota"}
    /\ Init /\ Auth!Init /\ Outbound!Init /\ Grey!Init /\ Size!Init

LimitsNext ==
    \/ part = "connections" /\ Next /\ UNCHANGED <<part, aVars, oVars, gVars, qVars>>
    \/ part = "lockout" /\ Auth!Next /\ UNCHANGED <<part, vars, oVars, gVars, qVars>>
    \/ part = "throttle" /\ Outbound!Next /\ UNCHANGED <<part, vars, aVars, gVars, qVars>>
    \/ part = "greylist" /\ Grey!Next /\ UNCHANGED <<part, vars, aVars, oVars, qVars>>
    \/ part = "quota" /\ Size!Next /\ UNCHANGED <<part, vars, aVars, oVars, gVars>>

LimitsSpec == LimitsInit /\ [][LimitsNext]_<<part, vars, aVars, oVars, gVars, qVars>>

(* Parallel guesses stay within the budget (AuthLimiter).                     *)
GuessBudget == Auth!GuessBudget
(* No refusal for old failures (AuthLimiter).                                 *)
RefusedForCause == Auth!RefusedForCause
(* The hourly cap of each spelling holds up to its slack (OutboundThrottle).  *)
CapWithSlack == Outbound!CapWithSlack
(* No recipient is forgotten too early (OutboundThrottle).                    *)
NothingForgotten == Outbound!NothingForgotten
(* Nobody gets in before the delay (Greylist).                                *)
NoEarlyAccept == Grey!NoEarlyAccept
(* A retry after the delay gets in (Greylist).                                *)
RetryAccepted == Grey!RetryAccepted
(* A size leaves out only what is just being stored, was not readable, or was *)
(* hidden for a while (QuotaCache).                                           *)
LeftOutForCause == Size!LeftOutForCause
=============================================================================

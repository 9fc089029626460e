-------------------------------- MODULE Network --------------------------------
(* Whom the server deals with on the network: the SMTP client, the name       *)
(* servers it asks about the sender, the signer of a message and the relays   *)
(* on its way, the certificate authority, and the router.  A behaviour is one *)
(* of each alone, while the others rest.                                      *)
EXTENDS SmtpSession

CONSTANTS
    Domain, Org, Zones, Bits, Client, MaxLookups, MaxDepth,    \* SenderPolicy
    Policies, Signatures, Settings,
    Word, Forged, FieldName, Signed, Messages, Keys, MaxChanges,    \* DkimTransit
    Servers, Responses, Records, Pointer, MaxLabel, MaxHops,   \* DnsClient
    Loop, Shot, Domains, Life, Ahead, MaxAge,                  \* Certificates
    CertClock, MaxOrders, MaxStops, Tolerance,
    Forwarded, Web, Lease, Sleep, Round, Grants, MaxRestarts   \* PortMap

VARIABLES part,
    pZone, pSender, pStack, pRet, pLookups, pAsked, pExhausted, pFailed, pPhase, pSpf,
    pDkim, pDmarc, pTruth, pVerdict,
    kSent, kMsg, kSig, kKey, kPlace, kChanges, kResult,
    dServer, dAgain, dCells, dCut, dPos, dHops, dJumped, dAfter, dLabels, dOf, dStart,
    dSteps, dAnswers, dKept, dOutcome,
    cClock, cUp, cStops, cDated, cAcme, cCert, cKey, cAccount, cServed, cTokens, cValidated,
    cPc, cAcct, cOrder, cLeft, cAuthz, cDropped, cOrders, cFailing, cWorst, cRaced,
    mOverride, mAuto, mPc, mMethod, mWan, mTodo, mMapped, mFailed, mSlept, mUsed, mLease,
    mGood, mShown, mFile, mRestarts

Policy == INSTANCE SenderPolicy WITH
    zone <- pZone, sender <- pSender, stack <- pStack, ret <- pRet, lookups <- pLookups,
    asked <- pAsked, exhausted <- pExhausted, failed <- pFailed, phase <- pPhase,
    spf <- pSpf, dkim <- pDkim, dmarc <- pDmarc, truth <- pTruth, verdict <- pVerdict

Transit == INSTANCE DkimTransit WITH
    sent <- kSent, msg <- kMsg, sig <- kSig, key <- kKey, place <- kPlace,
    changes <- kChanges, result <- kResult

Dns == INSTANCE DnsClient WITH
    server <- dServer, again <- dAgain, cells <- dCells, cut <- dCut, pos <- dPos,
    hops <- dHops, jumped <- dJumped, after <- dAfter, labels <- dLabels, part <- dOf,
    start <- dStart, steps <- dSteps, answers <- dAnswers, kept <- dKept, outcome <- dOutcome

Cert == INSTANCE Certificates WITH
    MaxClock <- CertClock,
    clock <- cClock, up <- cUp, stops <- cStops, dated <- cDated, acme <- cAcme,
    cert <- cCert, key <- cKey, account <- cAccount, served <- cServed, tokens <- cTokens,
    validated <- cValidated, pc <- cPc, acct <- cAcct, order <- cOrder, left <- cLeft,
    authz <- cAuthz, dropped <- cDropped, orders <- cOrders, failing <- cFailing,
    worst <- cWorst, raced <- cRaced

Router == INSTANCE PortMap WITH
    Port <- Forwarded,
    override <- mOverride, auto <- mAuto, pc <- mPc, method <- mMethod, wan <- mWan,
    todo <- mTodo, mapped <- mMapped, failed <- mFailed, slept <- mSlept, used <- mUsed,
    lease <- mLease, good <- mGood, shown <- mShown, file <- mFile, restarts <- mRestarts

(* What each of the parts takes for granted about its parameters.             *)
ASSUME PolicyAssumption == Policy!SenderPolicyAssumption
ASSUME TransitAssumption == Transit!DkimTransitAssumption
ASSUME ResolverAssumption == Dns!DnsClientAssumption
ASSUME CertAssumption == Cert!CertificateAssumption
ASSUME RouterAssumption == Router!PortMapAssumption

-------------------------------------------------------------------------------
pVars == <<pZone, pSender, pStack, pRet, pLookups, pAsked, pExhausted, pFailed, pPhase,
           pSpf, pDkim, pDmarc, pTruth, pVerdict>>
kVars == <<kSent, kMsg, kSig, kKey, kPlace, kChanges, kResult>>
dVars == <<dServer, dAgain, dCells, dCut, dPos, dHops, dJumped, dAfter, dLabels, dOf,
           dStart, dSteps, dAnswers, dKept, dOutcome>>
cVars == <<cClock, cUp, cStops, cDated, cAcme, cCert, cKey, cAccount, cServed, cTokens,
           cValidated, cPc, cAcct, cOrder, cLeft, cAuthz, cDropped, cOrders, cFailing,
           cWorst, cRaced>>
mVars == <<mOverride, mAuto, mPc, mMethod, mWan, mTodo, mMapped, mFailed, mSlept, mUsed,
           mLease, mGood, mShown, mFile, mRestarts>>

Part == {"session", "policy", "transit", "resolver", "certificate", "router"}

NetworkInit ==
    /\ part \in Part
    /\ Init /\ Policy!Init /\ Transit!Init /\ Dns!Init /\ Cert!Init /\ Router!Init

NetworkNext ==
    \/ /\ part = "session" /\ Next
       /\ UNCHANGED <<part, pVars, kVars, dVars, cVars, mVars>>
    \/ /\ part = "policy" /\ Policy!Next
       /\ UNCHANGED <<part, vars, kVars, dVars, cVars, mVars>>
    \/ /\ part = "transit" /\ Transit!Next
       /\ UNCHANGED <<part, vars, pVars, dVars, cVars, mVars>>
    \/ /\ part = "resolver" /\ Dns!Next
       /\ UNCHANGED <<part, vars, pVars, kVars, cVars, mVars>>
    \/ /\ part = "certificate" /\ Cert!Next
       /\ UNCHANGED <<part, vars, pVars, kVars, dVars, mVars>>
    \/ /\ part = "router" /\ Router!Next
       /\ UNCHANGED <<part, vars, pVars, kVars, dVars, cVars>>

NetworkSpec ==
    NetworkInit /\ [][NetworkNext]_<<part, vars, pVars, kVars, dVars, cVars, mVars>>

(* SPF comes to what the records mean, within its budget (SenderPolicy).      *)
SpfMeant == Policy!SpfMeant
(* A refusal for DMARC is one the From domain wants (SenderPolicy).           *)
RefusalJustified == Policy!RefusalJustified
(* A signature verifies exactly if the message says what was signed           *)
(* (DkimTransit).                                                             *)
VerifiedIffAuthentic == Transit!VerifiedIffAuthentic
(* A name is read in bounded time, an answer lies in the response (DnsClient). *)
NamesEnd == Dns!NamesEnd
(* A challenge is answered as long as the authority may ask (Certificates).   *)
ChallengeAnswered == Cert!ChallengeAnswered
(* A certificate is renewed before it expires (Certificates).                 *)
RenewedInTime == Cert!RenewedInTime
(* A failed query is no reason to refuse a message (SenderPolicy).            *)
NoRefusalOnDnsFailure == Policy!NoRefusalOnDnsFailure
(* A port that was mapped stays mapped (PortMap).                             *)
MappingSurvives == Router!MappingSurvives
===============================================================================

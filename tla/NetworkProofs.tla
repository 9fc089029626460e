------------------------------ MODULE NetworkProofs -----------------------------
(* Proofs about whom the server deals with on the network, for every router,  *)
(* certificate authority, name server and zone: that a mapping at the router  *)
(* survives, that a challenge is answered, that a certificate is renewed in   *)
(* time, that the reading of a name ends, that SPF keeps its budget and comes  *)
(* to what the records mean, and that a refusal is one the domain wants.      *)
EXTENDS Network, SequenceTheorems, WellFoundedInduction, TLAPS

allVars == <<part, vars, pVars, kVars, dVars, cVars, mVars>>

-------------------------------------------------------------------------------
(* The router (PortMap).                                                      *)

(* What is worked on between two pauses, after the thread has looked around.  *)
Mapping == {"upnpAddress", "upnpMap", "natpmpAddress", "natpmpMap"}
Telling == {"publish", "show"}
Settled == {"fixed", "done"}

RouterType ==
    /\ mOverride \in BOOLEAN /\ mAuto \in BOOLEAN
    /\ mPc \in {"start", "sleep"} \union Mapping \union Telling \union Settled
    /\ mTodo \subseteq Forwarded /\ mGood \subseteq Forwarded
    /\ mSlept \in 0..Sleep /\ mUsed \in 0..Round
    /\ mLease \in [Forwarded -> Nat]

(* Without rounds nothing is mapped; a round leaves no port out; and what     *)
(* UPnP has not renewed so far, it still has to do.                           *)
RouterRound ==
    /\ mOverride \/ ~mAuto => mPc \in {"start"} \union Settled
    /\ mPc \in Settled => mOverride \/ ~mAuto
    /\ mOverride \/ ~mAuto => mGood = {}
    /\ mPc \in Telling => mTodo = {}
    /\ mPc \in {"upnpAddress", "upnpMap"} => mGood \subseteq mTodo \union mMapped

(* The shortest lease that outlasts a renewal.                                *)
Enough == Sleep + 2 * Round + 1

(* How much of a lease is left: in the pause what the round that granted it   *)
(* and the pause so far took away, and in the next round at most that and the *)
(* round so far, until the port has its turn.                                 *)
RouterLease ==
    \A p \in mGood :
        /\ mPc = "sleep" => mLease[p] + mUsed + mSlept >= Enough
        /\ mPc = "start" \/ (mPc \in Mapping /\ p \in mTodo) =>
               mLease[p] + mUsed + Sleep + Round >= Enough
        /\ mPc \in Mapping \union Telling /\ p \notin mTodo => mLease[p] + mUsed >= Enough

RouterInv == RouterType /\ RouterRound /\ RouterLease

(* What the assumptions on the lease and the pauses of the port mapping come  *)
(* to.                                                                        *)
LEMMA RouterConstants ==
    /\ {Lease, Sleep, Round} \subseteq Nat /\ Grants \subseteq Nat
    /\ Sleep + 2 * Round < Lease
BY RouterAssumption DEF Router!PortMapAssumption

(* The thread starts without a mapping.                                       *)
LEMMA RouterInit == Router!Init => RouterInv
BY RouterConstants
   DEF Router!Init, RouterInv, RouterType, RouterRound, RouterLease, Mapping, Telling, Settled

(* Every step keeps the variables in their sets.                              *)
LEMMA RouterTypeStep == RouterType /\ RouterRound /\ Router!Next => RouterType'
<1> SUFFICES ASSUME RouterType, RouterRound, Router!Next PROVE RouterType'
  OBVIOUS
<1> USE RouterConstants DEF RouterType, Mapping, Telling, Settled
<1>1. CASE Router!Fixed \/ Router!FixedShown \/ Router!Discovered \/ Router!UpnpDone
           \/ Router!NatpmpDone \/ Router!Publish \/ Router!Show \/ Router!WakeUp
  BY <1>1 DEF Router!Fixed, Router!FixedShown, Router!Discovered, Router!UpnpDone,
              Router!NatpmpDone, Router!Publish, Router!Show, Router!WakeUp, Router!Step,
              Router!config, Router!result, Router!time, Router!router, Router!output
<1>2. CASE \E g \in BOOLEAN : Router!Undiscovered(g) \/ Router!UpnpUseless(g)
  BY <1>2 DEF Router!Undiscovered, Router!UpnpUseless, Router!Step,
              Router!config, Router!time, Router!router, Router!output
<1>3. CASE \E k \in Router!Kind \union {Router!None} : Router!WanAddress(k)
  BY <1>3 DEF Router!WanAddress, Router!Step,
              Router!config, Router!time, Router!router, Router!output
<1>4. CASE \E p \in Forwarded : Router!Mapped(p) \/ Router!SeemsMapped(p) \/ Router!NotMapped(p)
  BY <1>4 DEF Router!Mapped, Router!SeemsMapped, Router!NotMapped, Router!Step,
              Router!config, Router!time, Router!output
<1>5. CASE Router!Tick
  <2>1. mLease' \in [Forwarded -> Nat]
    BY <1>5 DEF Router!Tick
  <2>2. mSlept' \in 0..Sleep /\ mUsed' \in 0..Round
    BY <1>5 DEF Router!Tick, Router!Pause
  <2>3. QED
    BY <1>5, <2>1, <2>2 DEF Router!Tick, Router!config, Router!result
<1>6. CASE Router!RouterRestart
  BY <1>6 DEF Router!RouterRestart, Router!config, Router!result, Router!time
<1>7. CASE mPc = "done" /\ UNCHANGED Router!vars
  BY <1>7 DEF Router!vars
<1>8. QED
  BY <1>1, <1>2, <1>3, <1>4, <1>5, <1>6, <1>7 DEF Router!Next

(* Every step keeps the order of a round.                                     *)
LEMMA RouterRoundStep == RouterType /\ RouterRound /\ Router!Next => RouterRound'
<1> SUFFICES ASSUME RouterType, RouterRound, Router!Next PROVE RouterRound'
  OBVIOUS
<1> USE DEF RouterType, RouterRound, Mapping, Telling, Settled
<1>1. CASE Router!Fixed \/ Router!FixedShown \/ Router!Discovered \/ Router!UpnpDone
           \/ Router!NatpmpDone \/ Router!Publish \/ Router!Show \/ Router!WakeUp
  BY <1>1 DEF Router!Fixed, Router!FixedShown, Router!Discovered, Router!UpnpDone,
              Router!NatpmpDone, Router!Publish, Router!Show, Router!WakeUp, Router!Step,
              Router!config, Router!result, Router!time, Router!router, Router!output
<1>2. CASE \E g \in BOOLEAN : Router!Undiscovered(g) \/ Router!UpnpUseless(g)
  BY <1>2 DEF Router!Undiscovered, Router!UpnpUseless, Router!Step,
              Router!config, Router!time, Router!router, Router!output
<1>3. CASE \E k \in Router!Kind \union {Router!None} : Router!WanAddress(k)
  BY <1>3 DEF Router!WanAddress, Router!Step,
              Router!config, Router!time, Router!router, Router!output
<1>4. CASE \E p \in Forwarded : Router!Mapped(p) \/ Router!SeemsMapped(p) \/ Router!NotMapped(p)
  BY <1>4 DEF Router!Mapped, Router!SeemsMapped, Router!NotMapped, Router!Step,
              Router!config, Router!time, Router!output
<1>5. CASE Router!Tick
  BY <1>5 DEF Router!Tick, Router!config, Router!result
<1>6. CASE Router!RouterRestart
  BY <1>6 DEF Router!RouterRestart, Router!config, Router!result, Router!time
<1>7. CASE mPc = "done" /\ UNCHANGED Router!vars
  BY <1>7 DEF Router!vars
<1>8. QED
  BY <1>1, <1>2, <1>3, <1>4, <1>5, <1>6, <1>7 DEF Router!Next

(* Every step keeps the account of the leases.                                *)
LEMMA RouterLeaseStep == RouterInv /\ RouterType' /\ Router!Next => RouterLease'
<1> SUFFICES ASSUME RouterInv, RouterType', Router!Next, NEW p \in mGood'
             PROVE  /\ mPc' = "sleep" => mLease'[p] + mUsed' + mSlept' >= Enough
                    /\ mPc' = "start" \/ (mPc' \in Mapping /\ p \in mTodo') =>
                           mLease'[p] + mUsed' + Sleep + Round >= Enough
                    /\ mPc' \in Mapping \union Telling /\ p \notin mTodo' =>
                           mLease'[p] + mUsed' >= Enough
  BY DEF RouterLease
<1> USE RouterConstants DEF RouterInv, RouterType, Mapping, Telling, Enough
<1>1. CASE Router!Fixed \/ Router!FixedShown
  BY <1>1 DEF Router!Fixed, Router!FixedShown, Router!Step, RouterRound, Router!router, Settled
<1>2. CASE Router!Discovered \/ Router!UpnpDone \/ Router!NatpmpDone
  BY <1>2 DEF Router!Discovered, Router!UpnpDone, Router!NatpmpDone, Router!Step, RouterLease,
              Router!result, Router!time, Router!router
<1>3. CASE Router!Publish \/ Router!Show
  BY <1>3 DEF Router!Publish, Router!Show, Router!Step, RouterLease, RouterRound,
              Router!result, Router!time, Router!router
<1>4. CASE Router!WakeUp
  BY <1>4 DEF Router!WakeUp, Router!Pause, Router!Step, RouterLease, Router!result, Router!router
<1>5. CASE \E g \in BOOLEAN : Router!Undiscovered(g)
  BY <1>5 DEF Router!Undiscovered, Router!Step, RouterLease, Router!time
<1>6. CASE \E g \in BOOLEAN : Router!UpnpUseless(g)
  BY <1>6 DEF Router!UpnpUseless, Router!Step, RouterRound, Router!router
<1>7. CASE \E k \in Router!Kind \union {Router!None} : Router!WanAddress(k)
  BY <1>7 DEF Router!WanAddress, Router!Step, RouterLease, Router!time, Router!router
<1>8. CASE \E q \in Forwarded : Router!Mapped(q)
  BY <1>8 DEF Router!Mapped, Router!Renewal, Router!time, RouterLease
<1>9. CASE \E q \in Forwarded : Router!SeemsMapped(q) \/ Router!NotMapped(q)
  BY <1>9 DEF Router!SeemsMapped, Router!NotMapped, Router!time, RouterLease
<1>10. CASE Router!Tick
  <2>1. mGood' = mGood /\ mPc' = mPc /\ mTodo' = mTodo /\ p \in Forwarded
    BY <1>10 DEF Router!Tick, Router!result
  <2>2. mLease'[p] \in Nat /\ mLease[p] \in Nat /\ mLease'[p] + 1 >= mLease[p]
    BY <1>10, <2>1 DEF Router!Tick
  <2>3. IF mPc = "sleep" THEN mSlept' = mSlept + 1 /\ mUsed' = mUsed
                         ELSE mUsed' = mUsed + 1 /\ mSlept' = mSlept
    BY <1>10 DEF Router!Tick
  <2>4. QED
    BY <2>1, <2>2, <2>3 DEF RouterLease
<1>11. CASE Router!RouterRestart
  BY <1>11 DEF Router!RouterRestart
<1>12. CASE mPc = "done" /\ UNCHANGED Router!vars
  BY <1>12 DEF Router!vars, RouterLease
<1>13. QED
  BY <1>1, <1>2, <1>3, <1>4, <1>5, <1>6, <1>7, <1>8, <1>9, <1>10, <1>11, <1>12 DEF Router!Next

(* The invariant holds in every state of the router.                          *)
LEMMA RouterInvariant == NetworkSpec => []RouterInv
<1>1. NetworkInit => RouterInv
  BY RouterInit DEF NetworkInit
<1>2. RouterInv /\ [NetworkNext]_allVars => RouterInv'
  <2>1. ASSUME RouterInv, NetworkNext PROVE RouterInv'
    <3>1. CASE Router!Next
      BY <2>1, <3>1, RouterTypeStep, RouterRoundStep, RouterLeaseStep DEF RouterInv
    <3>2. CASE UNCHANGED mVars
      BY <2>1, <3>2 DEF mVars, RouterInv, RouterType, RouterRound, RouterLease
    <3>3. QED
      BY <2>1, <3>1, <3>2 DEF NetworkNext
  <2>2. ASSUME RouterInv, UNCHANGED allVars PROVE RouterInv'
    BY <2>2 DEF allVars, mVars, RouterInv, RouterType, RouterRound, RouterLease
  <2>3. QED
    BY <2>1, <2>2
<1>3. QED
  BY <1>1, <1>2, PTL DEF NetworkSpec, allVars

(* A mapping that the router granted for long enough, and has not refused to  *)
(* renew nor lost, never lapses, for all ports and all times that fit into    *)
(* the lease.                                                                 *)
THEOREM MappingsSurvive == NetworkSpec => []MappingSurvives
<1>1. RouterInv => MappingSurvives
  <2> SUFFICES ASSUME RouterInv, NEW p \in mGood PROVE mLease[p] > 0
    BY DEF MappingSurvives, Router!MappingSurvives
  <2>1. mPc \notin Settled
    BY DEF RouterInv, RouterRound
  <2>2. mLease[p] \in Nat /\ mUsed \in 0..Round /\ mSlept \in 0..Sleep
    BY DEF RouterInv, RouterType
  <2>3. \/ mLease[p] + mUsed + mSlept >= Enough
        \/ mLease[p] + mUsed + Sleep + Round >= Enough
        \/ mLease[p] + mUsed >= Enough
    BY <2>1 DEF RouterInv, RouterType, RouterRound, RouterLease
  <2>4. QED
    BY <2>2, <2>3, RouterConstants DEF Enough
<1>2. QED
  BY <1>1, RouterInvariant, PTL

-------------------------------------------------------------------------------
(* The certificate authority (Certificates).                                  *)

Asking   == {"authz", "notify", "poll"}
KeyStage == {"keyCreate", "keyWrite"}
Stages   == {"idle", "sleep", "check", "accountCreate", "accountWrite", "order", "certWrite"}
                \union Asking \union KeyStage

CertType ==
    /\ cPc \in [Cert!Thread -> Stages]
    /\ cOrder \in [Cert!Thread -> Nat] /\ cOrders \in Nat
    /\ cLeft \in [Cert!Thread -> Int]
    /\ cAuthz \in [Cert!Thread -> [1 .. Domains -> Nat]]
    /\ DOMAIN cAcct = Cert!Thread

(* An order lasts as long as the issuance that made it, which has a name      *)
(* before it while it waits for the authority.                                *)
Early  == {"idle", "sleep", "check", "accountCreate", "accountWrite", "order"}
Within(n) == n \in Int /\ n >= 0 /\ n <= Domains
CertStage ==
    /\ ~cUp => \A t \in Cert!Thread : cPc[t] = "idle"
    /\ \A t \in Cert!Thread : cPc[t] \in Early => cOrder[t] = 0
    /\ \A t \in Cert!Thread : cPc[t] \in Asking => cOrder[t] > 0 /\ Within(cLeft[t])
    /\ \A t \in Cert!Thread : cPc[t] \in {"notify", "poll"} => cLeft[t] > 0

(* Two threads share an authorization only if they have the same account.     *)
CertShared ==
    \A t, u \in Cert!Thread : \A d \in 1 .. Domains :
        /\ cAuthz[t][d] <= cOrders
        /\ cOrder[t] > 0 /\ cOrder[u] > 0 /\ cAuthz[t][d] = cAuthz[u][d] => cAcct[t] = cAcct[u]

(* What a thread waits for, the authority knows of.                           *)
CertPolled ==
    /\ \A c \in DOMAIN cValidated : cValidated[c] \in {"pending", "valid", "invalid"}
    /\ \A t \in Cert!Thread : cPc[t] = "poll" => Cert!Challenge(t) \in DOMAIN cValidated

(* From the time it is set until the authority has decided, a challenge is    *)
(* there and of its account, unless another thread gave up waiting.           *)
Open(c) == c \in DOMAIN cValidated => cValidated[c] = "pending"
CertAnswer ==
    \A t \in Cert!Thread \ cDropped :
        cPc[t] \in {"notify", "poll"} /\ Open(Cert!Challenge(t)) =>
            Cert!Challenge(t) \in DOMAIN cTokens /\ cTokens[Cert!Challenge(t)] = cAcct[t]

ChallengeInv == CertType /\ CertStage /\ CertShared /\ CertPolled /\ CertAnswer

(* What the assumptions on the days of a certificate come to.                 *)
LEMMA CertConstants ==
    /\ Loop \notin Shot /\ Loop \in Cert!Thread
    /\ {Domains, Life, Ahead, MaxAge, Tolerance} \subseteq Nat
    /\ Tolerance < Ahead /\ Ahead < Life /\ MaxAge + Tolerance < Life
BY CertAssumption DEF Cert!CertificateAssumption, Cert!Thread

(* The server starts without an order.                                        *)
LEMMA ChallengeInit == Cert!Init => ChallengeInv
<1> SUFFICES ASSUME Cert!Init PROVE ChallengeInv
  OBVIOUS
<1>1. Cert!NoAuthz \in [1 .. Domains -> Nat] /\ \A d \in 1 .. Domains : Cert!NoAuthz[d] = 0
  BY DEF Cert!NoAuthz
<1>2. QED
  BY <1>1 DEF Cert!Init, ChallengeInv, CertType, CertStage, CertShared, CertPolled, CertAnswer,
              Stages, Asking, KeyStage, Early

(* What an issuance that ends leaves to the others.                           *)
LEMMA EndedLeaves ==
    ASSUME ChallengeInv, NEW t \in Cert!Thread, Cert!Ended(t),
           NEW u \in Cert!Thread, u # t, cPc[u] \in {"notify", "poll"}
    PROVE  /\ Cert!Challenge(u)' = Cert!Challenge(u)
           /\ cAcct'[u] = cAcct[u]
           /\ Cert!Challenge(u) \in DOMAIN cValidated' <=> Cert!Challenge(u) \in DOMAIN cValidated
           /\ Cert!Challenge(u) \in DOMAIN cValidated =>
                  cValidated'[Cert!Challenge(u)] = cValidated[Cert!Challenge(u)]
<1>1. Cert!Challenge(u)' = Cert!Challenge(u) /\ cAcct'[u] = cAcct[u]
  BY DEF Cert!Ended, Cert!Challenge, ChallengeInv, CertType
<1>2. cOrder[u] # 0 /\ cLeft[u] \in 1 .. Domains
  BY CertConstants DEF ChallengeInv, CertType, CertStage, Asking, Within
<1>3. Cert!Challenge(u) \in Cert!Held(u)
  BY <1>2 DEF Cert!Held, Cert!Challenge
<1>4. QED
  BY <1>1, <1>3 DEF Cert!Ended

(* Every step keeps the variables in their sets.                              *)
LEMMA CertTypeStep == CertType /\ Cert!Next => CertType'
<1> SUFFICES ASSUME CertType, Cert!Next PROVE CertType'
  OBVIOUS
<1> USE DEF CertType, Stages, Asking, KeyStage
<1>a. Cert!NoAuthz \in [1 .. Domains -> Nat] /\ Domains \in Nat
  BY CertConstants DEF Cert!NoAuthz
<1>1. CASE Cert!ServerStart \/ Cert!Stop \/ Cert!Tick
  BY <1>1, <1>a DEF Cert!ServerStart, Cert!Stop, Cert!Tick, Cert!working
<1>2. CASE \E s \in Shot : Cert!Enable(s)
  BY <1>2 DEF Cert!Enable, Cert!working, Cert!Thread
<1>3. ASSUME NEW t \in Cert!Thread, Cert!Issue(t) PROVE CertType'
  <2>1. CASE Cert!CheckValid(t) \/ Cert!CheckDue(t) \/ Cert!AccountCreate(t)
             \/ Cert!AccountWrite(t) \/ Cert!SetToken(t) \/ Cert!Notify(t)
    BY <2>1 DEF Cert!CheckValid, Cert!CheckDue, Cert!AccountCreate, Cert!AccountWrite,
                Cert!SetToken, Cert!Notify, Cert!Step, Cert!Rest, Cert!working
  <2>2. CASE Cert!CertCreate(t) \/ Cert!CertWrite(t) \/ Cert!KeyCreate(t)
    BY <2>2 DEF Cert!CertCreate, Cert!CertWrite, Cert!KeyCreate, Cert!Step, Cert!working
  <2>3. CASE Cert!PollInvalid(t) \/ Cert!RequestFails(t) \/ Cert!KeyWrite(t) \/ Cert!WriteFails(t)
    <3>1. /\ cPc' = [cPc EXCEPT ![t] = "sleep"] \/ cPc' = [cPc EXCEPT ![t] = "idle"]
          /\ cAcct' = [cAcct EXCEPT ![t] = Cert!NoKey] /\ cLeft' = [cLeft EXCEPT ![t] = 0]
          /\ cOrder' = [cOrder EXCEPT ![t] = 0] /\ cOrders' = cOrders
          /\ cAuthz' = [cAuthz EXCEPT ![t] = Cert!NoAuthz]
      BY <2>3, Zenon DEF Cert!PollInvalid, Cert!RequestFails, Cert!KeyWrite, Cert!WriteFails,
                         Cert!Step, Cert!Rest, Cert!Ended
    <3>2. cAuthz' \in [Cert!Thread -> [1 .. Domains -> Nat]]
      BY <3>1, <1>a
    <3>3. QED
      BY <3>1, <3>2
  <2>4. CASE Cert!Order(t)
    <3>1. PICK from \in [1 .. Domains -> 1 .. cOrders + 1] : cAuthz' = [cAuthz EXCEPT ![t] = from]
      BY <2>4 DEF Cert!Order
    <3>2. from \in [1 .. Domains -> Nat]
      OBVIOUS
    <3>3. cAuthz' \in [Cert!Thread -> [1 .. Domains -> Nat]]
      BY <3>1, <3>2
    <3>4. QED
      BY <2>4, <3>3, <1>a DEF Cert!Order, Cert!Step
  <2>5. CASE Cert!PollDone(t)
    BY <2>5 DEF Cert!PollDone, Cert!Step
  <2>6. QED
    BY <1>3, <2>1, <2>2, <2>3, <2>4, <2>5 DEF Cert!Issue
<1>4. CASE \E c \in DOMAIN cValidated : Cert!Fetch(c)
  BY <1>4 DEF Cert!Fetch, Cert!working
<1>5. CASE (cClock = CertClock \/ cOrders = MaxOrders) /\ UNCHANGED Cert!vars
  BY <1>5 DEF Cert!vars
<1>6. QED
  BY <1>1, <1>2, <1>3, <1>4, <1>5 DEF Cert!Next

(* A thread has an order from the time it made it to its end.                 *)
LEMMA CertStageStep == CertType /\ CertStage /\ Cert!Next => CertStage'
<1> SUFFICES ASSUME CertType, CertStage, Cert!Next PROVE CertStage'
  OBVIOUS
<1> USE CertConstants DEF CertType, CertStage, Asking, Early, Within
<1>1. CASE Cert!ServerStart \/ Cert!Stop \/ Cert!Tick
  BY <1>1 DEF Cert!ServerStart, Cert!Stop, Cert!Tick, Cert!working
<1>2. CASE \E s \in Shot : Cert!Enable(s)
  BY <1>2 DEF Cert!Enable, Cert!working, Cert!Thread
<1>3. ASSUME NEW t \in Cert!Thread, Cert!Issue(t) PROVE CertStage'
  <2>1. CASE Cert!CheckValid(t) \/ Cert!CheckDue(t) \/ Cert!AccountCreate(t)
             \/ Cert!AccountWrite(t)
    BY <2>1 DEF Cert!CheckValid, Cert!CheckDue, Cert!AccountCreate, Cert!AccountWrite,
                Cert!Step, Cert!Rest, Cert!working, Cert!host
  <2>2. CASE Cert!SetToken(t) \/ Cert!Notify(t)
    BY <2>2 DEF Cert!SetToken, Cert!Notify, Cert!Step, Cert!working, Cert!host
  <2>3. CASE Cert!CertCreate(t) \/ Cert!CertWrite(t) \/ Cert!KeyCreate(t)
    BY <2>3 DEF Cert!CertCreate, Cert!CertWrite, Cert!KeyCreate, Cert!Step, Cert!working, Cert!host
  <2>4. CASE Cert!PollInvalid(t) \/ Cert!RequestFails(t) \/ Cert!KeyWrite(t) \/ Cert!WriteFails(t)
    <3>1. /\ cPc' = [cPc EXCEPT ![t] = "sleep"] \/ cPc' = [cPc EXCEPT ![t] = "idle"]
          /\ cLeft' = [cLeft EXCEPT ![t] = 0] /\ cUp /\ cUp' = cUp
          /\ cOrder' = [cOrder EXCEPT ![t] = 0]
      BY <2>4, Zenon DEF Cert!PollInvalid, Cert!RequestFails, Cert!KeyWrite, Cert!WriteFails,
                         Cert!Step, Cert!Rest, Cert!Ended, Cert!host
    <3>2. QED
      BY <3>1
  <2>5. CASE Cert!Order(t)
    BY <2>5 DEF Cert!Order, Cert!Step, Cert!host
  <2>6. CASE Cert!PollDone(t)
    <3>1. /\ cPc[t] = "poll" /\ cPc' = [cPc EXCEPT ![t] = "authz"] /\ cUp /\ cUp' = cUp
          /\ cLeft' = [cLeft EXCEPT ![t] = @ - 1] /\ cOrder' = cOrder
      BY <2>6 DEF Cert!PollDone, Cert!Step, Cert!host
    <3>2. cLeft[t] > 0 /\ cLeft[t] <= Domains /\ cOrder[t] > 0 /\ cLeft[t] \in Int
      BY <3>1
    <3>3. QED
      BY <3>1, <3>2
  <2>7. QED
    BY <1>3, <2>1, <2>2, <2>3, <2>4, <2>5, <2>6 DEF Cert!Issue
<1>4. CASE \E c \in DOMAIN cValidated : Cert!Fetch(c)
  BY <1>4 DEF Cert!Fetch, Cert!working, Cert!host
<1>5. CASE (cClock = CertClock \/ cOrders = MaxOrders) /\ UNCHANGED Cert!vars
  BY <1>5 DEF Cert!vars
<1>6. QED
  BY <1>1, <1>2, <1>3, <1>4, <1>5 DEF Cert!Next

(* An authorization is new with its order, or that of another order of the    *)
(* same account.                                                              *)
LEMMA CertSharedStep == CertType /\ CertStage /\ CertShared /\ Cert!Next => CertShared'
<1> SUFFICES ASSUME CertType, CertStage, CertShared, Cert!Next PROVE CertShared'
  OBVIOUS
<1> USE DEF CertType, CertShared
<1>a. \A d \in 1 .. Domains : Cert!NoAuthz[d] = 0
  BY DEF Cert!NoAuthz
<1>1. CASE Cert!ServerStart \/ Cert!Stop \/ Cert!Tick
  BY <1>1, <1>a DEF Cert!ServerStart, Cert!Stop, Cert!Tick, Cert!working
<1>2. CASE \E s \in Shot : Cert!Enable(s)
  BY <1>2 DEF Cert!Enable, Cert!working
<1>3. ASSUME NEW t \in Cert!Thread, Cert!Issue(t) PROVE CertShared'
  <2>1. CASE Cert!CheckValid(t) \/ Cert!AccountCreate(t) \/ Cert!SetToken(t) \/ Cert!Notify(t)
    <3>1. UNCHANGED <<cAuthz, cOrder, cOrders, cAcct>>
      BY <2>1 DEF Cert!CheckValid, Cert!AccountCreate, Cert!SetToken, Cert!Notify, Cert!working
    <3>2. QED
      BY <3>1
  <2>2. CASE Cert!CheckDue(t) \/ Cert!AccountWrite(t)
    <3>1. cOrder[t] = 0
      BY <2>2 DEF Cert!CheckDue, Cert!AccountWrite, Cert!Step, CertStage, Early
    <3>2. QED
      BY <2>2, <3>1 DEF Cert!CheckDue, Cert!AccountWrite
  <2>3. CASE Cert!PollDone(t) \/ Cert!CertCreate(t) \/ Cert!CertWrite(t) \/ Cert!KeyCreate(t)
    BY <2>3 DEF Cert!PollDone, Cert!CertCreate, Cert!CertWrite, Cert!KeyCreate, Cert!working
  <2>4. CASE Cert!PollInvalid(t) \/ Cert!RequestFails(t) \/ Cert!KeyWrite(t) \/ Cert!WriteFails(t)
    <3>1. /\ cAcct' = [cAcct EXCEPT ![t] = Cert!NoKey] /\ cOrder' = [cOrder EXCEPT ![t] = 0]
          /\ cOrders' = cOrders /\ cAuthz' = [cAuthz EXCEPT ![t] = Cert!NoAuthz]
      BY <2>4, Zenon DEF Cert!PollInvalid, Cert!RequestFails, Cert!KeyWrite, Cert!WriteFails,
                         Cert!Ended
    <3>2. QED
      BY <3>1, <1>a
  <2>5. CASE Cert!Order(t)
    <3>1. PICK from \in [1 .. Domains -> 1 .. cOrders + 1] :
              /\ \A d \in 1 .. Domains : from[d] \in {cOrders + 1} \union Cert!Made(t, d)
              /\ cAuthz' = [cAuthz EXCEPT ![t] = from]
      BY <2>5 DEF Cert!Order
    <3>2. cOrders' = cOrders + 1 /\ cAcct' = cAcct /\ cOrder' = [cOrder EXCEPT ![t] = cOrders + 1]
      BY <2>5 DEF Cert!Order
    <3>3. ASSUME NEW u \in Cert!Thread, u # t, NEW d \in 1 .. Domains, cOrder[u] > 0,
                 from[d] = cAuthz[u][d]
          PROVE  cAcct[u] = cAcct[t]
      <4>1. from[d] \in Cert!Made(t, d)
        BY <3>1, <3>3
      <4>2. PICK w \in Cert!Thread : cOrder[w] # 0 /\ cAcct[w] = cAcct[t] /\ cAuthz[w][d] = from[d]
        BY <4>1 DEF Cert!Made
      <4>3. QED
        BY <3>3, <4>2
    <3>4. ASSUME NEW x \in Cert!Thread, NEW u \in Cert!Thread, NEW d \in 1 .. Domains
          PROVE  /\ cAuthz'[x][d] <= cOrders'
                 /\ cOrder'[x] > 0 /\ cOrder'[u] > 0 /\ cAuthz'[x][d] = cAuthz'[u][d]
                       => cAcct'[x] = cAcct'[u]
      <4>1. from[d] \in Nat /\ from[d] <= cOrders + 1 /\ cAuthz[x][d] <= cOrders
        OBVIOUS
      <4>2. CASE x = t
        BY <3>1, <3>2, <3>3, <4>1, <4>2
      <4>3. CASE x # t
        <5>1. cAuthz'[x] = cAuthz[x] /\ cOrder'[x] = cOrder[x] /\ cAuthz[x][d] \in Nat
          BY <3>1, <3>2, <4>3
        <5>2. CASE u = t
          <6>1. cAuthz'[u] = from
            BY <3>1, <5>2
          <6>2. cOrder[x] > 0 /\ from[d] = cAuthz[x][d] => cAcct[x] = cAcct[t]
            BY <3>3, <4>3
          <6>3. cAuthz[x][d] <= cOrders + 1
            BY <4>1, <5>1
          <6>4. /\ cAuthz'[x][d] = cAuthz[x][d] /\ cAuthz'[u][d] = from[d] /\ cOrder'[x] = cOrder[x]
                /\ cOrders' = cOrders + 1 /\ cAcct'[x] = cAcct[x] /\ cAcct'[u] = cAcct[t]
            BY <3>2, <5>1, <5>2, <6>1
          <6> HIDE DEF CertType, CertShared
          <6>5. QED
            BY <6>2, <6>3, <6>4
        <5>3. CASE u # t
          <6>1. cOrder[x] > 0 /\ cOrder[u] > 0 /\ cAuthz[x][d] = cAuthz[u][d] => cAcct[x] = cAcct[u]
            OBVIOUS
          <6>2. cAuthz[x][d] <= cOrders + 1
            BY <4>1, <5>1
          <6>3. /\ cAuthz'[x][d] = cAuthz[x][d] /\ cAuthz'[u][d] = cAuthz[u][d]
                /\ cOrder'[x] = cOrder[x] /\ cOrder'[u] = cOrder[u]
                /\ cOrders' = cOrders + 1 /\ cAcct' = cAcct
            BY <3>1, <3>2, <5>1, <5>3
          <6> HIDE DEF CertType, CertShared
          <6>4. QED
            BY <6>1, <6>2, <6>3
        <5>4. QED
          BY <5>2, <5>3
      <4>4. QED
        BY <4>2, <4>3
    <3>5. QED
      BY <3>4
  <2>6. QED
    BY <1>3, <2>1, <2>2, <2>3, <2>4, <2>5 DEF Cert!Issue
<1>4. CASE \E c \in DOMAIN cValidated : Cert!Fetch(c)
  BY <1>4 DEF Cert!Fetch, Cert!working
<1>5. CASE (cClock = CertClock \/ cOrders = MaxOrders) /\ UNCHANGED Cert!vars
  BY <1>5 DEF Cert!vars
<1>6. QED
  BY <1>1, <1>2, <1>3, <1>4, <1>5 DEF Cert!Next

(* The authority keeps what a thread waits for.                               *)
LEMMA CertPolledStep == ChallengeInv /\ Cert!Next => CertPolled'
<1> SUFFICES ASSUME ChallengeInv, Cert!Next PROVE CertPolled'
  OBVIOUS
<1> USE DEF CertType, CertPolled
<1>0. CertType /\ CertStage /\ CertPolled
  BY DEF ChallengeInv
<1>1. CASE Cert!ServerStart \/ Cert!Stop \/ Cert!Tick
  BY <1>0, <1>1 DEF Cert!ServerStart, Cert!Stop, Cert!Tick, Cert!working, Cert!Challenge
<1>2. CASE \E s \in Shot : Cert!Enable(s)
  BY <1>0, <1>2 DEF Cert!Enable, Cert!working, Cert!Thread, Cert!Challenge
<1>3. ASSUME NEW t \in Cert!Thread, Cert!Issue(t) PROVE CertPolled'
  <2>1. CASE Cert!CheckValid(t) \/ Cert!CheckDue(t) \/ Cert!AccountCreate(t)
             \/ Cert!AccountWrite(t) \/ Cert!SetToken(t)
    BY <1>0, <2>1 DEF Cert!CheckValid, Cert!CheckDue, Cert!AccountCreate, Cert!AccountWrite,
                Cert!SetToken, Cert!Step, Cert!Rest, Cert!working, Cert!Challenge
  <2>2. CASE Cert!Notify(t)
    BY <1>0, <2>2 DEF Cert!Notify, Cert!Step, Cert!With, Cert!working, Cert!Challenge
  <2>3. CASE Cert!PollDone(t) \/ Cert!CertCreate(t) \/ Cert!CertWrite(t) \/ Cert!KeyCreate(t)
    BY <1>0, <2>3 DEF Cert!PollDone, Cert!CertCreate, Cert!CertWrite, Cert!KeyCreate,
                Cert!Step, Cert!working, Cert!Challenge
  <2>4. CASE Cert!PollInvalid(t) \/ Cert!RequestFails(t) \/ Cert!KeyWrite(t) \/ Cert!WriteFails(t)
    <3>1. /\ cPc' = [cPc EXCEPT ![t] = "sleep"] \/ cPc' = [cPc EXCEPT ![t] = "idle"]
          /\ Cert!Ended(t)
      BY <2>4, Zenon DEF Cert!PollInvalid, Cert!RequestFails, Cert!KeyWrite, Cert!WriteFails,
                         Cert!Step, Cert!Rest
    <3>2. ASSUME NEW u \in Cert!Thread, cPc'[u] = "poll"
          PROVE  Cert!Challenge(u)' \in DOMAIN cValidated'
      <4>1. u # t /\ cPc[u] = "poll"
        BY <1>0, <3>1, <3>2
      <4>2. QED
        BY <1>0, <3>1, <4>1, EndedLeaves
    <3>3. \A c \in DOMAIN cValidated' : cValidated'[c] \in {"pending", "valid", "invalid"}
      BY <1>0, <3>1 DEF Cert!Ended
    <3>4. QED
      BY <3>2, <3>3
  <2>5. CASE Cert!Order(t)
    BY <1>0, <2>5 DEF Cert!Order, Cert!Step, Cert!Challenge
  <2>6. QED
    BY <1>3, <2>1, <2>2, <2>3, <2>4, <2>5 DEF Cert!Issue
<1>4. CASE \E c \in DOMAIN cValidated : Cert!Fetch(c)
  BY <1>0, <1>4 DEF Cert!Fetch, Cert!working, Cert!Challenge
<1>5. CASE (cClock = CertClock \/ cOrders = MaxOrders) /\ UNCHANGED Cert!vars
  BY <1>0, <1>5 DEF Cert!vars, Cert!Challenge
<1>6. QED
  BY <1>1, <1>2, <1>3, <1>4, <1>5 DEF Cert!Next

(* A thread takes away the challenge of another only when the authority has   *)
(* decided, or when it gives up.                                              *)
LEMMA CertAnswerStep == ChallengeInv /\ Cert!Next => CertAnswer'
<1> SUFFICES ASSUME ChallengeInv, Cert!Next, NEW u \in Cert!Thread, u \notin cDropped',
                    cPc'[u] \in {"notify", "poll"}, Open(Cert!Challenge(u))'
             PROVE  /\ Cert!Challenge(u)' \in DOMAIN cTokens'
                    /\ cTokens'[Cert!Challenge(u)'] = cAcct'[u]
  BY DEF CertAnswer
<1> DEFINE Answered == /\ Cert!Challenge(u)' \in DOMAIN cTokens'
                       /\ cTokens'[Cert!Challenge(u)'] = cAcct'[u]
<1> USE DEF CertType, CertAnswer, Open
<1>0. CertType /\ CertStage /\ CertShared /\ CertPolled /\ CertAnswer
  BY DEF ChallengeInv
<1>1. CASE Cert!ServerStart \/ Cert!Stop \/ Cert!Tick
  BY <1>0, <1>1 DEF Cert!ServerStart, Cert!Stop, Cert!Tick, Cert!working, Cert!Challenge
<1>2. CASE \E s \in Shot : Cert!Enable(s)
  BY <1>0, <1>2 DEF Cert!Enable, Cert!working, Cert!Thread, Cert!Challenge
<1>3. ASSUME NEW t \in Cert!Thread, Cert!Issue(t) PROVE Answered
  <2>1. CASE Cert!CheckValid(t) \/ Cert!CheckDue(t) \/ Cert!AccountCreate(t)
             \/ Cert!AccountWrite(t)
    BY <1>0, <2>1 DEF Cert!CheckValid, Cert!CheckDue, Cert!AccountCreate, Cert!AccountWrite,
                Cert!Step, Cert!Rest, Cert!working, Cert!Challenge
  <2>2. CASE Cert!Notify(t)
    BY <1>0, <2>2 DEF Cert!Notify, Cert!Step, Cert!With, Cert!working, Cert!Challenge
  <2>3. CASE Cert!CertCreate(t) \/ Cert!CertWrite(t) \/ Cert!KeyCreate(t)
    BY <1>0, <2>3 DEF Cert!CertCreate, Cert!CertWrite, Cert!KeyCreate, Cert!Step, Cert!working,
                      Cert!Challenge
  <2>4. CASE Cert!Order(t)
    BY <1>0, <2>4 DEF Cert!Order, Cert!Step, Cert!Challenge
  <2>5. CASE Cert!SetToken(t)
    <3>1. CASE u = t
      BY <1>0, <2>5, <3>1 DEF Cert!SetToken, Cert!Step, Cert!With, Cert!working, Cert!Challenge
    <3>2. CASE u # t
      <4>1. /\ cPc[u] \in {"notify", "poll"} /\ cPc[t] = "authz" /\ cLeft[t] > 0
            /\ Cert!Challenge(u)' = Cert!Challenge(u) /\ cAcct' = cAcct
            /\ cDropped' = cDropped /\ cValidated' = cValidated
            /\ cTokens' = Cert!With(cTokens, Cert!Challenge(t), cAcct[t])
        BY <1>0, <2>5, <3>2 DEF Cert!SetToken, Cert!Step, Cert!working, Cert!Challenge
      <4>2. /\ Cert!Challenge(u) \in DOMAIN cTokens
            /\ cTokens[Cert!Challenge(u)] = cAcct[u]
        BY <1>0, <4>1
      <4>3. ASSUME Cert!Challenge(u) = Cert!Challenge(t) PROVE cAcct[u] = cAcct[t]
        <5>1. cLeft[u] = cLeft[t] /\ cAuthz[u][cLeft[u]] = cAuthz[t][cLeft[t]]
          BY <4>3 DEF Cert!Challenge
        <5>2. cOrder[u] > 0 /\ cOrder[t] > 0 /\ cLeft[t] \in 1 .. Domains
          BY <1>0, <4>1, CertConstants DEF CertStage, Asking, Within
        <5>3. QED
          BY <1>0, <5>1, <5>2 DEF CertShared
      <4>4. QED
        BY <4>1, <4>2, <4>3 DEF Cert!With
    <3>3. QED
      BY <3>1, <3>2
  <2>6. CASE Cert!PollDone(t)
    <3>1. /\ u # t /\ cPc[u] \in {"notify", "poll"} /\ cPc[t] = "poll"
          /\ Cert!Challenge(u)' = Cert!Challenge(u) /\ cAcct'[u] = cAcct[u]
          /\ cValidated' = cValidated /\ u \notin cDropped
          /\ cTokens' = Cert!Without(cTokens, Cert!Challenge(t))
      BY <1>0, <2>6 DEF Cert!PollDone, Cert!Step, Cert!ClearToken, Cert!Challenge
    <3>2. Cert!Challenge(u) # Cert!Challenge(t)
      <4> SUFFICES ASSUME Cert!Challenge(u) = Cert!Challenge(t) PROVE FALSE
        OBVIOUS
      <4>1. cValidated[Cert!Challenge(t)] = "pending"
        BY <1>0, <3>1 DEF CertPolled
      <4>2. u \in Cert!Sharing(t)
        BY <3>1 DEF Cert!Sharing
      <4>3. QED
        BY <2>6, <4>1, <4>2 DEF Cert!PollDone
    <3>3. QED
      BY <1>0, <3>1, <3>2 DEF Cert!Without
  <2>7. CASE Cert!PollInvalid(t) \/ Cert!RequestFails(t) \/ Cert!KeyWrite(t) \/ Cert!WriteFails(t)
    <3>1. /\ cPc' = [cPc EXCEPT ![t] = "sleep"] \/ cPc' = [cPc EXCEPT ![t] = "idle"]
          /\ Cert!Ended(t)
      BY <2>7, Zenon DEF Cert!PollInvalid, Cert!RequestFails, Cert!KeyWrite, Cert!WriteFails,
                         Cert!Step, Cert!Rest
    <3>2. u # t /\ cPc[u] \in {"notify", "poll"} /\ u \notin cDropped
      BY <1>0, <3>1 DEF Cert!Ended
    <3>3. /\ Cert!Challenge(u)' = Cert!Challenge(u) /\ cAcct'[u] = cAcct[u]
          /\ Open(Cert!Challenge(u))
      BY <3>1, <3>2, EndedLeaves
    <3>4. CASE cTokens' = cTokens
      BY <1>0, <3>2, <3>3, <3>4
    <3>5. CASE Cert!PollInvalid(t)
      <4>1. /\ cPc[t] = "poll" /\ cValidated[Cert!Challenge(t)] = "invalid"
            /\ cTokens' = Cert!Without(cTokens, Cert!Challenge(t))
        BY <3>5 DEF Cert!PollInvalid, Cert!Step, Cert!ClearToken
      <4>2. Cert!Challenge(u) # Cert!Challenge(t)
        BY <1>0, <3>3, <4>1 DEF CertPolled
      <4>3. QED
        BY <1>0, <3>2, <3>3, <4>1, <4>2 DEF Cert!Without
    <3>6. QED
      BY <2>7, <3>4, <3>5 DEF Cert!RequestFails, Cert!KeyWrite, Cert!WriteFails
  <2>8. QED
    BY <1>3, <2>1, <2>2, <2>3, <2>4, <2>5, <2>6, <2>7 DEF Cert!Issue
<1>4. CASE \E c \in DOMAIN cValidated : Cert!Fetch(c)
  BY <1>0, <1>4 DEF Cert!Fetch, Cert!Fetching, Cert!working, Cert!Challenge
<1>5. CASE (cClock = CertClock \/ cOrders = MaxOrders) /\ UNCHANGED Cert!vars
  BY <1>0, <1>5 DEF Cert!vars, Cert!Challenge
<1>6. QED
  BY <1>1, <1>2, <1>3, <1>4, <1>5 DEF Cert!Next

(* The invariant holds in every state of the threads.                         *)
LEMMA ChallengeInvariant == NetworkSpec => []ChallengeInv
<1>1. NetworkInit => ChallengeInv
  BY ChallengeInit DEF NetworkInit
<1>2. ChallengeInv /\ [NetworkNext]_allVars => ChallengeInv'
  <2>1. ASSUME ChallengeInv, UNCHANGED cVars PROVE ChallengeInv'
    BY <2>1 DEF cVars, ChallengeInv, CertType, CertStage, CertShared, CertPolled, CertAnswer,
                Open, Cert!Challenge
  <2>2. ASSUME ChallengeInv, NetworkNext PROVE ChallengeInv'
    <3>1. CASE Cert!Next
      BY <2>2, <3>1, CertTypeStep, CertStageStep, CertSharedStep, CertPolledStep, CertAnswerStep
         DEF ChallengeInv
    <3>2. QED
      BY <2>1, <2>2, <3>1 DEF NetworkNext
  <2>3. QED
    BY <2>1, <2>2 DEF allVars
<1>3. QED
  BY <1>1, <1>2, PTL DEF NetworkSpec, allVars

(* While the authority is to fetch what a thread has set, it is answered with *)
(* the thread's own account, unless another thread with the same              *)
(* authorization gave up: for any number of threads, names and orders.        *)
THEOREM ChallengesAnswered == NetworkSpec => []ChallengeAnswered
<1>1. ChallengeInv => ChallengeAnswered
  BY DEF ChallengeInv, CertAnswer, Open, ChallengeAnswered, Cert!ChallengeAnswered, Cert!Fetching
<1>2. QED
  BY <1>1, ChallengeInvariant, PTL

(* What the threads know of time: a tick finds every thread at rest.          *)
RenewType ==
    /\ cClock \in Nat /\ cFailing \in Nat /\ cWorst \in Nat /\ cFailing <= cWorst
    /\ cUp \in BOOLEAN /\ cAcme \in BOOLEAN
    /\ cCert.at \in Nat /\ cCert.until \in Nat
    /\ cCert.kind \in {"absent", "broken", "whole"}

(* Nobody obtains a certificate, and there is none, while ACME is off; once   *)
(* it is on, the loop runs as long as the process does.                       *)
RenewOn ==
    /\ cCert.kind # "absent" => cAcme
    /\ \A t \in Cert!Thread : cPc[t] # "idle" => cAcme /\ cUp
    /\ cAcme /\ cUp => cPc[Loop] # "idle"

(* A look of the loop that is still to come counts as a failure to be         *)
(* expected; one that was in time, or failed, is accounted for.               *)
ToCome == IF cPc[Loop] = "sleep" THEN 0 ELSE 1

RenewMargin ==
    cCert.kind = "whole" =>
        /\ cCert.until = cCert.at + Life
        /\ cCert.until + cFailing + ToCome >= cClock + Tolerance + 1
        /\ cPc[Loop] \in KeyStage => cCert.until >= cClock + Tolerance + 1

RenewInv == CertType /\ RenewType /\ RenewOn /\ RenewMargin

(* There is no certificate in the beginning.                                  *)
LEMMA RenewInit == Cert!Init => RenewInv
<1> SUFFICES ASSUME Cert!Init PROVE RenewInv
  OBVIOUS
<1>1. CertType
  BY ChallengeInit DEF ChallengeInv
<1>2. cCert.kind = "absent" /\ cCert.at = 0 /\ cCert.until = 0
  BY DEF Cert!Init, Cert!Absent
<1>3. RenewType
  <2>1. cUp \in BOOLEAN /\ cAcme \in BOOLEAN
    BY Zenon DEF Cert!Init
  <2>2. cClock = 0 /\ cFailing = 0 /\ cWorst = 0
    BY DEF Cert!Init
  <2>3. QED
    BY <1>2, <2>1, <2>2 DEF RenewType
<1>4. RenewOn
  BY <1>2 DEF Cert!Init, RenewOn
<1>5. RenewMargin
  BY <1>2 DEF RenewMargin
<1>6. QED
  BY <1>1, <1>3, <1>4, <1>5 DEF RenewInv

(* A look counts for the loop and for no other thread.                        *)
LEMMA LookCounts ==
    ASSUME RenewType, NEW t, NEW ok \in BOOLEAN, Cert!Looked(t, ok)
    PROVE  /\ cFailing' \in Nat /\ cWorst' \in Nat /\ cFailing' <= cWorst'
           /\ t # Loop => cFailing' = cFailing
           /\ t = Loop => cFailing' = IF ok THEN 0 ELSE cFailing + 1
BY DEF RenewType, Cert!Looked

(* The end of an issuance, with or without success, whose files are written.  *)
LEMMA RenewLooked ==
    ASSUME RenewInv, NEW t \in Cert!Thread, NEW ok \in BOOLEAN, Cert!Looked(t, ok),
           cPc[t] \notin {"idle", "sleep"}, cPc' = [cPc EXCEPT ![t] = Cert!Rest(t)],
           cClock' = cClock, cUp' = cUp, cAcme' = cAcme, cCert' = cCert,
           t = Loop /\ ok /\ cCert.kind = "whole" => cCert.until >= cClock + Tolerance + 1
    PROVE  RenewType' /\ RenewOn' /\ RenewMargin'
<1>1. RenewType'
  BY LookCounts DEF RenewInv, RenewType
<1>2. RenewOn'
  BY CertConstants DEF RenewInv, RenewOn, CertType, Cert!Rest
<1>3. RenewMargin'
  <2> SUFFICES ASSUME cCert.kind = "whole"
               PROVE  /\ cCert.until = cCert.at + Life
                      /\ cCert.until + cFailing' + ToCome' >= cClock + Tolerance + 1
                      /\ cPc'[Loop] \in KeyStage => cCert.until >= cClock + Tolerance + 1
    BY DEF RenewMargin
  <2>1. CASE t = Loop
    <3>1. cPc'[Loop] = "sleep" /\ ToCome' = 0 /\ ToCome = 1
      BY <2>1, CertConstants DEF RenewInv, CertType, Cert!Rest, ToCome
    <3>2. QED
      BY <2>1, <3>1, LookCounts, CertConstants
         DEF RenewInv, RenewType, RenewMargin, KeyStage
  <2>2. CASE t # Loop
    BY <2>2, LookCounts, CertConstants DEF RenewInv, CertType, RenewMargin, ToCome
  <2>3. QED
    BY <2>1, <2>2
<1>4. QED
  BY <1>1, <1>2, <1>3

(* A step in the middle of an issuance: the thread goes on, the certificate   *)
(* stays, or is broken, or a new one.                                         *)
LEMMA RenewOnward ==
    ASSUME RenewInv, NEW t \in Cert!Thread, NEW stage \in Stages \ {"idle", "sleep"},
           cPc[t] \notin {"idle", "sleep"}, cPc' = [cPc EXCEPT ![t] = stage],
           cClock' = cClock, cUp' = cUp, cAcme' = cAcme,
           cFailing' = cFailing, cWorst' = cWorst,
           \/ cCert' = cCert /\ (stage \in KeyStage => cPc[t] \in KeyStage)
           \/ cCert' = Cert!Broken
           \/ \E i : cCert' = Cert!Whole(i, cClock + Life)
    PROVE  RenewType' /\ RenewOn' /\ RenewMargin'
<1>1. RenewType'
  BY CertConstants DEF RenewInv, RenewType, Cert!Broken, Cert!Whole
<1>2. RenewOn'
  <2>1. cAcme /\ cUp
    BY DEF RenewInv, RenewOn
  <2>2. QED
    BY <2>1, CertConstants DEF RenewInv, RenewOn, CertType
<1>3. RenewMargin'
  <2>1. ToCome' = ToCome /\ ToCome \in {0, 1}
    BY CertConstants DEF RenewInv, CertType, ToCome
  <2>2. CASE cCert' = cCert /\ (stage \in KeyStage => cPc[t] \in KeyStage)
    BY <2>1, <2>2, CertConstants DEF RenewInv, CertType, RenewMargin
  <2>3. CASE cCert' = Cert!Broken
    BY <2>3 DEF Cert!Broken, RenewMargin
  <2>4. CASE \E i : cCert' = Cert!Whole(i, cClock + Life)
    BY <2>1, <2>4, CertConstants DEF RenewInv, RenewType, Cert!Whole, RenewMargin
  <2>5. QED
    BY <2>2, <2>3, <2>4
<1>4. QED
  BY <1>1, <1>2, <1>3

(* What a thread does on its way to a certificate keeps the margin.           *)
LEMMA RenewIssue ==
    ASSUME RenewInv, NEW t \in Cert!Thread, Cert!Issue(t)
    PROVE  RenewType' /\ RenewOn' /\ RenewMargin'
<1> USE DEF Cert!Step, Cert!host, Cert!files, Cert!past, Stages, Asking, KeyStage
<1>1. CASE Cert!CheckValid(t)
  <2>1. cCert.kind = "whole" => cCert.until >= cClock + Tolerance + 1
    BY <1>1, CertConstants DEF Cert!CheckValid, Cert!NeedsRenewal, RenewInv, RenewType, RenewMargin
  <2>2. QED
    BY <1>1, <2>1, RenewLooked DEF Cert!CheckValid
<1>2. CASE Cert!CheckDue(t)
  <2>1. PICK stage \in {"accountCreate", "order"} : cPc' = [cPc EXCEPT ![t] = stage]
    BY <1>2 DEF Cert!CheckDue
  <2>2. QED
    BY <1>2, <2>1, RenewOnward DEF Cert!CheckDue
<1>3. CASE Cert!AccountCreate(t) \/ Cert!AccountWrite(t) \/ Cert!Order(t) \/ Cert!SetToken(t)
           \/ Cert!Notify(t) \/ Cert!PollDone(t)
  <2>1. PICK stage \in {"accountWrite", "order", "authz", "notify", "poll"} :
            cPc' = [cPc EXCEPT ![t] = stage]
    BY <1>3 DEF Cert!AccountCreate, Cert!AccountWrite, Cert!Order, Cert!SetToken, Cert!Notify,
                Cert!PollDone
  <2>2. /\ cPc[t] \notin {"idle", "sleep"} /\ cCert' = cCert
        /\ cClock' = cClock /\ cUp' = cUp /\ cAcme' = cAcme
        /\ cFailing' = cFailing /\ cWorst' = cWorst
    BY <1>3 DEF Cert!AccountCreate, Cert!AccountWrite, Cert!Order, Cert!SetToken, Cert!Notify,
                Cert!PollDone
  <2>3. QED
    BY <2>1, <2>2, RenewOnward
<1>4. CASE Cert!CertCreate(t) \/ Cert!CertWrite(t) \/ Cert!KeyCreate(t)
  <2>1. CASE Cert!CertCreate(t)
    BY <2>1, RenewOnward DEF Cert!CertCreate
  <2>2. CASE Cert!CertWrite(t)
    BY <2>2, RenewOnward DEF Cert!CertWrite
  <2>3. CASE Cert!KeyCreate(t)
    BY <2>3, RenewOnward DEF Cert!KeyCreate
  <2>4. QED
    BY <1>4, <2>1, <2>2, <2>3
<1>5. CASE Cert!PollInvalid(t) \/ Cert!RequestFails(t) \/ Cert!WriteFails(t)
  <2>1. /\ cPc[t] \notin {"idle", "sleep"} /\ cPc' = [cPc EXCEPT ![t] = Cert!Rest(t)]
        /\ Cert!Looked(t, FALSE) /\ cCert' = cCert
        /\ cClock' = cClock /\ cUp' = cUp /\ cAcme' = cAcme
    BY <1>5 DEF Cert!PollInvalid, Cert!RequestFails, Cert!WriteFails, Cert!Writing
  <2>2. QED
    BY <2>1, RenewLooked
<1>6. CASE Cert!KeyWrite(t)
  <2>1. t = Loop /\ cCert.kind = "whole" => cCert.until >= cClock + Tolerance + 1
    BY <1>6 DEF Cert!KeyWrite, RenewInv, RenewMargin
  <2>2. QED
    BY <1>6, <2>1, RenewLooked DEF Cert!KeyWrite
<1>7. QED
  BY <1>1, <1>2, <1>3, <1>4, <1>5, <1>6 DEF Cert!Issue

(* Every step keeps the margin: time passes while the loop sleeps after a     *)
(* look, or there is no certificate.                                          *)
LEMMA RenewStep == RenewInv /\ Cert!Next => RenewType' /\ RenewOn' /\ RenewMargin'
<1> SUFFICES ASSUME RenewInv, Cert!Next PROVE RenewType' /\ RenewOn' /\ RenewMargin'
  OBVIOUS
<1> USE CertConstants DEF RenewInv
<1>1. CASE Cert!ServerStart
  <2>1. RenewType' /\ RenewOn'
    BY <1>1 DEF Cert!ServerStart, RenewType, RenewOn, CertType, Cert!files, Cert!past
  <2>2. ToCome' = 1 /\ ToCome \in {0, 1}
    BY <1>1 DEF Cert!ServerStart, CertType, ToCome
  <2>3. RenewMargin'
    BY <1>1, <2>2 DEF Cert!ServerStart, RenewType, RenewMargin, CertType, KeyStage,
                      Cert!files, Cert!past
  <2>4. QED
    BY <2>1, <2>3
<1>2. CASE Cert!Stop
  <2>1. RenewType' /\ RenewOn'
    BY <1>2 DEF Cert!Stop, RenewType, RenewOn, Cert!files
  <2>2. ToCome' = 1 /\ ToCome \in {0, 1} /\ cPc'[Loop] = "idle"
    BY <1>2 DEF Cert!Stop, ToCome
  <2>3. cCert' = cCert /\ cClock' = cClock /\ cFailing' = cFailing
    BY <1>2 DEF Cert!Stop, Cert!files
  <2>4. RenewMargin'
    BY <2>2, <2>3 DEF RenewType, RenewMargin, KeyStage
  <2>5. QED
    BY <2>1, <2>4
<1>3. CASE Cert!Tick
  <2>1. RenewType' /\ RenewOn'
    BY <1>3 DEF Cert!Tick, RenewType, RenewOn, CertType, Cert!files, Cert!past
  <2>2. cCert.kind = "whole" => cPc[Loop] = "sleep"
    BY <1>3 DEF Cert!Tick, Cert!Resting, RenewOn
  <2>3. RenewMargin'
    BY <1>3, <2>2 DEF Cert!Tick, RenewType, RenewMargin, ToCome, CertType, KeyStage,
                      Cert!files, Cert!past
  <2>4. QED
    BY <2>1, <2>3
<1>4. CASE \E s \in Shot : Cert!Enable(s)
  <2> PICK s \in Shot : Cert!Enable(s)
    BY <1>4
  <2>1. s \in Cert!Thread /\ s # Loop
    BY DEF Cert!Thread
  <2>2. RenewType' /\ RenewOn'
    BY <2>1 DEF Cert!Enable, RenewType, RenewOn, CertType, Cert!files, Cert!past
  <2>3. RenewMargin'
    <3>1. CASE cPc[Loop] = "idle"
      <4>1. cCert'.kind # "whole"
        BY <3>1 DEF Cert!Enable, RenewOn, Cert!files
      <4>2. QED
        BY <4>1 DEF RenewMargin
    <3>2. CASE cPc[Loop] # "idle"
      BY <2>1, <3>2 DEF Cert!Enable, RenewMargin, ToCome, CertType, Cert!files, Cert!past
    <3>3. QED
      BY <3>1, <3>2
  <2>4. QED
    BY <2>2, <2>3
<1>5. CASE \E t \in Cert!Thread : Cert!Issue(t)
  BY <1>5, RenewIssue
<1>6. CASE \E c \in DOMAIN cValidated : Cert!Fetch(c)
  BY <1>6 DEF Cert!Fetch, RenewType, RenewOn, RenewMargin, ToCome, Cert!host, Cert!files,
              Cert!past
<1>7. CASE (cClock = CertClock \/ cOrders = MaxOrders) /\ UNCHANGED Cert!vars
  BY <1>7 DEF Cert!vars, RenewType, RenewOn, RenewMargin, ToCome
<1>8. QED
  BY <1>1, <1>2, <1>3, <1>4, <1>5, <1>6, <1>7 DEF Cert!Next

(* The margin holds in every state.                                           *)
LEMMA RenewInvariant == NetworkSpec => []RenewInv
<1>1. NetworkInit => RenewInv
  BY RenewInit DEF NetworkInit
<1>2. RenewInv /\ [NetworkNext]_allVars => RenewInv'
  <2>1. ASSUME RenewInv, UNCHANGED cVars PROVE RenewInv'
    BY <2>1 DEF cVars, RenewInv, CertType, RenewType, RenewOn, RenewMargin, ToCome
  <2>2. ASSUME RenewInv, NetworkNext PROVE RenewInv'
    <3>1. CASE Cert!Next
      BY <2>2, <3>1, CertTypeStep, RenewStep DEF RenewInv
    <3>2. QED
      BY <2>1, <2>2, <3>1 DEF NetworkNext
  <2>3. QED
    BY <2>1, <2>2 DEF allVars
<1>3. QED
  BY <1>1, <1>2, PTL DEF NetworkSpec, allVars

(* A certificate does not expire before it is replaced while at most          *)
(* Tolerance looks in a row fail, for every lifetime and lead that leave room *)
(* for as many looks, with and without openssl.                               *)
THEOREM CertificateRenewed == NetworkSpec => []RenewedInTime
<1>1. RenewInv => RenewedInTime
  <2> SUFFICES ASSUME RenewInv, cCert.kind = "whole", cWorst <= Tolerance,
                      Cert!Resting(Loop)
               PROVE  cClock <= cCert.until
    BY DEF RenewedInTime, Cert!RenewedInTime
  <2>1. ToCome \in {0, 1}
    BY DEF ToCome
  <2>2. QED
    BY <2>1, CertConstants DEF RenewInv, RenewType, RenewMargin
<1>2. QED
  BY <1>1, RenewInvariant, PTL

-------------------------------------------------------------------------------
(* The resolver (DnsClient).                                                  *)

DnsAnswer == [from : Nat, to : Nat, name : Nat]

DnsType ==
    /\ dCells \in Seq(Nat) /\ dAnswers \in Seq(DnsAnswer)
    /\ dPos \in Nat /\ dHops \in Nat /\ dAfter \in Nat
    /\ dLabels \in Nat /\ dStart \in Nat /\ dSteps \in Nat

(* Between two pointers a name is read forward: each step is paid for by the  *)
(* cells it goes on, and each pointer by a whole response.                    *)
DnsBudget ==
    /\ dHops <= MaxHops
    /\ dSteps <= dHops * (Len(dCells) + 1) + dPos
    /\ dSteps <= (dHops + 1) * (Len(dCells) + 1)

(* The reader goes on behind the name; a record whose data is being read lies *)
(* within the response, as do those that were taken.                          *)
DnsPlaces ==
    /\ Dns!Reading => dAfter >= 1
    /\ dOf = "target" =>
           dStart - 1 \in DOMAIN dCells /\ dStart - 1 + dCells[dStart - 1] <= Len(dCells)
    /\ \A i \in DOMAIN dAnswers : dAnswers[i].to <= Len(dCells) + 1

DnsInv == DnsType /\ DnsBudget /\ DnsPlaces

(* What the assumptions on names in responses come to.                        *)
LEMMA DnsConstants ==
    /\ MaxHops \in Nat /\ MaxLabel \in Nat /\ Pointer \in Nat /\ MaxLabel < Pointer
    /\ Responses \subseteq Seq(Nat)
BY ResolverAssumption DEF Dns!DnsClientAssumption

(* What a cell of a response is.                                              *)
LEMMA CellOf ==
    ASSUME NEW s \in Seq(Nat), NEW p \in DOMAIN s
    PROVE  p \in Nat \ {0} /\ p <= Len(s) /\ Len(s) \in Nat /\ s[p] \in Nat
OBVIOUS

(* A pointer more, or the limit on them, times the width of a response.       *)
LEMMA Products ==
    ASSUME NEW h \in Nat, NEW m \in Nat, NEW w \in Nat
    PROVE  /\ h * w \in Nat /\ (h + 1) * w = h * w + w
           /\ h <= m => h * w <= m * w
<1>1. h * w \in Nat /\ (h + 1) * w = h * w + w
  OBVIOUS
<1>2. ASSUME h <= m PROVE h * w <= m * w
  <2> DEFINE d == m - h
  <2>1. d \in Nat /\ m = h + d
    BY <1>2
  <2> HIDE DEF d
  <2>2. m * w = h * w + d * w /\ d * w \in Nat
    BY <2>1
  <2>3. QED
    BY <2>2
<1>3. QED
  BY <1>1, <1>2

(* A bound that grows is still a bound.                                       *)
LEMMA StillWithin ==
    \A a, b, c \in Nat : a <= b => a <= b + c
OBVIOUS

(* At the start nothing is read.                                              *)
LEMMA DnsInit == Dns!Init => DnsInv
<1> SUFFICES ASSUME Dns!Init PROVE DnsInv
  OBVIOUS
<1>1. dCells = << >> /\ dAnswers = << >>
  BY DEF Dns!Init, Dns!Nothing
<1>2. dPos = 0 /\ dHops = 0 /\ dAfter = 0 /\ dLabels = 0 /\ dStart = 0 /\ dSteps = 0
  BY DEF Dns!Init
<1>3. DnsType
  BY <1>1, <1>2 DEF DnsType
<1>4. DnsBudget
  BY <1>1, <1>2, DnsConstants DEF DnsBudget
<1>5. DnsPlaces
  BY <1>1 DEF Dns!Init, DnsPlaces, Dns!Reading
<1>6. QED
  BY <1>3, <1>4, <1>5 DEF DnsInv

(* With nothing to read the invariant holds: a response has been read, has    *)
(* failed, or never came.                                                     *)
LEMMA DnsNothing ==
    ASSUME dCells' = << >>, dAnswers' = << >>, Dns!NoName
    PROVE  DnsInv'
<1>1. DnsType'
  BY DEF DnsType, Dns!NoName
<1>2. DnsBudget'
  BY DnsConstants DEF DnsBudget, Dns!NoName
<1>3. DnsPlaces'
  BY DEF DnsPlaces, Dns!Reading, Dns!NoName
<1>4. QED
  BY <1>1, <1>2, <1>3 DEF DnsInv

(* A query that fails leaves nothing to read.                                 *)
LEMMA DnsFailed == Dns!Failed => DnsInv'
BY DnsNothing DEF Dns!Failed, Dns!Nothing

(* A response that is read to its end leaves nothing to read.                 *)
LEMMA DnsComplete == ASSUME NEW a, Dns!Complete(a) PROVE DnsInv'
BY DnsNothing DEF Dns!Complete, Dns!Nothing

(* A name begins where the reader may be.                                     *)
LEMMA DnsName ==
    ASSUME NEW p \in Nat \ {0}, NEW of, Dns!Name(p, of),
           dCells' \in Seq(Nat), dAnswers' \in Seq(DnsAnswer),
           \A i \in DOMAIN dAnswers' : dAnswers'[i].to <= Len(dCells') + 1,
           of = "target" => p - 1 \in DOMAIN dCells' /\ p - 1 + dCells'[p - 1] <= Len(dCells')
    PROVE  DnsInv'
<1>1. DnsType'
  BY DEF DnsType, Dns!Name
<1>2. DnsBudget'
  <2>1. dHops' = 0 /\ dSteps' = 0 /\ dPos' = p /\ Len(dCells') \in Nat
    BY DEF Dns!Name
  <2>2. 0 * (Len(dCells') + 1) = 0 /\ (0 + 1) * (Len(dCells') + 1) = Len(dCells') + 1
    BY <2>1
  <2>3. QED
    BY <2>1, <2>2, DnsConstants DEF DnsBudget
<1>3. DnsPlaces'
  BY DEF DnsPlaces, Dns!Reading, Dns!Name
<1>4. QED
  BY <1>1, <1>2, <1>3 DEF DnsInv

(* A record that lies within the response is taken.                           *)
LEMMA DnsTake ==
    ASSUME DnsInv, NEW p \in DOMAIN dCells, p + dCells[p] <= Len(dCells), NEW name \in Nat,
           Dns!Take(p, name)
    PROVE  DnsInv'
<1> DEFINE r == [from |-> p + 1, to |-> p + 1 + dCells[p], name |-> name]
           a == Append(dAnswers, r)
<1>1. dCells \in Seq(Nat) /\ Len(dCells) \in Nat /\ p \in Nat \ {0} /\ dCells[p] \in Nat
  <2>1. dCells \in Seq(Nat)
    BY DEF DnsInv, DnsType
  <2>2. QED
    BY <2>1, CellOf
<1>2. r \in DnsAnswer /\ r.to <= Len(dCells) + 1
  <2>1. PICK n : n = dCells[p]
    OBVIOUS
  <2>2. n \in Nat /\ p \in Nat /\ p + n <= Len(dCells) /\ Len(dCells) \in Nat
    BY <1>1, <2>1
  <2>3. p + 1 \in Nat /\ p + 1 + n \in Nat /\ p + 1 + n <= Len(dCells) + 1
    BY <2>2
  <2>4. QED
    BY <2>1, <2>3 DEF DnsAnswer
<1>3. a \in Seq(DnsAnswer) /\ \A i \in DOMAIN a : a[i].to <= Len(dCells) + 1
  <2>1. dAnswers \in Seq(DnsAnswer)
    BY DEF DnsInv, DnsType
  <2> HIDE DEF r
  <2>2. /\ a \in Seq(DnsAnswer)
        /\ \A i \in DOMAIN a : IF i \in DOMAIN dAnswers THEN a[i] = dAnswers[i] ELSE a[i] = r
    BY <1>2, <2>1
  <2>3. QED
    BY <1>2, <2>2 DEF DnsInv, DnsPlaces
<1>4. CASE Len(a) = Records
  BY <1>4, DnsComplete DEF Dns!Take
<1>5. CASE Len(a) # Records
  <2>1. Dns!Name(p + 1 + dCells[p], "owner") /\ dAnswers' = a /\ dCells' = dCells
    BY <1>5 DEF Dns!Take
  <2>2. p + 1 + dCells[p] \in Nat \ {0} /\ dCells \in Seq(Nat)
    BY <1>1
  <2>3. QED
    BY <1>3, <2>1, <2>2, DnsName
<1>6. QED
  BY <1>4, <1>5

(* The end of a name, of which kind it may be.                                *)
LEMMA DnsEndName ==
    ASSUME DnsInv, Dns!Reading, NEW end \in Nat \ {0}, Dns!EndName(end)
    PROVE  DnsInv'
<1>1. dCells \in Seq(Nat) /\ dAnswers \in Seq(DnsAnswer) /\ dLabels \in Nat
      /\ \A i \in DOMAIN dAnswers : dAnswers[i].to <= Len(dCells) + 1
  BY DEF DnsInv, DnsType, DnsPlaces
<1>2. CASE dOf = "question"
  <2>1. Dns!Name(end, "owner") /\ dCells' = dCells /\ dAnswers' = dAnswers
    BY <1>2 DEF Dns!EndName
  <2>2. QED
    BY <1>1, <2>1, DnsName
<1>3. CASE dOf = "owner"
  <2>1. Dns!Record(end)
    BY <1>3 DEF Dns!EndName
  <2>2. CASE end > Len(dCells) \/ end + dCells[end] > Len(dCells)
    BY <2>1, <2>2, DnsComplete DEF Dns!Record
  <2>3. CASE ~(end > Len(dCells) \/ end + dCells[end] > Len(dCells))
    <3>1. end \in DOMAIN dCells /\ dCells[end] \in Nat /\ end + dCells[end] <= Len(dCells)
      BY <1>1, <2>3
    <3>2. CASE Dns!Take(end, 0)
      BY <3>1, <3>2, DnsTake
    <3>3. CASE Dns!Name(end + 1, "target") /\ dCells' = dCells /\ dAnswers' = dAnswers
      BY <1>1, <3>1, <3>3, DnsName
    <3>4. QED
      BY <2>1, <2>3, <3>2, <3>3 DEF Dns!Record
  <2>4. QED
    BY <2>2, <2>3
<1>4. CASE dOf = "target"
  BY <1>1, <1>4, DnsTake DEF Dns!EndName, DnsInv, DnsPlaces
<1>5. QED
  BY <1>2, <1>3, <1>4 DEF Dns!Reading

(* A name that parse_name gives up leaves nothing to read.                    *)
LEMMA DnsBadName == DnsInv /\ Dns!BadName => DnsInv'
BY DnsFailed, DnsTake DEF Dns!BadName, DnsInv, DnsPlaces

(* A label or a pointer: the name goes on.                                    *)
LEMMA DnsOnward ==
    ASSUME DnsInv, Dns!Label \/ Dns!Jump PROVE DnsInv'
<1> DEFINE w == Len(dCells) + 1
           behind == dHops * w
           budget == (dHops + 1) * w
<1>1. dCells \in Seq(Nat) /\ dCells' = dCells /\ dAnswers' = dAnswers /\ dOf' = dOf
      /\ dStart' = dStart /\ dSteps' = dSteps + 1
  BY DEF Dns!Label, Dns!Jump, Dns!Step, DnsInv, DnsType
<1>2. dPos \in Nat \ {0} /\ dPos + 1 <= w /\ w \in Nat /\ dCells[dPos] \in Nat
  <2>1. dPos \in DOMAIN dCells
    BY DEF Dns!Label, Dns!Jump, Dns!Inside
  <2>2. QED
    BY <1>1, <2>1, CellOf
<1>3. /\ dHops \in Nat /\ dAfter \in Nat /\ dLabels \in Nat /\ dStart \in Nat /\ dSteps \in Nat
      /\ dAfter >= 1 /\ dHops <= MaxHops
      /\ dSteps <= behind + dPos /\ dSteps <= budget
  BY DEF DnsInv, DnsType, DnsBudget, DnsPlaces, Dns!Label, Dns!Jump
<1> HIDE DEF w
<1>4. behind \in Nat /\ budget = behind + w /\ ((dHops + 1) + 1) * w = budget + w
  BY <1>2, <1>3, Products
<1>5. behind \in Nat /\ budget = behind + w
  BY <1>4
<1>6. CASE Dns!Label
  <2>1. /\ dPos' = dPos + dCells[dPos] + 1 /\ dHops' = dHops /\ dPos' <= w
        /\ dAfter' = (IF dJumped THEN dAfter ELSE dPos + dCells[dPos] + 1)
        /\ dLabels' = dLabels + 1
    BY <1>2, <1>6 DEF Dns!Label, Dns!Step, Dns!Cell, w
  <2>2. dSteps' <= behind + dPos' /\ dSteps' <= budget
    <3> HIDE DEF behind, budget
    <3>1. /\ dSteps' = dSteps + 1 /\ dSteps \in Nat /\ dSteps <= behind + dPos
          /\ dPos \in Nat /\ dCells[dPos] \in Nat /\ w \in Nat
          /\ dPos' = dPos + dCells[dPos] + 1 /\ dPos' <= w
      BY <1>1, <1>2, <1>3, <2>1
    <3>2. dSteps' <= behind + dPos'
      BY <1>5, <3>1
    <3>3. behind + dPos' <= budget /\ dSteps' \in Nat
      BY <1>5, <3>1
    <3>4. QED
      BY <1>5, <3>1, <3>2, <3>3
  <2>3. dAfter' \in Nat /\ dAfter' >= 1 /\ dPos' \in Nat
    BY <1>2, <1>3, <2>1
  <2>4. DnsType'
    BY <1>1, <1>3, <2>1, <2>3 DEF DnsInv, DnsType
  <2>5. DnsBudget'
    BY <1>1, <1>3, <2>1, <2>2 DEF DnsBudget, w
  <2>6. DnsPlaces'
    BY <1>1, <2>3 DEF DnsInv, DnsPlaces, Dns!Reading
  <2>7. QED
    BY <2>4, <2>5, <2>6 DEF DnsInv
<1>7. CASE Dns!Jump
  <2>1. /\ dPos' = dCells[dPos] - Pointer /\ dCells[dPos] >= Pointer
        /\ dHops' = dHops + 1 /\ dHops < MaxHops
        /\ dAfter' = (IF dJumped THEN dAfter ELSE dPos + 1) /\ dLabels' = dLabels
    BY <1>7 DEF Dns!Jump, Dns!Hop, Dns!Step, Dns!Cell
  <2>2. dPos' \in Nat /\ dAfter' \in Nat /\ dAfter' >= 1 /\ dHops' <= MaxHops
    BY <1>2, <1>3, <2>1, DnsConstants
  <2>3. dSteps' <= budget + dPos' /\ dSteps' <= budget + w
    <3> HIDE DEF behind, budget
    <3>1. dSteps' <= budget
      BY <1>1, <1>2, <1>3, <1>5
    <3>2. budget \in Nat /\ dSteps' \in Nat
      BY <1>1, <1>2, <1>3, <1>5
    <3>3. QED
      BY <1>2, <2>2, <3>1, <3>2, StillWithin
  <2>4. DnsType'
    BY <1>1, <1>3, <2>1, <2>2 DEF DnsInv, DnsType
  <2>5. DnsBudget'
    BY <1>1, <1>4, <2>1, <2>2, <2>3 DEF DnsBudget, w
  <2>6. DnsPlaces'
    BY <1>1, <2>2 DEF DnsInv, DnsPlaces, Dns!Reading
  <2>7. QED
    BY <2>4, <2>5, <2>6 DEF DnsInv
<1>8. QED
  BY <1>6, <1>7

(* Every step of the DNS client (dns.rs) keeps the reader within its bounds.  *)
LEMMA DnsStep == DnsInv /\ Dns!Next => DnsInv'
<1> SUFFICES ASSUME DnsInv, Dns!Next PROVE DnsInv'
  OBVIOUS
<1>1. CASE \E c \in Responses, truncated \in BOOLEAN : Dns!Received(c, truncated)
  <2> PICK c \in Responses, truncated \in BOOLEAN : Dns!Received(c, truncated)
    BY <1>1
  <2>1. dCells' \in Seq(Nat) /\ dAnswers' = << >> /\ Dns!Name(1, "question")
    BY DnsConstants DEF Dns!Received, Dns!Nothing
  <2>2. QED
    BY <2>1, DnsName
<1>2. CASE Dns!Unanswered
  BY <1>2, DnsFailed DEF Dns!Unanswered
<1>3. CASE Dns!NoSuchName
  BY <1>3, DnsComplete DEF Dns!NoSuchName
<1>4. CASE Dns!OutOfBounds \/ Dns!BadCell
  BY <1>4, DnsBadName DEF Dns!OutOfBounds, Dns!BadCell
<1>5. CASE Dns!End
  <2>1. dPos + 1 \in Nat \ {0} /\ dAfter \in Nat \ {0}
    BY <1>5 DEF Dns!End, DnsInv, DnsType, DnsPlaces
  <2>2. QED
    BY <1>5, <2>1, DnsEndName DEF Dns!End
<1>6. CASE Dns!Label \/ Dns!Jump
  BY <1>6, DnsOnward
<1>7. CASE Dns!Rest
  BY <1>7 DEF Dns!Rest, Dns!vars, DnsInv, DnsType, DnsBudget, DnsPlaces, Dns!Reading
<1>8. QED
  BY <1>1, <1>2, <1>3, <1>4, <1>5, <1>6, <1>7 DEF Dns!Next

(* The invariant of the DNS client in every behaviour of the sum.             *)
LEMMA DnsInvariant == NetworkSpec => []DnsInv
<1>1. NetworkInit => DnsInv
  BY DnsInit DEF NetworkInit
<1>2. DnsInv /\ [NetworkNext]_allVars => DnsInv'
  <2>1. ASSUME DnsInv, UNCHANGED dVars PROVE DnsInv'
    BY <2>1 DEF dVars, DnsInv, DnsType, DnsBudget, DnsPlaces, Dns!Reading
  <2>2. QED
    BY <2>1, DnsStep DEF NetworkNext, allVars
<1>3. QED
  BY <1>1, <1>2, PTL DEF NetworkSpec, allVars

(* The reading of a name ends, whatever the response leads to, and every      *)
(* answer lies within it: for all responses, and any limit on pointers.       *)
THEOREM ReadingEnds == NetworkSpec => []NamesEnd
<1>1. DnsInv => NamesEnd
  <2> SUFFICES ASSUME DnsInv PROVE NamesEnd
    OBVIOUS
  <2> DEFINE w == Len(dCells) + 1
  <2>1. w \in Nat /\ dHops \in Nat /\ dSteps \in Nat /\ dHops <= MaxHops
        /\ dSteps <= (dHops + 1) * w
    BY DEF DnsInv, DnsType, DnsBudget
  <2> HIDE DEF w
  <2>2. (dHops + 1) * w <= (MaxHops + 1) * w /\ (dHops + 1) * w \in Nat
        /\ (MaxHops + 1) * w \in Nat
    BY <2>1, Products, DnsConstants
  <2>3. dSteps <= (MaxHops + 1) * w
    BY <2>1, <2>2
  <2>4. QED
    BY <2>3 DEF NamesEnd, Dns!NamesEnd, DnsInv, DnsPlaces, w
<1>2. QED
  BY <1>1, DnsInvariant, PTL

-------------------------------------------------------------------------------
(* The sender's policy (SenderPolicy).                                        *)

Frames ==
    [dom : Domain, depth : Nat, read : BOOLEAN, todo : Seq(Policy!Terms),
     redirect : SUBSET Domain, hosts : Seq(Domain), mx : BOOLEAN]

SpfType ==
    /\ pZone \in [Domain -> Policy!Published] /\ pSender \in Domain
    /\ pLookups \in Nat /\ pAsked \in Nat

(* The queries sent are those counted.                                        *)
SpfCount ==
    /\ pAsked = pLookups /\ pLookups <= MaxLookups
    /\ pExhausted => pLookups = MaxLookups

(* A record that was reached by so many redirects has cost a query for each,  *)
(* and one more if it has been read; the exchanges that are looked up are of  *)
(* one of its terms.  Those below the top wait for an include.                *)
Paid(f, n) ==
    /\ f.depth + (IF f.read THEN 1 ELSE 0) <= n
    /\ f.mx => f.read /\ f.todo # << >>

SpfStack ==
    /\ pStack \in Seq(Frames)
    /\ \A i \in DOMAIN pStack : Paid(pStack[i], pLookups)
    /\ \A i \in DOMAIN pStack : i > 1 => pStack[i].todo # << >>

SpfInv == SpfType /\ SpfCount /\ SpfStack

(* What the assumptions on the two limits of SPF and on its records come to.  *)
LEMMA SpfConstants ==
    /\ MaxLookups \in Nat \ {0} /\ MaxDepth \in Nat /\ MaxLookups <= MaxDepth + 1
    /\ Zones \subseteq [Domain -> Policy!Published]
BY PolicyAssumption DEF Policy!SenderPolicyAssumption

(* What the steps do to a stack of records.                                   *)
LEMMA StackTop ==
    ASSUME NEW s \in Seq(Frames), s # << >>
    PROVE  /\ Head(s) \in Frames /\ Head(s) = s[1] /\ 1 \in DOMAIN s
           /\ Tail(s) \in Seq(Frames)
           /\ \A i \in DOMAIN Tail(s) : i + 1 \in DOMAIN s /\ Tail(s)[i] = s[i + 1]
OBVIOUS

(* With a second record on the stack the first can be taken off and leaves    *)
(* one.                                                                       *)
LEMMA StackTwo ==
    ASSUME NEW s \in Seq(Frames), 2 \in DOMAIN s
    PROVE  s # << >> /\ Tail(s) # << >>
<1>1. DOMAIN s = 1..Len(s) /\ Len(s) \in Nat /\ 2 <= Len(s)
  OBVIOUS
<1>2. s # << >>
  BY <1>1
<1>3. Len(Tail(s)) = Len(s) - 1
  BY <1>2
<1>4. Len(Tail(s)) >= 1
  BY <1>1, <1>3
<1>5. Tail(s) \in Seq(Frames)
  BY <1>2
<1>6. Tail(s) # << >>
  <2> DEFINE t == Tail(s)
  <2>1. Len(t) >= 1
    BY <1>4
  <2> HIDE DEF t
  <2>2. t # << >>
    BY <2>1, EmptySeq
  <2>3. QED
    BY <2>2 DEF t
<1>7. QED
  BY <1>2, <1>6

(* A record that is put on the stack is the innermost, the others move down.  *)
LEMMA StackPut ==
    ASSUME NEW s \in Seq(Frames), NEW f \in Frames
    PROVE  /\ <<f>> \o s \in Seq(Frames)
           /\ \A i \in DOMAIN (<<f>> \o s) :
                  IF i = 1 THEN (<<f>> \o s)[i] = f
                  ELSE i - 1 \in DOMAIN s /\ (<<f>> \o s)[i] = s[i - 1]
OBVIOUS

(* A query more takes nothing away from what is paid for.                     *)
LEMMA PaidMore ==
    ASSUME NEW f \in Frames, NEW m \in Nat, NEW n \in Nat, m <= n, Paid(f, m)
    PROVE  Paid(f, n)
BY DEF Frames, Paid

(* A frame is put in the place of the innermost, or the stack is left alone.  *)
LEMMA SpfReplaced ==
    ASSUME SpfInv, pLookups' \in Nat, pLookups <= pLookups', pStack # << >>,
           \/ pStack' = pStack
           \/ \E f \in Frames : pStack' = <<f>> \o Tail(pStack) /\ Paid(f, pLookups')
    PROVE  SpfStack'
<1>1. pStack \in Seq(Frames) /\ pLookups \in Nat
  BY DEF SpfInv, SpfStack, SpfType
<1>2. \A i \in DOMAIN pStack : pStack[i] \in Frames /\ Paid(pStack[i], pLookups')
  <2> SUFFICES ASSUME NEW i \in DOMAIN pStack
               PROVE  pStack[i] \in Frames /\ Paid(pStack[i], pLookups')
    OBVIOUS
  <2>1. pStack[i] \in Frames
    BY <1>1
  <2>2. QED
    BY <1>1, <2>1, PaidMore DEF SpfInv, SpfStack
<1>3. CASE pStack' = pStack
  BY <1>1, <1>2, <1>3 DEF SpfInv, SpfStack
<1>4. CASE \E f \in Frames : pStack' = <<f>> \o Tail(pStack) /\ Paid(f, pLookups')
  <2> PICK f \in Frames : pStack' = <<f>> \o Tail(pStack) /\ Paid(f, pLookups')
    BY <1>4
  <2>1. /\ Tail(pStack) \in Seq(Frames)
        /\ \A i \in DOMAIN Tail(pStack) :
               i + 1 \in DOMAIN pStack /\ Tail(pStack)[i] = pStack[i + 1]
    BY <1>1, StackTop
  <2>2. pStack' \in Seq(Frames)
    BY <2>1, StackPut
  <2>3. ASSUME NEW i \in DOMAIN pStack'
        PROVE  Paid(pStack'[i], pLookups') /\ (i > 1 => pStack'[i].todo # << >>)
    <3>1. CASE i = 1
      BY <2>1, <2>3, <3>1, StackPut
    <3>2. CASE i # 1
      <4>1. i - 1 \in DOMAIN Tail(pStack) /\ pStack'[i] = Tail(pStack)[i - 1]
        BY <2>1, <2>3, <3>2, StackPut
      <4>2. i \in Nat /\ i > 1
        BY <2>2, <2>3, <3>2
      <4>3. i \in DOMAIN pStack /\ pStack'[i] = pStack[i]
        BY <2>1, <4>1, <4>2
      <4>4. QED
        BY <1>2, <4>2, <4>3 DEF SpfInv, SpfStack
    <3>3. QED
      BY <3>1, <3>2
  <2>4. QED
    BY <2>2, <2>3 DEF SpfStack
<1>5. QED
  BY <1>3, <1>4

(* The innermost record, and the term it is at.                               *)
LEMMA SpfTop ==
    ASSUME SpfInv, Policy!Active
    PROVE  /\ pStack # << >> /\ Policy!Top \in Frames
           /\ Paid(Policy!Top, pLookups)
           /\ Policy!Top.todo # << >> => Policy!Term \in Policy!Terms
                                         /\ Tail(Policy!Top.todo) \in Seq(Policy!Terms)
           /\ Policy!Top.hosts # << >> => Tail(Policy!Top.hosts) \in Seq(Domain)
<1>1. pStack # << >> /\ pStack \in Seq(Frames)
  BY DEF Policy!Active, SpfInv, SpfStack
<1>2. Policy!Top \in Frames /\ Paid(Policy!Top, pLookups)
  BY <1>1, StackTop DEF Policy!Top, SpfInv, SpfStack
<1>3. Policy!Top.todo \in Seq(Policy!Terms) /\ Policy!Top.hosts \in Seq(Domain)
  BY <1>2 DEF Frames
<1>4. Policy!Top.todo # << >> => Head(Policy!Top.todo) \in Policy!Terms
                                 /\ Tail(Policy!Top.todo) \in Seq(Policy!Terms)
  BY <1>3
<1>5. Policy!Top.hosts # << >> => Tail(Policy!Top.hosts) \in Seq(Domain)
  BY <1>3
<1>6. QED
  BY <1>1, <1>2, <1>4, <1>5 DEF Policy!Term

(* The next term of a record costs nothing.                                   *)
LEMMA SpfNextTerm ==
    ASSUME NEW f \in Frames, f.todo # << >>, NEW n, Paid(f, n)
    PROVE  Policy!NextTerm(f) \in Frames /\ Paid(Policy!NextTerm(f), n)
<1>1. f.todo \in Seq(Policy!Terms)
  BY DEF Frames
<1>2. Tail(f.todo) \in Seq(Policy!Terms) /\ << >> \in Seq(Domain)
  BY <1>1
<1>3. QED
  BY <1>2 DEF Frames, Paid, Policy!NextTerm

(* A new frame, at the beginning, of an include or of a redirect.             *)
LEMMA SpfNewFrame ==
    ASSUME NEW d \in Domain, NEW n \in Nat, NEW m, n <= m
    PROVE  Policy!Frame(d, n) \in Frames /\ Paid(Policy!Frame(d, n), m)
<1>1. << >> \in Seq(Policy!Terms) /\ << >> \in Seq(Domain)
  OBVIOUS
<1>2. QED
  BY <1>1 DEF Policy!Frame, Frames, Paid

(* A message whose sender is not looked at yet has spent nothing.             *)
LEMMA SpfInit == Policy!Init => SpfInv
<1> SUFFICES ASSUME Policy!Init PROVE SpfInv
  OBVIOUS
<1>1. /\ pLookups = 0 /\ pAsked = 0 /\ pExhausted = FALSE /\ pSender \in Domain
      /\ pZone \in Zones /\ pStack = <<Policy!Frame(pSender, 0)>>
  BY DEF Policy!Init
<1>2. Policy!Frame(pSender, 0) \in Frames /\ Paid(Policy!Frame(pSender, 0), 0)
  BY <1>1, SpfNewFrame
<1> HIDE DEF Policy!Frame
<1>3. SpfStack
  BY <1>1, <1>2 DEF SpfStack
<1>4. SpfType /\ SpfCount
  BY <1>1, SpfConstants DEF SpfType, SpfCount
<1>5. QED
  BY <1>3, <1>4 DEF SpfInv

(* Steps that send no query and have budget left, or do not need any.         *)
LEMMA SpfFree ==
    ASSUME SpfInv, UNCHANGED <<pZone, pSender, pLookups, pAsked, pExhausted>>, SpfStack'
    PROVE  SpfInv'
BY DEF SpfInv, SpfType, SpfCount

(* The budget is spent: only then is an evaluation cut short.                 *)
LEMMA SpfExhaust ==
    ASSUME SpfInv, Policy!Exhaust, UNCHANGED <<pZone, pSender>>, pLookups = MaxLookups
    PROVE  SpfInv'
BY DEF SpfInv, SpfType, SpfCount, SpfStack, Policy!Exhaust

(* A query is sent, and what it answers to changes at most the innermost      *)
(* record.                                                                    *)
LEMMA SpfQuery ==
    ASSUME SpfInv, ~Policy!Spent, Policy!Count, UNCHANGED <<pZone, pSender, pExhausted>>,
           pStack # << >>,
           \/ pStack' = pStack
           \/ \E f \in Frames : Policy!SetTop(f) /\ Paid(f, pLookups + 1)
    PROVE  SpfInv'
<1>1. pLookups' = pLookups + 1 /\ pAsked' = pAsked + 1 /\ pLookups \in Nat
  BY DEF Policy!Count, SpfInv, SpfType
<1>2. SpfStack'
  <2>1. \/ pStack' = pStack
        \/ \E f \in Frames : pStack' = <<f>> \o Tail(pStack) /\ Paid(f, pLookups')
    BY <1>1 DEF Policy!SetTop
  <2>2. pLookups' \in Nat /\ pLookups <= pLookups'
    BY <1>1
  <2>3. QED
    BY <2>1, <2>2, SpfReplaced
<1>3. SpfType' /\ SpfCount'
  BY <1>1, SpfConstants DEF SpfInv, SpfType, SpfCount, Policy!Spent
<1>4. QED
  BY <1>2, <1>3 DEF SpfInv

(* A spent budget is spent exactly.                                           *)
LEMMA SpfSpent == SpfInv /\ Policy!Spent => pLookups = MaxLookups
BY SpfConstants DEF SpfInv, SpfType, SpfCount, Policy!Spent

(* Going on to the next term of a record costs what that term costs.          *)
LEMMA SpfAdvance ==
    ASSUME SpfInv, Policy!Active, Policy!Top.todo # << >>, Policy!Advance, UNCHANGED Policy!given
    PROVE  SpfInv'
<1>1. Policy!NextTerm(Policy!Top) \in Frames /\ Paid(Policy!NextTerm(Policy!Top), pLookups)
  BY SpfTop, SpfNextTerm
<1>2. /\ pStack' = <<Policy!NextTerm(Policy!Top)>> \o Tail(pStack)
      /\ UNCHANGED <<pZone, pSender, pLookups, pAsked, pExhausted>>
  BY DEF Policy!Advance, Policy!SetTop, Policy!given
<1>3. SpfStack'
  <2>1. pLookups' \in Nat /\ pLookups <= pLookups' /\ pLookups' = pLookups
    BY <1>2 DEF SpfInv, SpfType
  <2>2. pStack # << >> /\ Paid(Policy!NextTerm(Policy!Top), pLookups')
    BY <1>1, <2>1, SpfTop
  <2>3. QED
    BY <1>1, <1>2, <2>1, <2>2, SpfReplaced
<1>4. QED
  BY <1>2, <1>3, SpfFree

(* A message that comes finds the budget untouched.                           *)
LEMMA SpfComes ==
    ASSUME SpfInv, NEW r, Policy!Comes(r), UNCHANGED Policy!given
    PROVE  SpfInv'
BY DEF Policy!Comes, Policy!given, SpfInv, SpfType, SpfCount, SpfStack

(* Each step of an evaluation keeps the budget in order.                      *)
LEMMA SpfEvaluate == SpfInv /\ Policy!Evaluate => SpfInv'
<1> SUFFICES ASSUME SpfInv, Policy!Evaluate PROVE SpfInv'
  OBVIOUS
<1>1. CASE Policy!AskTxt
  <2>1. Policy!Active /\ UNCHANGED <<pZone, pSender>> /\ ~Policy!Top.read
    BY <1>1 DEF Policy!AskTxt, Policy!given
  <2>2. pStack # << >> /\ Policy!Top \in Frames /\ Paid(Policy!Top, pLookups)
    BY <2>1, SpfTop
  <2>3. CASE Policy!Spent \/ Policy!Top.depth > MaxDepth
    <3>1. Policy!Exhaust
      BY <1>1, <2>3 DEF Policy!AskTxt
    <3>2. pLookups = MaxLookups
      <4>1. CASE Policy!Spent
        BY <4>1, SpfSpent
      <4>2. CASE Policy!Top.depth > MaxDepth
        BY <2>1, <2>2, <4>2, SpfConstants DEF Paid, Frames, SpfInv, SpfType, SpfCount
      <4>3. QED
        BY <2>3, <4>1, <4>2
    <3>3. QED
      BY <2>1, <3>1, <3>2, SpfExhaust
  <2>4. CASE ~(Policy!Spent \/ Policy!Top.depth > MaxDepth)
    <3>1. /\ Policy!Count /\ UNCHANGED pExhausted
          /\ \/ pStack' = pStack
             \/ \E record \in pZone[Policy!Top.dom].spf :
                    Policy!SetTop([Policy!Top EXCEPT !.read = TRUE, !.todo = record])
      BY <1>1, <2>4 DEF Policy!AskTxt
    <3>2. ASSUME NEW record \in pZone[Policy!Top.dom].spf
          PROVE  /\ [Policy!Top EXCEPT !.read = TRUE, !.todo = record] \in Frames
                 /\ Paid([Policy!Top EXCEPT !.read = TRUE, !.todo = record], pLookups + 1)
      <4>1. record \in Seq(Policy!Terms)
        BY <2>2 DEF Frames, SpfInv, SpfType, Policy!Published
      <4>2. pLookups \in Nat
        BY DEF SpfInv, SpfType
      <4>3. ~Policy!Top.mx
        BY <2>1, <2>2 DEF Paid
      <4> DEFINE t == Policy!Top
                 f == [t EXCEPT !.read = TRUE, !.todo = record]
      <4>4. t \in Frames /\ ~t.mx /\ ~t.read /\ Paid(t, pLookups)
        BY <2>1, <2>2, <4>3
      <4> HIDE DEF t
      <4>5. f \in Frames /\ f.depth = t.depth /\ f.mx = t.mx
        BY <4>1, <4>4 DEF Frames
      <4>6. f.depth + 1 <= pLookups + 1
        BY <4>2, <4>4, <4>5 DEF Paid, Frames
      <4>7. Paid(f, pLookups + 1)
        BY <4>4, <4>5, <4>6 DEF Paid, Frames
      <4>8. QED
        BY <4>5, <4>7 DEF t
    <3>3. QED
      BY <2>1, <2>2, <2>4, <3>1, <3>2, SpfQuery
  <2>5. QED
    BY <2>3, <2>4
<1>2. CASE Policy!SkipTerm
  BY <1>2, SpfAdvance DEF Policy!SkipTerm, Policy!OnTerm
<1>3. CASE Policy!Static
  BY <1>3, SpfAdvance, SpfComes DEF Policy!Static, Policy!OnTerm
<1>4. CASE Policy!MatchA \/ Policy!MatchMx \/ Policy!MxHost
  <2>1. Policy!Active /\ UNCHANGED <<pZone, pSender>>
    BY <1>4 DEF Policy!MatchA, Policy!MatchMx, Policy!MxHost, Policy!OnTerm, Policy!given
  <2>2. pStack # << >> /\ Policy!Top \in Frames /\ Paid(Policy!Top, pLookups)
    BY <2>1, SpfTop
  <2>3. CASE Policy!Spent
    BY <1>4, <2>1, <2>3, SpfSpent, SpfExhaust DEF Policy!MatchA, Policy!MatchMx, Policy!MxHost
  <2>4. CASE ~Policy!Spent
    <3>1. Policy!Count /\ UNCHANGED pExhausted
      BY <1>4, <2>4 DEF Policy!MatchA, Policy!MatchMx, Policy!MxHost
    <3>2. pStack' = pStack \/ \E f \in Frames : Policy!SetTop(f) /\ Paid(f, pLookups)
      <4>1. CASE Policy!MatchA
        <5>1. Policy!NextTerm(Policy!Top) \in Frames /\ Paid(Policy!NextTerm(Policy!Top), pLookups)
          BY <2>2, <4>1, SpfNextTerm DEF Policy!MatchA, Policy!OnTerm
        <5>2. QED
          BY <2>4, <4>1, <5>1 DEF Policy!MatchA
      <4>2. CASE Policy!MatchMx
        <5> DEFINE f == [Policy!Top EXCEPT !.mx = TRUE, !.hosts = pZone[Policy!Term.dom].mx]
        <5>1. Policy!Term \in Policy!Terms
          BY <2>1, <4>2, SpfTop DEF Policy!MatchMx, Policy!OnTerm
        <5>2. pZone[Policy!Term.dom].mx \in Seq(Domain)
          BY <5>1 DEF SpfInv, SpfType, Policy!Published, Policy!Terms
        <5>3. f \in Frames /\ Paid(f, pLookups)
          <6>1. Policy!Top.read /\ Policy!Top.todo # << >>
            BY <4>2 DEF Policy!MatchMx, Policy!OnTerm
          <6>2. QED
            BY <2>2, <5>2, <6>1 DEF Frames, Paid
        <5>4. QED
          BY <2>4, <4>2, <5>3 DEF Policy!MatchMx
      <4>3. CASE Policy!MxHost
        <5> DEFINE f == [Policy!Top EXCEPT !.hosts = Tail(@)]
        <5>1. Tail(Policy!Top.hosts) \in Seq(Domain)
          BY <2>1, <4>3, SpfTop DEF Policy!MxHost
        <5>2. f \in Frames /\ Paid(f, pLookups)
          BY <2>2, <5>1 DEF Frames, Paid
        <5>3. QED
          BY <2>4, <4>3, <5>2 DEF Policy!MxHost
      <4>4. QED
        BY <1>4, <4>1, <4>2, <4>3
    <3>3. pStack' = pStack \/ \E f \in Frames : Policy!SetTop(f) /\ Paid(f, pLookups + 1)
      BY <3>2, PaidMore DEF SpfInv, SpfType
    <3>4. QED
      BY <2>1, <2>2, <2>4, <3>1, <3>3, SpfQuery
  <2>5. QED
    BY <2>3, <2>4
<1>5. CASE Policy!MxNone
  <2>1. Policy!Active /\ Policy!Top.mx
    BY <1>5 DEF Policy!MxNone
  <2>2. Policy!Top.todo # << >>
    BY <2>1, SpfTop DEF Paid
  <2>3. QED
    BY <1>5, <2>1, <2>2, SpfAdvance DEF Policy!MxNone
<1>6. CASE Policy!Include
  <2>1. Policy!Active /\ UNCHANGED <<pZone, pSender>> /\ Policy!Top.todo # << >>
    BY <1>6 DEF Policy!Include, Policy!OnTerm, Policy!given
  <2>2. CASE Policy!Spent
    BY <1>6, <2>1, <2>2, SpfSpent, SpfExhaust DEF Policy!Include
  <2>3. CASE ~Policy!Spent
    <3> DEFINE f == Policy!Frame(Policy!Term.dom, 0)
    <3>1. /\ pStack' = <<f>> \o pStack /\ UNCHANGED <<pLookups, pAsked, pExhausted>>
      BY <1>6, <2>3 DEF Policy!Include
    <3>2. f \in Frames /\ Paid(f, pLookups)
      <4>1. Policy!Term.dom \in Domain /\ 0 <= pLookups
        BY <2>1, SpfTop DEF Policy!Terms, SpfInv, SpfType
      <4>2. QED
        BY <4>1, SpfNewFrame
    <3> HIDE DEF f
    <3>3. pStack \in Seq(Frames) /\ pStack[1].todo # << >>
      BY <2>1, SpfTop, StackTop DEF SpfInv, SpfStack, Policy!Top
    <3>4. SpfStack'
      <4>1. pStack' \in Seq(Frames)
        BY <3>1, <3>2, <3>3, StackPut
      <4>2. ASSUME NEW i \in DOMAIN pStack'
            PROVE  Paid(pStack'[i], pLookups') /\ (i > 1 => pStack'[i].todo # << >>)
        <5>1. CASE i = 1
          BY <3>1, <3>2, <3>3, <4>2, <5>1, StackPut
        <5>2. CASE i # 1
          <6>1. i - 1 \in DOMAIN pStack /\ pStack'[i] = pStack[i - 1] /\ i \in Nat
            BY <3>1, <3>2, <3>3, <4>1, <4>2, <5>2, StackPut
          <6>2. i - 1 = 1 \/ i - 1 > 1
            BY <3>3, <6>1
          <6>3. QED
            BY <3>1, <3>3, <6>1, <6>2 DEF SpfInv, SpfStack
        <5>3. QED
          BY <5>1, <5>2
      <4>3. QED
        BY <4>1, <4>2 DEF SpfStack
    <3>5. QED
      BY <2>1, <3>1, <3>4, SpfFree
  <2>4. QED
    BY <2>2, <2>3
<1>7. CASE Policy!Return
  <2> DEFINE f == Policy!NextTerm(pStack[2])
             rest == Tail(Tail(pStack))
  <2>1. /\ Len(pStack) > 1 /\ pStack' = <<f>> \o rest
        /\ UNCHANGED <<pZone, pSender, pLookups, pAsked, pExhausted>>
    BY <1>7 DEF Policy!Return, Policy!given
  <2>2. pStack \in Seq(Frames) /\ 2 \in DOMAIN pStack
    BY <2>1 DEF SpfInv, SpfStack
  <2>3. f \in Frames /\ Paid(f, pLookups)
    <3>1. pStack[2] \in Frames /\ pStack[2].todo # << >> /\ Paid(pStack[2], pLookups)
      BY <2>2 DEF SpfInv, SpfStack
    <3>2. QED
      BY <3>1, SpfNextTerm
  <2>4. /\ rest \in Seq(Frames)
        /\ \A i \in DOMAIN rest : i + 2 \in DOMAIN pStack /\ rest[i] = pStack[i + 2]
    <3>1. /\ Tail(pStack) \in Seq(Frames) /\ Tail(pStack) # << >>
          /\ \A i \in DOMAIN Tail(pStack) :
                 i + 1 \in DOMAIN pStack /\ Tail(pStack)[i] = pStack[i + 1]
      BY <2>1, <2>2, StackTop, StackTwo
    <3>2. /\ rest \in Seq(Frames)
          /\ \A i \in DOMAIN rest :
                 i + 1 \in DOMAIN Tail(pStack) /\ rest[i] = Tail(pStack)[i + 1]
      BY <3>1, StackTop
    <3>3. \A i \in DOMAIN rest : i \in Nat /\ (i + 1) + 1 = i + 2
      BY <3>2
    <3>4. QED
      BY <3>1, <3>2, <3>3
  <2> HIDE DEF f, rest
  <2>5. SpfStack'
    <3>1. pStack' \in Seq(Frames)
      BY <2>1, <2>3, <2>4, StackPut
    <3>2. ASSUME NEW i \in DOMAIN pStack'
          PROVE  Paid(pStack'[i], pLookups') /\ (i > 1 => pStack'[i].todo # << >>)
      <4>1. CASE i = 1
        BY <2>1, <2>3, <2>4, <3>2, <4>1, StackPut
      <4>2. CASE i # 1
        <5>1. i - 1 \in DOMAIN rest /\ pStack'[i] = rest[i - 1] /\ i \in Nat
          BY <2>1, <2>3, <2>4, <3>1, <3>2, <4>2, StackPut
        <5>2. i + 1 \in DOMAIN pStack /\ pStack'[i] = pStack[i + 1] /\ i + 1 > 1
          <6>1. (i - 1) + 2 = i + 1 /\ i - 1 >= 1
            BY <2>4, <5>1
          <6>2. QED
            BY <2>4, <5>1, <6>1
        <5>3. QED
          BY <2>1, <5>2 DEF SpfInv, SpfStack
      <4>3. QED
        BY <4>1, <4>2
    <3>3. QED
      BY <3>1, <3>2 DEF SpfStack
  <2>6. QED
    BY <2>1, <2>5, SpfFree
<1>8. CASE Policy!Redirect
  <2> DEFINE f == [Policy!NextTerm(Policy!Top) EXCEPT !.redirect = {Policy!Term.dom}]
  <2>1. /\ Policy!Active /\ Policy!Top.todo # << >>
        /\ UNCHANGED <<pZone, pSender, pLookups, pAsked, pExhausted>>
        /\ pStack' = <<f>> \o Tail(pStack)
    BY <1>8 DEF Policy!Redirect, Policy!OnTerm, Policy!given, Policy!SetTop
  <2>2. Policy!NextTerm(Policy!Top) \in Frames /\ Paid(Policy!NextTerm(Policy!Top), pLookups)
    BY <2>1, SpfTop, SpfNextTerm
  <2>3. Policy!Term.dom \in Domain
    BY <2>1, SpfTop DEF Policy!Terms
  <2>4. f \in Frames /\ Paid(f, pLookups')
    BY <2>1, <2>2, <2>3 DEF Frames, Paid
  <2> HIDE DEF f
  <2>5. SpfStack'
    BY <2>1, <2>4, SpfTop, SpfReplaced DEF SpfInv, SpfType
  <2>6. QED
    BY <2>1, <2>5, SpfFree
<1>9. CASE Policy!EndOfRecord
  <2>1. Policy!Active /\ UNCHANGED Policy!given /\ Policy!Top.read
    BY <1>9 DEF Policy!EndOfRecord
  <2>2. CASE Policy!Top.redirect = {}
    BY <1>9, <2>1, <2>2, SpfComes DEF Policy!EndOfRecord
  <2>3. CASE Policy!Top.redirect # {} /\ Policy!Spent
    BY <1>9, <2>1, <2>3, SpfSpent, SpfExhaust DEF Policy!EndOfRecord, Policy!given
  <2>4. CASE Policy!Top.redirect # {} /\ ~Policy!Spent
    <3>1. PICK d \in Policy!Top.redirect :
              /\ pStack' = <<Policy!Frame(d, Policy!Top.depth + 1)>> \o Tail(pStack)
              /\ UNCHANGED <<pLookups, pAsked, pExhausted>>
      BY <1>9, <2>4 DEF Policy!EndOfRecord, Policy!SetTop
    <3>2. d \in Domain /\ Policy!Top.depth + 1 \in Nat /\ Policy!Top.depth + 1 <= pLookups
      BY <2>1, SpfTop DEF Frames, Paid
    <3> DEFINE f == Policy!Frame(d, Policy!Top.depth + 1)
    <3>3. f \in Frames /\ Paid(f, pLookups')
      BY <3>1, <3>2, SpfNewFrame
    <3> HIDE DEF f
    <3>4. SpfStack'
      <4>1. pStack' = <<f>> \o Tail(pStack)
        BY <3>1 DEF f
      <4>2. pLookups' = pLookups /\ pLookups \in Nat /\ pLookups <= pLookups'
        BY <3>1 DEF SpfInv, SpfType
      <4>3. QED
        BY <2>1, <3>3, <4>1, <4>2, SpfTop, SpfReplaced
    <3>5. QED
      BY <2>1, <3>1, <3>4, SpfFree DEF Policy!given
  <2>5. QED
    BY <2>2, <2>3, <2>4
<1>10. QED
  BY <1>1, <1>2, <1>3, <1>4, <1>5, <1>6, <1>7, <1>8, <1>9 DEF Policy!Evaluate

(* Once SPF has its result the budget is as good as new.                      *)
LEMMA SpfStep == SpfInv /\ Policy!Next => SpfInv'
<1> SUFFICES ASSUME SpfInv, Policy!Next PROVE SpfInv'
  OBVIOUS
<1>1. CASE Policy!Evaluate
  BY <1>1, SpfEvaluate
<1>2. CASE Policy!SpfDone
  <2>1. /\ pStack' = << >> /\ pZone' = Policy!Nothing /\ pSender' = pSender
        /\ pLookups' = 0 /\ pAsked' = 0 /\ pExhausted' = FALSE
    BY <1>2 DEF Policy!SpfDone
  <2>2. Policy!Nothing \in [Domain -> Policy!Published]
    <3>1. {} \in SUBSET Seq(Policy!Terms) /\ {} \in SUBSET Policy!Addr /\ << >> \in Seq(Domain)
      OBVIOUS
    <3>2. QED
      BY <3>1 DEF Policy!Nothing, Policy!Published
  <2>3. SpfStack'
    BY <2>1 DEF SpfStack
  <2>4. SpfType' /\ SpfCount'
    BY <2>1, <2>2, SpfConstants DEF SpfInv, SpfType, SpfCount
  <2>5. QED
    BY <2>3, <2>4 DEF SpfInv
<1>3. CASE Policy!Verify \/ Policy!Evaluated \/ Policy!Decide \/ Policy!Rest
  <2>1. UNCHANGED <<pZone, pSender, pStack, pLookups, pAsked, pExhausted>>
    BY <1>3 DEF Policy!Verify, Policy!Evaluated, Policy!Decide, Policy!Rest, Policy!given,
                Policy!vars
  <2>2. QED
    BY <2>1 DEF SpfInv, SpfType, SpfCount, SpfStack
<1>4. QED
  BY <1>1, <1>2, <1>3 DEF Policy!Next

(* The invariant of SPF in every behaviour of the sum.                        *)
LEMMA SpfInvariant == NetworkSpec => []SpfInv
<1>1. NetworkInit => SpfInv
  BY SpfInit DEF NetworkInit
<1>2. SpfInv /\ [NetworkNext]_allVars => SpfInv'
  <2>1. ASSUME SpfInv, UNCHANGED pVars PROVE SpfInv'
    BY <2>1 DEF pVars, SpfInv, SpfType, SpfCount, SpfStack
  <2>2. QED
    BY <2>1, SpfStep DEF NetworkNext, allVars
<1>3. QED
  BY <1>1, <1>2, PTL DEF NetworkSpec, allVars

(* However records refer to each other, also in circles, no more queries are  *)
(* sent than the budget allows, and nothing but a spent budget cuts an        *)
(* evaluation short: the limit on redirects never does (the first part of     *)
(* SpfMeant).                                                                 *)
THEOREM SpfKeepsBudget == NetworkSpec => []Policy!WithinBudget
<1>1. SpfInv => Policy!WithinBudget
  BY DEF SpfInv, SpfCount, Policy!WithinBudget
<1>2. QED
  BY <1>1, SpfInvariant, PTL

-------------------------------------------------------------------------------
(* What SPF comes to, every query answered and the budget not spent.          *)

(* A non-empty set of numbers has a least one; what is to be shown of every   *)
(* number below a bound is shown of the least that lacks it.                  *)
LEMMA LeastOf ==
    ASSUME NEW S \in SUBSET Nat, S # {}
    PROVE  \E n \in S : \A m \in S : n <= m
<1>1. PICK n \in S : \A m \in S : <<m, n>> \notin OpToRel(<, Nat)
  BY WFMin, NatLessThanWellFounded, Zenon
<1>2. \A m \in S : ~(m < n)
  <2> SUFFICES ASSUME NEW m \in S, m < n PROVE FALSE
    OBVIOUS
  <2>1. <<m, n>> \in OpToRel(<, Nat)
    BY Zenon DEF OpToRel
  <2>2. QED
    BY <1>1, <2>1, Zenon
<1>3. QED
  BY <1>2

(* The meaning of records n deep is what they make of their meaning n - 1     *)
(* deep: the recursion has a solution.                                        *)
LEMMA Recursion ==
    ASSUME NEW zn
    PROVE  /\ Policy!Meant(zn)[0] = [d \in Domain |-> "permerror"]
           /\ \A n \in 1..MaxLookups :
                  Policy!Meant(zn)[n] = Policy!OneDeeper(zn, Policy!Meant(zn)[n - 1])
<1> DEFINE zero == [d \in Domain |-> "permerror"]
           More(g) == Policy!OneDeeper(zn, g)
           Solves(f, n) == f = [k \in 0..n |-> IF k = 0 THEN zero ELSE More(f[k - 1])]
           Lacking == {n \in Nat : ~ \E f : Solves(f, n)}
<1>1. Policy!Meant(zn) = CHOOSE f : Solves(f, MaxLookups)
  BY DEF Policy!Meant
<1> HIDE DEF zero, More
<1>2. Solves([k \in {0} |-> zero], 0)
  <2>1. 0..0 = {0}
    OBVIOUS
  <2>2. QED
    BY <2>1
<1>3. ASSUME NEW n \in Nat, NEW f, Solves(f, n)
      PROVE  \E g : Solves(g, n + 1)
  <2> DEFINE g == [k \in 0..(n + 1) |-> IF k = n + 1 THEN More(f[n]) ELSE f[k]]
  <2>1. \A k \in 0..n : f[k] = IF k = 0 THEN zero ELSE More(f[k - 1])
    BY <1>3
  <2>2. ASSUME NEW k \in 0..(n + 1)
        PROVE  g[k] = IF k = 0 THEN zero ELSE More(g[k - 1])
    <3>1. CASE k = n + 1
      <4>1. k # 0 /\ k - 1 = n /\ n \in 0..(n + 1) /\ n # n + 1
        BY <3>1
      <4>2. g[k - 1] = f[n] /\ g[k] = More(f[n])
        BY <3>1, <4>1
      <4>3. QED
        BY <4>1, <4>2
    <3>2. CASE k # n + 1 /\ k # 0
      <4>1. k \in 0..n /\ k - 1 \in 0..(n + 1) /\ k - 1 # n + 1
        BY <3>2
      <4>2. g[k - 1] = f[k - 1] /\ g[k] = f[k]
        BY <3>2, <4>1
      <4>3. QED
        BY <2>1, <3>2, <4>1, <4>2
    <3>3. CASE k = 0
      <4>1. k \in 0..n /\ k # n + 1
        BY <3>3
      <4>2. g[k] = f[k]
        BY <4>1
      <4>3. QED
        BY <2>1, <3>3, <4>1, <4>2
    <3>4. QED
      BY <3>1, <3>2, <3>3
  <2>3. g = [k \in 0..(n + 1) |-> g[k]]
    OBVIOUS
  <2> HIDE DEF g
  <2>4. Solves(g, n + 1)
    BY <2>2, <2>3
  <2>5. QED
    BY <2>4
<1>4. Lacking = {}
  <2> SUFFICES ASSUME Lacking # {} PROVE FALSE
    OBVIOUS
  <2>1. PICK n \in Lacking : \A m \in Lacking : n <= m
    <3>1. Lacking \in SUBSET Nat
      OBVIOUS
    <3> HIDE DEF Lacking
    <3>2. QED
      BY <3>1, LeastOf
  <2>2. n \in Nat /\ ~ \E f : Solves(f, n)
    BY <2>1
  <2>3. n # 0
    BY <1>2, <2>2
  <2>4. n - 1 \in Nat /\ n - 1 \notin Lacking
    <3>1. n - 1 \in Nat /\ ~(n <= n - 1)
      BY <2>2, <2>3
    <3> HIDE DEF Lacking
    <3>2. QED
      BY <2>1, <3>1
  <2>5. PICK f : Solves(f, n - 1)
    BY <2>4
  <2>6. \E g : Solves(g, (n - 1) + 1)
    BY <1>3, <2>4, <2>5
  <2>7. (n - 1) + 1 = n
    BY <2>2
  <2>8. QED
    BY <2>2, <2>6, <2>7
<1>5. Solves(Policy!Meant(zn), MaxLookups)
  <2>1. \E f : Solves(f, MaxLookups)
    BY <1>4, SpfConstants
  <2>2. QED
    BY <1>1, <2>1
<1> DEFINE h == Policy!Meant(zn)
<1>6. \A k \in 0..MaxLookups : h[k] = IF k = 0 THEN zero ELSE More(h[k - 1])
  <2>1. h = [k \in 0..MaxLookups |-> IF k = 0 THEN zero ELSE More(h[k - 1])]
    BY <1>5
  <2> HIDE DEF h
  <2>2. QED
    BY <2>1
<1>7. \A n \in 1..MaxLookups : n \in 0..MaxLookups /\ n # 0
  BY SpfConstants
<1>8. 0 \in 0..MaxLookups
  BY SpfConstants
<1>9. h[0] = zero
  BY <1>6, <1>8
<1>10. \A n \in 1..MaxLookups : h[n] = More(h[n - 1])
  BY <1>6, <1>7
<1>11. QED
  BY <1>9, <1>10 DEF zero, More

(* What single terms decide.                                                  *)
LEMMA Deciding ==
    ASSUME NEW zn, NEW D, NEW t \in Policy!Terms
    PROVE  /\ t.q # Policy!Unknown
           /\ t.mech \in {"skip", "redirect"} => Policy!Decides(zn, D, t) = Policy!Unknown
           /\ t.mech = "bad" => Policy!Decides(zn, D, t) = "permerror"
           /\ t.mech = "all" => Policy!Decides(zn, D, t) = t.q
           /\ t.mech = "ip" =>
                  Policy!Decides(zn, D, t) =
                      IF Policy!InNetwork(Client, t.net, t.len) THEN t.q ELSE Policy!Unknown
           /\ t.mech = "a" =>
                  Policy!Decides(zn, D, t) =
                      IF \E a \in zn[t.dom].addrs : Policy!InNetwork(Client, a, t.len)
                      THEN t.q ELSE Policy!Unknown
           /\ t.mech = "mx" =>
                  Policy!Decides(zn, D, t) =
                      IF \E i \in DOMAIN zn[t.dom].mx : \E a \in zn[zn[t.dom].mx[i]].addrs :
                             Policy!InNetwork(Client, a, t.len)
                      THEN t.q ELSE Policy!Unknown
           /\ t.mech = "include" =>
                  Policy!Decides(zn, D, t) = Policy!Included(t.q, D[t.dom])
<1>1. t.q # Policy!Unknown /\ t.mech \in {"all", "ip", "a", "mx", "include", "redirect", "skip", "bad"}
  <2>1. t.q \in {"pass", "fail", "softfail", "neutral"}
    BY DEF Policy!Terms
  <2>2. t.q # Policy!Unknown
    BY <2>1 DEF Policy!Unknown
  <2>3. QED
    BY <2>2 DEF Policy!Terms
<1>2. CASE t.mech \in {"skip", "redirect"}
  BY <1>1, <1>2 DEF Policy!Decides
<1>3. CASE t.mech = "bad"
  BY <1>1, <1>3 DEF Policy!Decides
<1>4. CASE t.mech = "all"
  BY <1>1, <1>4 DEF Policy!Decides
<1>5. CASE t.mech = "ip"
  BY <1>1, <1>5 DEF Policy!Decides
<1>6. CASE t.mech = "a"
  BY <1>1, <1>6 DEF Policy!Decides
<1>7. CASE t.mech = "mx"
  BY <1>1, <1>7 DEF Policy!Decides
<1>8. CASE t.mech = "include"
  BY <1>1, <1>8 DEF Policy!Decides, Policy!Included
<1>9. QED
  BY <1>1, <1>2, <1>5, <1>6, <1>7, <1>8, <1>3, <1>4

(* What is published is one record.                                           *)
LEMMA RecordOf ==
    ASSUME NEW zn, NEW D, NEW d \in Domain, NEW rec, zn[d].spf = {rec}
    PROVE  Policy!OneDeeper(zn, D)[d] = Policy!RecordMeans(zn, D, rec)
<1>1. (CHOOSE r \in zn[d].spf : TRUE) = rec /\ zn[d].spf # {}
  OBVIOUS
<1>2. Policy!OneDeeper(zn, D)[d] =
          IF zn[d].spf = {} THEN "none"
          ELSE Policy!RecordMeans(zn, D, CHOOSE r \in zn[d].spf : TRUE)
  BY DEF Policy!OneDeeper
<1>3. QED
  BY <1>1, <1>2

LEMMA NoRecordOf ==
    ASSUME NEW zn, NEW D, NEW d \in Domain, zn[d].spf = {}
    PROVE  Policy!OneDeeper(zn, D)[d] = "none"
BY DEF Policy!OneDeeper

(* The first term of a record that decides anything is what it comes to.      *)
LEMMA Decided ==
    ASSUME NEW zn, NEW D, NEW d \in Domain, NEW rec \in Seq(Policy!Terms), zn[d].spf = {rec},
           NEW p \in DOMAIN rec, Policy!Decides(zn, D, rec[p]) # Policy!Unknown,
           \A j \in 1..(p - 1) : Policy!Decides(zn, D, rec[j]) = Policy!Unknown
    PROVE  Policy!OneDeeper(zn, D)[d] = Policy!Decides(zn, D, rec[p])
<1> DEFINE telling == {i \in DOMAIN rec : Policy!Decides(zn, D, rec[i]) # Policy!Unknown}
           first == CHOOSE i \in telling : \A j \in telling : i <= j
<1>1. Policy!OneDeeper(zn, D)[d] = Policy!RecordMeans(zn, D, rec)
  BY RecordOf
<1>2. telling # {} => Policy!RecordMeans(zn, D, rec) = Policy!Decides(zn, D, rec[first])
  BY DEF Policy!RecordMeans
<1>3. DOMAIN rec \subseteq Nat \ {0} /\ p \in Nat
  OBVIOUS
<1>4. p \in telling /\ \A j \in telling : p <= j
  <2>1. ASSUME NEW j \in telling, j < p PROVE FALSE
    BY <1>3, <2>1
  <2>2. QED
    BY <1>3, <2>1
<1>5. first \in telling /\ first <= p
  BY <1>4
<1>6. first = p
  BY <1>3, <1>4, <1>5
<1>7. telling # {} /\ rec[first] = rec[p]
  BY <1>4, <1>6
<1> HIDE DEF telling, first
<1>8. QED
  BY <1>1, <1>2, <1>7

(* A record of which no term decides comes to what its last redirect leads    *)
(* to, or to neutral.                                                         *)
LEMMA Undecided ==
    ASSUME NEW zn, NEW D, NEW d \in Domain, NEW rec \in Seq(Policy!Terms), zn[d].spf = {rec},
           \A j \in DOMAIN rec : Policy!Decides(zn, D, rec[j]) = Policy!Unknown
    PROVE  /\ (\A j \in DOMAIN rec : rec[j].mech # "redirect")
                => Policy!OneDeeper(zn, D)[d] = "neutral"
           /\ \A i \in DOMAIN rec :
                  rec[i].mech = "redirect"
                  /\ (\A j \in (i + 1)..Len(rec) : rec[j].mech # "redirect")
                     => Policy!OneDeeper(zn, D)[d] = D[rec[i].dom]
<1> DEFINE onward == {i \in DOMAIN rec : rec[i].mech = "redirect"}
           last == CHOOSE i \in onward : \A j \in onward : j <= i
<1>1. Policy!OneDeeper(zn, D)[d] = Policy!RecordMeans(zn, D, rec)
  BY RecordOf
<1>2. {i \in DOMAIN rec : Policy!Decides(zn, D, rec[i]) # Policy!Unknown} = {}
  OBVIOUS
<1>3. Policy!OneDeeper(zn, D)[d] = IF onward # {} THEN D[rec[last].dom] ELSE "neutral"
  BY <1>1, <1>2 DEF Policy!RecordMeans
<1>4. DOMAIN rec = 1..Len(rec) /\ Len(rec) \in Nat
  OBVIOUS
<1>5. ASSUME NEW i \in DOMAIN rec, rec[i].mech = "redirect",
             \A j \in (i + 1)..Len(rec) : rec[j].mech # "redirect"
      PROVE  Policy!OneDeeper(zn, D)[d] = D[rec[i].dom]
  <2>1. i \in onward /\ \A j \in onward : j <= i
    <3>1. ASSUME NEW j \in onward, j > i PROVE FALSE
      BY <1>4, <1>5, <3>1
    <3>2. QED
      BY <1>4, <1>5, <3>1
  <2>2. last \in onward /\ i <= last
    BY <2>1
  <2>3. last = i
    BY <1>4, <2>1, <2>2
  <2>4. QED
    BY <1>3, <2>1, <2>3
<1>6. (\A j \in DOMAIN rec : rec[j].mech # "redirect") => onward = {}
  OBVIOUS
<1>7. QED
  BY <1>3, <1>5, <1>6

(* What a record under evaluation, n records before the deepest, comes to if  *)
(* nothing intervenes.                                                        *)
Mean(zn, f, n) == Policy!Meant(zn)[n][f.dom]

(* The exchanges of the term that f is at were looked up in order, and those  *)
(* before the next have no address that matches.                              *)
MxPassed(zn, f) ==
    /\ Head(f.todo).mech = "mx"
    /\ LET mx == zn[Head(f.todo).dom].mx
           q  == Len(mx) - Len(f.hosts)
       IN  /\ q >= 0
           /\ \A j \in 1..Len(f.hosts) : f.hosts[j] = mx[q + j]
           /\ \A j \in 1..q : ~ \E a \in zn[mx[j]].addrs :
                 Policy!InNetwork(Client, a, Head(f.todo).len)

(* What is still to do is the end of the record; no term before it decides,   *)
(* and the redirect that is remembered is the last of those.                  *)
PassedTo(zn, f, n, rec, p) ==
    /\ p >= 0
    /\ \A j \in 1..Len(f.todo) : f.todo[j] = rec[p + j]
    /\ \A j \in 1..p : Policy!Decides(zn, Policy!Meant(zn)[n - 1], rec[j]) = Policy!Unknown
    /\ \/ f.redirect = {} /\ \A j \in 1..p : rec[j].mech # "redirect"
       \/ \E i \in 1..p : /\ rec[i].mech = "redirect" /\ f.redirect = {rec[i].dom}
                          /\ \A j \in (i + 1)..p : rec[j].mech # "redirect"
    /\ f.mx => MxPassed(zn, f)

Passed(zn, f, n) ==
    \E rec \in zn[f.dom].spf : PassedTo(zn, f, n, rec, Len(rec) - Len(f.todo))

(* f waits at an include for a record that comes to r.                        *)
Waits(zn, f, n, r) ==
    /\ f.read /\ f.todo # << >> /\ ~f.mx /\ Head(f.todo).mech = "include"
    /\ r = Policy!Meant(zn)[n - 1][Head(f.todo).dom]

(* Each record on the stack may go as deep as the budget that was left when   *)
(* it was entered; each, followed on, comes to what the one below waits for,  *)
(* and the outermost to what the sender's record means.                       *)
Follow(zn, s, fuel, m, r, d) ==
    /\ \A i \in DOMAIN s : fuel[i] + m >= MaxLookups + (IF s[i].read THEN 1 ELSE 0)
    /\ \A i \in DOMAIN s : ~s[i].read => s[i].redirect = {}
    /\ \A i \in DOMAIN s :
           s[i].read /\ (i > 1 \/ r = Policy!Unknown) => Passed(zn, s[i], fuel[i])
    /\ \A i \in DOMAIN s :
           i > 1 => Waits(zn, s[i], fuel[i], Mean(zn, s[i - 1], fuel[i - 1]))
    /\ Mean(zn, s[Len(s)], fuel[Len(s)]) = Policy!Meant(zn)[MaxLookups][d]
    /\ r # Policy!Unknown => r = Mean(zn, s[1], fuel[1])

SpfMeans ==
    pPhase = "spf" /\ ~pFailed /\ ~pExhausted =>
        /\ pStack # << >>
        /\ \E fuel \in [DOMAIN pStack -> 0..MaxLookups] :
               Follow(pZone, pStack, fuel, pLookups, pRet, pSender)

(* The record that a domain publishes, and the terms of what is to do.        *)
LEMMA OneRecord ==
    ASSUME NEW zn \in [Domain -> Policy!Published], NEW d \in Domain, NEW rec \in zn[d].spf
    PROVE  rec \in Seq(Policy!Terms) /\ zn[d].spf = {rec}
<1>1. zn[d] \in Policy!Published
  OBVIOUS
<1>2. zn[d].spf \in {s \in SUBSET Seq(Policy!Terms) : \A r1, r2 \in s : r1 = r2}
  BY <1>1 DEF Policy!Published
<1>3. QED
  BY <1>2

(* A sequence that is not empty and the end of another, and its tail.         *)
LEMMA EndOf ==
    ASSUME NEW T, NEW rec \in Seq(T), NEW end \in Seq(T), end # << >>,
           NEW p, p = Len(rec) - Len(end), p >= 0,
           \A j \in 1..Len(end) : end[j] = rec[p + j],
           NEW rest, rest = Tail(end)
    PROVE  /\ p \in Nat /\ p + 1 \in DOMAIN rec /\ Head(end) = rec[p + 1]
           /\ Len(rec) - Len(rest) = p + 1
           /\ \A j \in 1..Len(rest) : rest[j] = rec[(p + 1) + j]
<1>1. Len(rec) \in Nat /\ Len(end) \in Nat /\ Len(end) # 0 /\ DOMAIN rec = 1..Len(rec)
  BY EmptySeq
<1>2. p \in Nat /\ p + 1 \in DOMAIN rec /\ 1 \in 1..Len(end)
  BY <1>1
<1>3. Head(end) = end[1] /\ end[1] = rec[p + 1]
  BY <1>2
<1>4. Len(rest) = Len(end) - 1 /\ \A j \in 1..Len(rest) : rest[j] = end[j + 1]
  BY <1>1
<1>5. Len(rec) - Len(rest) = p + 1
  BY <1>1, <1>4
<1>6. ASSUME NEW j \in 1..Len(rest) PROVE rest[j] = rec[(p + 1) + j]
  <2>1. j + 1 \in 1..Len(end) /\ p + (j + 1) = (p + 1) + j
    BY <1>1, <1>2, <1>4
  <2>2. end[j + 1] = rec[p + (j + 1)]
    BY <2>1
  <2>3. QED
    BY <1>4, <2>1, <2>2
<1>7. QED
  BY <1>2, <1>3, <1>5, <1>6

(* A term that decides ends the record.                                       *)
LEMMA TopDecides ==
    ASSUME NEW zn \in [Domain -> Policy!Published], NEW f \in Frames, NEW n \in 1..MaxLookups,
           Passed(zn, f, n), f.todo # << >>,
           Policy!Decides(zn, Policy!Meant(zn)[n - 1], Head(f.todo)) # Policy!Unknown
    PROVE  Mean(zn, f, n) = Policy!Decides(zn, Policy!Meant(zn)[n - 1], Head(f.todo))
<1> DEFINE D == Policy!Meant(zn)[n - 1]
<1>1. f.dom \in Domain /\ f.todo \in Seq(Policy!Terms)
  BY DEF Frames
<1>2. PICK rec \in zn[f.dom].spf : PassedTo(zn, f, n, rec, Len(rec) - Len(f.todo))
  BY DEF Passed
<1>3. rec \in Seq(Policy!Terms) /\ zn[f.dom].spf = {rec}
  BY <1>1, OneRecord
<1>4. PICK p : p = Len(rec) - Len(f.todo)
  OBVIOUS
<1>5. /\ p >= 0 /\ \A j \in 1..Len(f.todo) : f.todo[j] = rec[p + j]
      /\ \A j \in 1..p : Policy!Decides(zn, D, rec[j]) = Policy!Unknown
  BY <1>2, <1>4 DEF PassedTo
<1>6. p \in Nat /\ p + 1 \in DOMAIN rec /\ Head(f.todo) = rec[p + 1]
  <2>1. PICK end : end = f.todo
    OBVIOUS
  <2>2. /\ end \in Seq(Policy!Terms) /\ end # << >> /\ p = Len(rec) - Len(end)
        /\ \A j \in 1..Len(end) : end[j] = rec[p + j]
    BY <1>1, <1>4, <1>5, <2>1
  <2>3. rec \in Seq(Policy!Terms) /\ p >= 0
    BY <1>3, <1>5
  <2>4. p \in Nat /\ p + 1 \in DOMAIN rec /\ Head(end) = rec[p + 1]
    BY <2>2, <2>3, EndOf
  <2>5. QED
    BY <2>1, <2>4
<1>7. \A j \in 1..((p + 1) - 1) : Policy!Decides(zn, D, rec[j]) = Policy!Unknown
  <2>1. (p + 1) - 1 = p
    BY <1>6
  <2>2. QED
    BY <1>5, <2>1
<1>8. Mean(zn, f, n) = Policy!OneDeeper(zn, D)[f.dom]
  BY Recursion DEF Mean
<1>9. Policy!Decides(zn, D, rec[p + 1]) # Policy!Unknown
  BY <1>6
<1> HIDE DEF D
<1>10. Policy!OneDeeper(zn, D)[f.dom] = Policy!Decides(zn, D, rec[p + 1])
  BY <1>1, <1>3, <1>6, <1>7, <1>9, Decided
<1>11. QED
  BY <1>6, <1>8, <1>10 DEF D

(* A term that does not decide is passed.                                     *)
LEMMA TopPasses ==
    ASSUME NEW zn \in [Domain -> Policy!Published], NEW f \in Frames, NEW n \in 1..MaxLookups,
           Passed(zn, f, n), f.todo # << >>,
           Policy!Decides(zn, Policy!Meant(zn)[n - 1], Head(f.todo)) = Policy!Unknown
    PROVE  /\ Head(f.todo).mech # "redirect" => Passed(zn, Policy!NextTerm(f), n)
           /\ Head(f.todo).mech = "redirect" =>
                  Passed(zn, [Policy!NextTerm(f) EXCEPT !.redirect = {Head(f.todo).dom}], n)
<1> DEFINE D == Policy!Meant(zn)[n - 1]
<1>1. f.dom \in Domain /\ f.todo \in Seq(Policy!Terms)
  BY DEF Frames
<1>2. PICK rec \in zn[f.dom].spf : PassedTo(zn, f, n, rec, Len(rec) - Len(f.todo))
  BY DEF Passed
<1>3. rec \in Seq(Policy!Terms)
  BY <1>1, OneRecord
<1> DEFINE t == Tail(f.todo)
<1>4. PICK p : p = Len(rec) - Len(f.todo)
  OBVIOUS
<1>5. /\ p >= 0 /\ \A j \in 1..Len(f.todo) : f.todo[j] = rec[p + j]
      /\ \A j \in 1..p : Policy!Decides(zn, D, rec[j]) = Policy!Unknown
      /\ \/ f.redirect = {} /\ \A j \in 1..p : rec[j].mech # "redirect"
         \/ \E i \in 1..p : /\ rec[i].mech = "redirect" /\ f.redirect = {rec[i].dom}
                            /\ \A j \in (i + 1)..p : rec[j].mech # "redirect"
  BY <1>2, <1>4 DEF PassedTo
<1>6. /\ p \in Nat /\ Head(f.todo) = rec[p + 1]
      /\ Len(rec) - Len(t) = p + 1
      /\ \A j \in 1..Len(t) : t[j] = rec[(p + 1) + j]
  <2>1. PICK end : end = f.todo
    OBVIOUS
  <2>2. /\ end \in Seq(Policy!Terms) /\ end # << >> /\ p = Len(rec) - Len(end)
        /\ \A j \in 1..Len(end) : end[j] = rec[p + j]
    BY <1>1, <1>4, <1>5, <2>1
  <2>3. rec \in Seq(Policy!Terms) /\ p >= 0
    BY <1>3, <1>5
  <2>4. PICK rest : rest = Tail(end)
    OBVIOUS
  <2>5. /\ p \in Nat /\ Head(end) = rec[p + 1] /\ Len(rec) - Len(rest) = p + 1
        /\ \A j \in 1..Len(rest) : rest[j] = rec[(p + 1) + j]
    BY <2>2, <2>3, <2>4, EndOf
  <2>6. t = rest
    BY <2>1, <2>4
  <2>7. QED
    BY <2>1, <2>5, <2>6
<1> HIDE DEF t, D
<1>7. p + 1 >= 0 /\ \A j \in 1..(p + 1) : j \in 1..p \/ j = p + 1
  BY <1>6
<1>8. \A j \in 1..(p + 1) : Policy!Decides(zn, D, rec[j]) = Policy!Unknown
  BY <1>5, <1>7, <1>6 DEF D
<1>9. ASSUME NEW g, g.dom = f.dom, g.todo = t, ~g.mx,
             \/ g.redirect = {} /\ \A j \in 1..(p + 1) : rec[j].mech # "redirect"
             \/ \E i \in 1..(p + 1) : /\ rec[i].mech = "redirect" /\ g.redirect = {rec[i].dom}
                                      /\ \A j \in (i + 1)..(p + 1) : rec[j].mech # "redirect"
      PROVE  Passed(zn, g, n)
  <2>1. rec \in zn[g.dom].spf /\ Len(rec) - Len(g.todo) = p + 1
    BY <1>2, <1>9, <1>6
  <2>2. PassedTo(zn, g, n, rec, p + 1)
    BY <1>7, <1>8, <1>9, <1>6 DEF PassedTo, D
  <2>3. QED
    BY <2>1, <2>2 DEF Passed
<1> DEFINE g == Policy!NextTerm(f)
<1>10. g.dom = f.dom /\ g.todo = t /\ ~g.mx /\ g.redirect = f.redirect
  BY DEF Policy!NextTerm, Frames, t
<1>11. CASE Head(f.todo).mech # "redirect"
  <2>1. CASE g.redirect = {} /\ \A j \in 1..p : rec[j].mech # "redirect"
    BY <1>6, <1>7, <1>9, <1>10, <1>11, <2>1
  <2>2. CASE \E i \in 1..p : /\ rec[i].mech = "redirect" /\ g.redirect = {rec[i].dom}
                             /\ \A j \in (i + 1)..p : rec[j].mech # "redirect"
    <3>1. PICK i \in 1..p : /\ rec[i].mech = "redirect" /\ g.redirect = {rec[i].dom}
                            /\ \A j \in (i + 1)..p : rec[j].mech # "redirect"
      BY <2>2
    <3>2. i \in 1..(p + 1) /\ \A j \in (i + 1)..(p + 1) : j \in (i + 1)..p \/ j = p + 1
      BY <1>6
    <3>3. \A j \in (i + 1)..(p + 1) : rec[j].mech # "redirect"
      BY <1>6, <1>11, <3>1, <3>2
    <3>4. QED
      BY <1>9, <1>10, <1>11, <3>1, <3>2, <3>3
  <2>3. QED
    BY <1>5, <1>10, <2>1, <2>2
<1>12. CASE Head(f.todo).mech = "redirect"
  <2> DEFINE h == [g EXCEPT !.redirect = {Head(f.todo).dom}]
  <2>1. h.dom = f.dom /\ h.todo = t /\ ~h.mx /\ h.redirect = {rec[p + 1].dom}
    BY <1>6, <1>10 DEF Policy!NextTerm, Frames
  <2>2. p + 1 \in 1..(p + 1) /\ \A j \in ((p + 1) + 1)..(p + 1) : FALSE
    BY <1>6
  <2> HIDE DEF h
  <2>3. Passed(zn, h, n)
    BY <1>6, <1>9, <1>12, <2>1, <2>2
  <2>4. QED
    BY <1>12, <2>3 DEF h
<1>13. QED
  BY <1>11, <1>12

(* At the end of a record it comes to what the redirect leads to, if any.     *)
LEMMA TopEnds ==
    ASSUME NEW zn \in [Domain -> Policy!Published], NEW f \in Frames, NEW n \in 1..MaxLookups,
           Passed(zn, f, n), f.todo = << >>
    PROVE  /\ f.redirect = {} => Mean(zn, f, n) = "neutral"
           /\ \A d \in f.redirect : Mean(zn, f, n) = Policy!Meant(zn)[n - 1][d]
<1> DEFINE D == Policy!Meant(zn)[n - 1]
<1>1. f.dom \in Domain /\ Len(f.todo) = 0
  BY DEF Frames
<1>2. PICK rec \in zn[f.dom].spf : PassedTo(zn, f, n, rec, Len(rec) - Len(f.todo))
  BY DEF Passed
<1>3. rec \in Seq(Policy!Terms) /\ zn[f.dom].spf = {rec}
  BY <1>1, OneRecord
<1>4. Len(rec) - Len(f.todo) = Len(rec) /\ DOMAIN rec = 1..Len(rec)
  BY <1>1, <1>3
<1>5. /\ \A j \in DOMAIN rec : Policy!Decides(zn, D, rec[j]) = Policy!Unknown
      /\ \/ f.redirect = {} /\ \A j \in DOMAIN rec : rec[j].mech # "redirect"
         \/ \E i \in DOMAIN rec : /\ rec[i].mech = "redirect" /\ f.redirect = {rec[i].dom}
                                  /\ \A j \in (i + 1)..Len(rec) : rec[j].mech # "redirect"
  BY <1>2, <1>4 DEF PassedTo
<1>6. Mean(zn, f, n) = Policy!OneDeeper(zn, D)[f.dom]
  BY Recursion DEF Mean
<1> HIDE DEF D
<1>7. /\ (\A j \in DOMAIN rec : rec[j].mech # "redirect")
            => Policy!OneDeeper(zn, D)[f.dom] = "neutral"
      /\ \A i \in DOMAIN rec :
             rec[i].mech = "redirect" /\ (\A j \in (i + 1)..Len(rec) : rec[j].mech # "redirect")
                => Policy!OneDeeper(zn, D)[f.dom] = D[rec[i].dom]
  <2>1. \A d \in Domain : zn[d].spf = {rec} =>
            /\ (\A j \in DOMAIN rec : rec[j].mech # "redirect")
                  => Policy!OneDeeper(zn, D)[d] = "neutral"
            /\ \A i \in DOMAIN rec :
                   rec[i].mech = "redirect"
                   /\ (\A j \in (i + 1)..Len(rec) : rec[j].mech # "redirect")
                      => Policy!OneDeeper(zn, D)[d] = D[rec[i].dom]
    BY <1>3, <1>5, Undecided
  <2>2. QED
    BY <1>1, <1>3, <2>1
<1>8. /\ (\A j \in DOMAIN rec : rec[j].mech # "redirect") => Mean(zn, f, n) = "neutral"
      /\ \A i \in DOMAIN rec :
             rec[i].mech = "redirect" /\ (\A j \in (i + 1)..Len(rec) : rec[j].mech # "redirect")
                => Mean(zn, f, n) = D[rec[i].dom]
  BY <1>6, <1>7
<1>9. QED
  BY <1>5, <1>8 DEF D

(* The exchanges of an mx, one after another.                                 *)
LEMMA MxHosts ==
    ASSUME NEW zn \in [Domain -> Policy!Published], NEW f \in Frames, NEW D,
           f.todo # << >>, MxPassed(zn, f)
    PROVE  /\ f.hosts = << >> => Policy!Decides(zn, D, Head(f.todo)) = Policy!Unknown
           /\ f.hosts # << >> =>
                IF \E a \in zn[Head(f.hosts)].addrs :
                       Policy!InNetwork(Client, a, Head(f.todo).len)
                THEN Policy!Decides(zn, D, Head(f.todo)) = Head(f.todo).q
                ELSE MxPassed(zn, [f EXCEPT !.hosts = Tail(@)])
<1> DEFINE hit(h) == \E a \in zn[h].addrs : Policy!InNetwork(Client, a, Head(f.todo).len)
<1>1. PICK t : t = Head(f.todo)
  OBVIOUS
<1>2. PICK hosts : hosts = f.hosts
  OBVIOUS
<1>3. f.todo \in Seq(Policy!Terms) /\ hosts \in Seq(Domain)
  BY <1>2 DEF Frames
<1>4. t \in Policy!Terms
  BY <1>1, <1>3
<1>5. PICK mx : mx = zn[t.dom].mx
  OBVIOUS
<1>6. mx \in Seq(Domain)
  BY <1>4, <1>5 DEF Policy!Terms, Policy!Published
<1>7. PICK q : q = Len(mx) - Len(hosts)
  OBVIOUS
<1>8. /\ t.mech = "mx" /\ q >= 0
      /\ \A j \in 1..Len(hosts) : hosts[j] = mx[q + j]
      /\ \A j \in 1..q : ~hit(mx[j])
  BY <1>1, <1>2, <1>5, <1>7 DEF MxPassed
<1>9. Policy!Decides(zn, D, t) = IF \E i \in DOMAIN mx : hit(mx[i]) THEN t.q ELSE Policy!Unknown
  <2>1. Policy!Decides(zn, D, t) =
            IF \E i \in DOMAIN zn[t.dom].mx : \E a \in zn[zn[t.dom].mx[i]].addrs :
                   Policy!InNetwork(Client, a, t.len)
            THEN t.q ELSE Policy!Unknown
    <3>1. t.mech = "mx"
      BY <1>8
    <3>2. QED
      BY <1>4, <3>1, Deciding
  <2>2. QED
    BY <1>1, <1>5, <2>1
<1>10. CASE hosts = << >>
  <2> HIDE DEF hit
  <2>1. Len(hosts) = 0 /\ Len(mx) \in Nat /\ DOMAIN mx = 1..Len(mx)
    BY <1>6, <1>10
  <2>2. \A i \in DOMAIN mx : ~hit(mx[i])
    BY <1>7, <1>8, <2>1
  <2>3. Policy!Decides(zn, D, t) = Policy!Unknown
    BY <1>9, <2>2
  <2>4. QED
    BY <1>1, <1>2, <1>10, <2>3
<1>11. CASE hosts # << >>
  <2> HIDE DEF hit
  <2>1. PICK rest : rest = Tail(hosts)
    OBVIOUS
  <2>2. /\ q \in Nat /\ q + 1 \in DOMAIN mx /\ Head(hosts) = mx[q + 1]
        /\ Len(mx) - Len(rest) = q + 1
        /\ \A j \in 1..Len(rest) : rest[j] = mx[(q + 1) + j]
    <3>1. /\ hosts \in Seq(Domain) /\ mx \in Seq(Domain) /\ q = Len(mx) - Len(hosts) /\ q >= 0
          /\ \A j \in 1..Len(hosts) : hosts[j] = mx[q + j]
      BY <1>3, <1>6, <1>7, <1>8
    <3>2. QED
      BY <1>11, <2>1, <3>1, EndOf
  <2>3. CASE hit(Head(hosts))
    <3>1. Policy!Decides(zn, D, t) = t.q
      BY <1>9, <2>2, <2>3
    <3>2. QED
      BY <1>1, <1>2, <1>11, <2>3, <3>1 DEF hit
  <2>4. CASE ~hit(Head(hosts))
    <3> DEFINE g == [f EXCEPT !.hosts = Tail(@)]
    <3>1. g.todo = f.todo /\ g.hosts = Tail(hosts)
      BY <1>2 DEF Frames
    <3> HIDE DEF g
    <3>2. q + 1 >= 0 /\ \A j \in 1..(q + 1) : j \in 1..q \/ j = q + 1
      BY <2>2
    <3>3. \A j \in 1..(q + 1) : ~hit(mx[j])
      BY <1>8, <2>2, <2>4, <3>2
    <3>4. g.hosts = rest /\ Head(g.todo) = t /\ zn[Head(g.todo).dom].mx = mx
      BY <1>1, <1>5, <2>1, <3>1
    <3>5. MxPassed(zn, g)
      BY <1>1, <1>8, <2>2, <3>2, <3>3, <3>4 DEF MxPassed, hit
    <3>6. QED
      BY <1>1, <1>2, <1>11, <2>4, <3>5 DEF g, hit
  <2>5. QED
    BY <2>3, <2>4
<1>12. QED
  BY <1>10, <1>11

(* Looking up the exchanges, and entering a record.                           *)
LEMMA MxBegins ==
    ASSUME NEW zn \in [Domain -> Policy!Published], NEW f \in Frames, NEW n, Passed(zn, f, n),
           f.todo # << >>, Head(f.todo).mech = "mx"
    PROVE  Passed(zn, [f EXCEPT !.mx = TRUE, !.hosts = zn[Head(f.todo).dom].mx], n)
<1> DEFINE g == [f EXCEPT !.mx = TRUE, !.hosts = zn[Head(f.todo).dom].mx]
<1>1. /\ g.dom = f.dom /\ g.todo = f.todo /\ g.redirect = f.redirect
      /\ g.hosts = zn[Head(f.todo).dom].mx
  BY DEF Frames
<1>2. zn[Head(f.todo).dom].mx \in Seq(Domain)
  <2>1. Head(f.todo) \in Policy!Terms
    BY DEF Frames
  <2>2. QED
    BY <2>1 DEF Policy!Terms, Policy!Published
<1> HIDE DEF g
<1>3. MxPassed(zn, g)
  <2>1. PICK mx : mx = zn[Head(f.todo).dom].mx
    OBVIOUS
  <2>2. Len(mx) \in Nat /\ Len(mx) - Len(mx) = 0 /\ \A j \in 1..Len(mx) : 0 + j = j
    <3>1. mx \in Seq(Domain)
      BY <1>2, <2>1
    <3>2. QED
      BY <3>1
  <2>3. zn[Head(g.todo).dom].mx = mx /\ g.hosts = mx /\ Head(g.todo).mech = "mx"
    BY <1>1, <2>1
  <2>4. 0 >= 0 /\ \A j \in 1..0 : FALSE
    OBVIOUS
  <2>5. QED
    BY <2>2, <2>3, <2>4 DEF MxPassed
<1>4. PICK rec \in zn[f.dom].spf : PassedTo(zn, f, n, rec, Len(rec) - Len(f.todo))
  BY DEF Passed
<1>5. PassedTo(zn, g, n, rec, Len(rec) - Len(g.todo)) /\ rec \in zn[g.dom].spf
  BY <1>1, <1>3, <1>4 DEF PassedTo
<1>6. Passed(zn, g, n)
  BY <1>5 DEF Passed
<1>7. QED
  BY <1>6 DEF g

LEMMA TopBegins ==
    ASSUME NEW zn \in [Domain -> Policy!Published], NEW f \in Frames, NEW n, f.redirect = {}, ~f.mx,
           NEW rec \in zn[f.dom].spf
    PROVE  Passed(zn, [f EXCEPT !.read = TRUE, !.todo = rec], n)
<1> DEFINE g == [f EXCEPT !.read = TRUE, !.todo = rec]
<1>1. g.dom = f.dom /\ g.todo = rec /\ g.redirect = {} /\ ~g.mx
  BY DEF Frames
<1>2. rec \in Seq(Policy!Terms)
  BY OneRecord DEF Frames
<1>3. Len(rec) - Len(rec) = 0 /\ \A j \in 1..Len(rec) : 0 + j = j
  BY <1>2
<1> HIDE DEF g
<1>4. 0 >= 0 /\ \A j \in 1..0 : FALSE
  OBVIOUS
<1>5. PassedTo(zn, g, n, rec, Len(rec) - Len(g.todo)) /\ rec \in zn[g.dom].spf
  BY <1>1, <1>3, <1>4 DEF PassedTo
<1>6. Passed(zn, g, n)
  BY <1>5 DEF Passed
<1>7. QED
  BY <1>6 DEF g

(* The innermost record is replaced by one that comes to the same.            *)
LEMMA FollowTop ==
    ASSUME NEW zn, NEW d, NEW s \in Seq(Frames), s # << >>, NEW fuel \in [DOMAIN s -> 0..MaxLookups],
           NEW m \in Nat, NEW m2 \in Nat, m <= m2, Follow(zn, s, fuel, m, Policy!Unknown, d),
           NEW f \in Frames, NEW n \in 0..MaxLookups, NEW r,
           n + m2 >= MaxLookups + (IF f.read THEN 1 ELSE 0),
           ~f.read => f.redirect = {},
           Mean(zn, f, n) = Mean(zn, s[1], fuel[1]),
           f.read /\ r = Policy!Unknown => Passed(zn, f, n),
           r # Policy!Unknown => r = Mean(zn, f, n)
    PROVE  /\ <<f>> \o Tail(s) # << >>
           /\ \E fuel2 \in [DOMAIN (<<f>> \o Tail(s)) -> 0..MaxLookups] :
                  Follow(zn, <<f>> \o Tail(s), fuel2, m2, r, d)
<1> DEFINE s2 == <<f>> \o Tail(s)
           fuel2 == [i \in DOMAIN s2 |-> IF i = 1 THEN n ELSE fuel[i]]
<1>1. /\ s2 \in Seq(Frames) /\ s2 # << >> /\ Len(s2) = Len(s) /\ DOMAIN s2 = DOMAIN s
      /\ s2[1] = f /\ \A i \in DOMAIN s : i # 1 => s2[i] = s[i]
  OBVIOUS
<1>2. DOMAIN s = 1..Len(s) /\ Len(s) \in Nat /\ Len(s) >= 1 /\ MaxLookups \in Nat
  BY SpfConstants, EmptySeq
<1> HIDE DEF s2
<1>3. /\ fuel2 \in [DOMAIN s2 -> 0..MaxLookups] /\ fuel2[1] = n
      /\ \A i \in DOMAIN s : i # 1 => fuel2[i] = fuel[i]
  BY <1>1, <1>2
<1> HIDE DEF fuel2
<1>4. ASSUME NEW i \in DOMAIN s2
      PROVE  /\ fuel2[i] + m2 >= MaxLookups + (IF s2[i].read THEN 1 ELSE 0)
             /\ ~s2[i].read => s2[i].redirect = {}
             /\ s2[i].read /\ (i > 1 \/ r = Policy!Unknown) => Passed(zn, s2[i], fuel2[i])
             /\ i > 1 => Waits(zn, s2[i], fuel2[i], Mean(zn, s2[i - 1], fuel2[i - 1]))
  <2>1. CASE i = 1
    BY <1>1, <1>3, <2>1
  <2>2. CASE i # 1
    <3>1. i \in DOMAIN s /\ i > 1 /\ i - 1 \in DOMAIN s /\ s2[i] = s[i] /\ fuel2[i] = fuel[i]
      BY <1>1, <1>2, <1>3, <2>2
    <3>2. /\ fuel[i] + m >= MaxLookups + (IF s[i].read THEN 1 ELSE 0)
          /\ ~s[i].read => s[i].redirect = {}
          /\ s[i].read => Passed(zn, s[i], fuel[i])
          /\ Waits(zn, s[i], fuel[i], Mean(zn, s[i - 1], fuel[i - 1]))
      BY <3>1 DEF Follow
    <3>3. fuel[i] + m2 >= MaxLookups + (IF s[i].read THEN 1 ELSE 0)
      <4>1. fuel[i] \in Nat
        BY <3>1
      <4>2. QED
        BY <1>2, <3>2, <4>1
    <3>4. Mean(zn, s2[i - 1], fuel2[i - 1]) = Mean(zn, s[i - 1], fuel[i - 1])
      BY <1>1, <1>3, <3>1
    <3>5. QED
      BY <3>1, <3>2, <3>3, <3>4
  <2>3. QED
    BY <2>1, <2>2
<1>5. Mean(zn, s2[Len(s2)], fuel2[Len(s2)]) = Policy!Meant(zn)[MaxLookups][d]
  <2>1. Mean(zn, s[Len(s)], fuel[Len(s)]) = Policy!Meant(zn)[MaxLookups][d]
    BY DEF Follow
  <2>2. QED
    BY <1>1, <1>2, <1>3, <2>1
<1>6. Follow(zn, s2, fuel2, m2, r, d)
  BY <1>1, <1>3, <1>4, <1>5 DEF Follow
<1>7. QED
  BY <1>1, <1>3, <1>6 DEF s2

(* A record is entered for the include that the innermost is at.              *)
LEMMA FollowPush ==
    ASSUME NEW zn, NEW d, NEW s \in Seq(Frames), s # << >>, NEW fuel \in [DOMAIN s -> 0..MaxLookups],
           NEW m \in Nat, m < MaxLookups, Follow(zn, s, fuel, m, Policy!Unknown, d),
           s[1].read, s[1].todo # << >>, ~s[1].mx, Head(s[1].todo).mech = "include",
           NEW f \in Frames, ~f.read, f.redirect = {}, f.dom = Head(s[1].todo).dom
    PROVE  /\ <<f>> \o s # << >>
           /\ \E fuel2 \in [DOMAIN (<<f>> \o s) -> 0..MaxLookups] :
                  Follow(zn, <<f>> \o s, fuel2, m, Policy!Unknown, d)
<1> DEFINE s2 == <<f>> \o s
           fuel2 == [i \in DOMAIN s2 |-> IF i = 1 THEN fuel[1] - 1 ELSE fuel[i - 1]]
<1>1. /\ s2 \in Seq(Frames) /\ s2 # << >> /\ Len(s2) = Len(s) + 1
      /\ s2[1] = f /\ \A i \in DOMAIN s2 : i # 1 => s2[i] = s[i - 1]
  OBVIOUS
<1>2. /\ DOMAIN s = 1..Len(s) /\ Len(s) \in Nat /\ Len(s) >= 1 /\ MaxLookups \in Nat
      /\ DOMAIN s2 = 1..(Len(s) + 1)
  BY <1>1, SpfConstants, EmptySeq
<1>3. fuel[1] \in 0..MaxLookups /\ fuel[1] + m >= MaxLookups + 1
  BY <1>2 DEF Follow
<1>4. fuel[1] - 1 \in 0..MaxLookups /\ (fuel[1] - 1) + m >= MaxLookups + 0
  BY <1>2, <1>3
<1> HIDE DEF s2
<1>5. /\ fuel2 \in [DOMAIN s2 -> 0..MaxLookups] /\ fuel2[1] = fuel[1] - 1
      /\ \A i \in DOMAIN s2 : i # 1 => fuel2[i] = fuel[i - 1]
  BY <1>2, <1>4
<1> HIDE DEF fuel2
<1>6. ASSUME NEW i \in DOMAIN s2
      PROVE  /\ fuel2[i] + m >= MaxLookups + (IF s2[i].read THEN 1 ELSE 0)
             /\ ~s2[i].read => s2[i].redirect = {}
             /\ s2[i].read => Passed(zn, s2[i], fuel2[i])
             /\ i > 1 => Waits(zn, s2[i], fuel2[i], Mean(zn, s2[i - 1], fuel2[i - 1]))
  <2>1. CASE i = 1
    BY <1>1, <1>4, <1>5, <2>1
  <2>2. CASE i # 1
    <3>1. /\ i - 1 \in DOMAIN s /\ i - 1 \in DOMAIN s2 /\ s2[i] = s[i - 1]
          /\ fuel2[i] = fuel[i - 1]
      BY <1>1, <1>2, <1>5, <2>2
    <3>2. /\ fuel[i - 1] + m >= MaxLookups + (IF s[i - 1].read THEN 1 ELSE 0)
          /\ ~s[i - 1].read => s[i - 1].redirect = {}
          /\ s[i - 1].read => Passed(zn, s[i - 1], fuel[i - 1])
      BY <3>1 DEF Follow
    <3>3. Waits(zn, s2[i], fuel2[i], Mean(zn, s2[i - 1], fuel2[i - 1]))
      <4>1. CASE i = 2
        BY <1>1, <1>5, <3>1, <4>1 DEF Waits, Mean
      <4>2. CASE i # 2
        <5>1. /\ i - 1 > 1 /\ s2[i - 1] = s[(i - 1) - 1]
              /\ fuel2[i - 1] = fuel[(i - 1) - 1]
          BY <1>1, <1>2, <1>5, <2>2, <3>1, <4>2
        <5>2. Waits(zn, s[i - 1], fuel[i - 1], Mean(zn, s[(i - 1) - 1], fuel[(i - 1) - 1]))
          BY <3>1, <5>1 DEF Follow
        <5>3. QED
          BY <3>1, <5>1, <5>2
      <4>3. QED
        BY <4>1, <4>2
    <3>4. QED
      BY <3>1, <3>2, <3>3
  <2>3. QED
    BY <2>1, <2>2
<1>7. Mean(zn, s2[Len(s2)], fuel2[Len(s2)]) = Policy!Meant(zn)[MaxLookups][d]
  <2>1. Mean(zn, s[Len(s)], fuel[Len(s)]) = Policy!Meant(zn)[MaxLookups][d]
    BY DEF Follow
  <2>2. Len(s2) \in DOMAIN s2 /\ Len(s2) # 1 /\ Len(s2) - 1 = Len(s)
    BY <1>1, <1>2
  <2>3. s2[Len(s2)] = s[Len(s)] /\ fuel2[Len(s2)] = fuel[Len(s)]
    BY <1>1, <1>5, <2>2
  <2>4. QED
    BY <2>1, <2>3
<1>8. Follow(zn, s2, fuel2, m, Policy!Unknown, d)
  BY <1>6, <1>7 DEF Follow
<1>9. QED
  BY <1>1, <1>5, <1>8 DEF s2

(* The innermost record has come to r and is left.                            *)
LEMMA FollowPop ==
    ASSUME NEW zn, NEW d, NEW s \in Seq(Frames), Len(s) > 1, NEW fuel \in [DOMAIN s -> 0..MaxLookups],
           NEW m \in Nat, NEW r, r # Policy!Unknown, Follow(zn, s, fuel, m, r, d)
    PROVE  /\ Tail(s) \in Seq(Frames) /\ Tail(s) # << >> /\ Tail(s)[1] = s[2]
           /\ Waits(zn, s[2], fuel[2], r)
           /\ \E fuel2 \in [DOMAIN Tail(s) -> 0..MaxLookups] :
                  fuel2[1] = fuel[2] /\ Follow(zn, Tail(s), fuel2, m, Policy!Unknown, d)
<1> DEFINE s2 == Tail(s)
           fuel2 == [i \in DOMAIN s2 |-> fuel[i + 1]]
<1>1. /\ DOMAIN s = 1..Len(s) /\ Len(s) \in Nat /\ 2 \in DOMAIN s /\ s # << >>
      /\ s2 \in Seq(Frames) /\ Len(s2) = Len(s) - 1 /\ DOMAIN s2 = 1..(Len(s) - 1)
      /\ \A i \in DOMAIN s2 : s2[i] = s[i + 1]
  OBVIOUS
<1>2. s2 # << >> /\ 1 \in DOMAIN s2 /\ s2[1] = s[2]
  BY <1>1, StackTwo
<1> HIDE DEF s2
<1>3. \A i \in DOMAIN s2 : i + 1 \in DOMAIN s /\ i + 1 > 1 /\ i \in Nat /\ (i + 1) - 1 = i
  BY <1>1
<1>4. /\ fuel2 \in [DOMAIN s2 -> 0..MaxLookups] /\ fuel2[1] = fuel[2]
      /\ \A i \in DOMAIN s2 : fuel2[i] = fuel[i + 1]
  BY <1>2, <1>3
<1> HIDE DEF fuel2
<1>5. ASSUME NEW i \in DOMAIN s2
      PROVE  /\ fuel2[i] + m >= MaxLookups + (IF s2[i].read THEN 1 ELSE 0)
             /\ ~s2[i].read => s2[i].redirect = {}
             /\ s2[i].read => Passed(zn, s2[i], fuel2[i])
             /\ i > 1 => Waits(zn, s2[i], fuel2[i], Mean(zn, s2[i - 1], fuel2[i - 1]))
  <2>1. /\ fuel[i + 1] + m >= MaxLookups + (IF s[i + 1].read THEN 1 ELSE 0)
        /\ ~s[i + 1].read => s[i + 1].redirect = {}
        /\ s[i + 1].read => Passed(zn, s[i + 1], fuel[i + 1])
        /\ Waits(zn, s[i + 1], fuel[i + 1], Mean(zn, s[(i + 1) - 1], fuel[(i + 1) - 1]))
    BY <1>3 DEF Follow
  <2>2. i > 1 => s2[i - 1] = s[i] /\ fuel2[i - 1] = fuel[i]
    <3> SUFFICES ASSUME i > 1 PROVE s2[i - 1] = s[i] /\ fuel2[i - 1] = fuel[i]
      OBVIOUS
    <3>1. i - 1 \in DOMAIN s2 /\ (i - 1) + 1 = i
      BY <1>1
    <3>2. QED
      BY <1>1, <1>4, <3>1
  <2>3. (i + 1) - 1 = i
    BY <1>3
  <2>4. QED
    BY <1>1, <1>4, <2>1, <2>2, <2>3
<1>6. Mean(zn, s2[Len(s2)], fuel2[Len(s2)]) = Policy!Meant(zn)[MaxLookups][d]
  <2>1. Mean(zn, s[Len(s)], fuel[Len(s)]) = Policy!Meant(zn)[MaxLookups][d]
    BY DEF Follow
  <2>2. Len(s2) \in DOMAIN s2 /\ Len(s2) + 1 = Len(s)
    BY <1>1
  <2>3. s2[Len(s2)] = s[Len(s)] /\ fuel2[Len(s2)] = fuel[Len(s)]
    BY <1>1, <1>4, <2>2
  <2>4. QED
    BY <2>1, <2>3
<1>7. Follow(zn, s2, fuel2, m, Policy!Unknown, d)
  BY <1>5, <1>6 DEF Follow
<1>8. Waits(zn, s[2], fuel[2], r)
  <2>1. Waits(zn, s[2], fuel[2], Mean(zn, s[2 - 1], fuel[2 - 1])) /\ 2 - 1 = 1
    <3>1. \A i \in DOMAIN s : i > 1 => Waits(zn, s[i], fuel[i], Mean(zn, s[i - 1], fuel[i - 1]))
      BY DEF Follow
    <3>2. 2 \in DOMAIN s /\ 2 > 1 /\ 2 - 1 = 1
      BY <1>1
    <3>3. QED
      BY <3>1, <3>2, Zenon
  <2>2. r = Mean(zn, s[1], fuel[1])
    BY DEF Follow
  <2>3. QED
    BY <2>1, <2>2
<1>9. QED
  BY <1>1, <1>2, <1>4, <1>7, <1>8 DEF s2

(* Where the innermost record is while every query has been answered.         *)
LEMMA MeansAt ==
    ASSUME SpfInv, SpfMeans, Policy!Active, ~pFailed, ~pExhausted
    PROVE  \E fuel \in [DOMAIN pStack -> 0..MaxLookups] :
               /\ Follow(pZone, pStack, fuel, pLookups, Policy!Unknown, pSender)
               /\ fuel[1] \in 0..MaxLookups /\ fuel[1] + pLookups >= MaxLookups
               /\ Policy!Top.read =>
                     /\ fuel[1] \in 1..MaxLookups /\ fuel[1] + pLookups >= MaxLookups + 1
                     /\ Passed(pZone, Policy!Top, fuel[1])
               /\ ~Policy!Top.read => Policy!Top.redirect = {}
<1>1. pPhase = "spf" /\ pRet = Policy!Unknown /\ pStack # << >> /\ pStack \in Seq(Frames)
  BY DEF Policy!Active, SpfInv, SpfStack
<1>2. 1 \in DOMAIN pStack /\ Policy!Top = pStack[1]
  BY <1>1, StackTop DEF Policy!Top
<1>3. PICK fuel \in [DOMAIN pStack -> 0..MaxLookups] :
          Follow(pZone, pStack, fuel, pLookups, Policy!Unknown, pSender)
  BY <1>1 DEF SpfMeans
<1>4. /\ fuel[1] + pLookups >= MaxLookups + (IF Policy!Top.read THEN 1 ELSE 0)
      /\ ~Policy!Top.read => Policy!Top.redirect = {}
      /\ Policy!Top.read => Passed(pZone, Policy!Top, fuel[1])
  BY <1>2, <1>3 DEF Follow
<1>5. fuel[1] \in 0..MaxLookups
  BY <1>2
<1>6. pLookups \in Nat /\ pLookups <= MaxLookups /\ MaxLookups \in Nat
  BY SpfConstants DEF SpfInv, SpfType, SpfCount
<1>7. Policy!Top.read => fuel[1] \in 1..MaxLookups /\ fuel[1] + pLookups >= MaxLookups + 1
  BY <1>4, <1>5, <1>6
<1>8. fuel[1] + pLookups >= MaxLookups
  BY <1>4, <1>5, <1>6
<1>9. QED
  BY <1>3, <1>4, <1>5, <1>7, <1>8

(* The innermost record is replaced by one that comes to the same.            *)
LEMMA MeansTop ==
    ASSUME SpfInv, Policy!Active, UNCHANGED Policy!given,
           NEW fuel \in [DOMAIN pStack -> 0..MaxLookups],
           Follow(pZone, pStack, fuel, pLookups, Policy!Unknown, pSender),
           pLookups' \in Nat, pLookups <= pLookups',
           NEW f \in Frames, Policy!SetTop(f), NEW n \in 0..MaxLookups,
           n + pLookups' >= MaxLookups + (IF f.read THEN 1 ELSE 0),
           ~f.read => f.redirect = {},
           Mean(pZone, f, n) = Mean(pZone, Policy!Top, fuel[1]),
           f.read /\ pRet' = Policy!Unknown => Passed(pZone, f, n),
           pRet' # Policy!Unknown => pRet' = Mean(pZone, f, n)
    PROVE  SpfMeans'
<1>1. pStack # << >> /\ pStack \in Seq(Frames) /\ pLookups \in Nat
  BY DEF Policy!Active, SpfInv, SpfStack, SpfType
<1>2. Policy!Top = pStack[1]
  BY <1>1, StackTop DEF Policy!Top
<1>3. pStack' = <<f>> \o Tail(pStack) /\ pZone' = pZone /\ pSender' = pSender
  BY DEF Policy!SetTop, Policy!given
<1>4. /\ <<f>> \o Tail(pStack) # << >>
      /\ \E fuel2 \in [DOMAIN (<<f>> \o Tail(pStack)) -> 0..MaxLookups] :
             Follow(pZone, <<f>> \o Tail(pStack), fuel2, pLookups', pRet', pSender)
  BY <1>1, <1>2, FollowTop
<1>5. QED
  BY <1>3, <1>4 DEF SpfMeans

(* It goes on with its record.                                                *)
LEMMA MeansOn ==
    ASSUME SpfInv, SpfMeans, Policy!Active, ~pFailed, ~pExhausted, Policy!Top.read,
           UNCHANGED Policy!given, pRet' = pRet, pLookups' \in Nat, pLookups <= pLookups',
           NEW f \in Frames, Policy!SetTop(f), f.read, f.dom = Policy!Top.dom,
           \A n \in 1..MaxLookups : Passed(pZone, Policy!Top, n) => Passed(pZone, f, n)
    PROVE  SpfMeans'
<1>1. PICK fuel \in [DOMAIN pStack -> 0..MaxLookups] :
          /\ Follow(pZone, pStack, fuel, pLookups, Policy!Unknown, pSender)
          /\ fuel[1] \in 1..MaxLookups /\ fuel[1] + pLookups >= MaxLookups + 1
          /\ Passed(pZone, Policy!Top, fuel[1])
  BY MeansAt
<1>2. pLookups \in Nat /\ MaxLookups \in Nat /\ pRet' = Policy!Unknown
  BY SpfConstants DEF SpfInv, SpfType, Policy!Active
<1> DEFINE n == fuel[1]
<1>3. n \in 0..MaxLookups /\ n + pLookups' >= MaxLookups + (IF f.read THEN 1 ELSE 0)
  BY <1>1, <1>2
<1>4. Mean(pZone, f, n) = Mean(pZone, Policy!Top, fuel[1]) /\ Passed(pZone, f, n)
  BY <1>1 DEF Mean
<1> HIDE DEF n
<1>5. QED
  BY <1>1, <1>2, <1>3, <1>4, MeansTop

(* It has come to its result.                                                 *)
LEMMA MeansComes ==
    ASSUME SpfInv, SpfMeans, Policy!Active, ~pFailed, ~pExhausted, Policy!Top.read,
           UNCHANGED Policy!given, pStack' = pStack, pLookups' \in Nat, pLookups <= pLookups',
           \A n \in 1..MaxLookups :
               Passed(pZone, Policy!Top, n) => pRet' = Mean(pZone, Policy!Top, n),
           pRet' # Policy!Unknown
    PROVE  SpfMeans'
<1>1. PICK fuel \in [DOMAIN pStack -> 0..MaxLookups] :
          /\ Follow(pZone, pStack, fuel, pLookups, Policy!Unknown, pSender)
          /\ fuel[1] \in 1..MaxLookups /\ fuel[1] + pLookups >= MaxLookups + 1
          /\ Passed(pZone, Policy!Top, fuel[1])
  BY MeansAt
<1>2. pLookups \in Nat /\ MaxLookups \in Nat
  BY SpfConstants DEF SpfInv, SpfType
<1> DEFINE n == fuel[1]
           f == Policy!Top
<1>3. n \in 0..MaxLookups /\ n + pLookups' >= MaxLookups + (IF f.read THEN 1 ELSE 0)
  BY <1>1, <1>2
<1>4. f \in Frames /\ Policy!SetTop(f)
  <2>1. pStack # << >> /\ pStack \in Seq(Frames)
    BY DEF Policy!Active, SpfInv, SpfStack
  <2>2. pStack = <<Head(pStack)>> \o Tail(pStack)
    BY <2>1
  <2>3. QED
    BY <2>2, SpfTop DEF Policy!SetTop, Policy!Top
<1>5. pRet' = Mean(pZone, f, n)
  BY <1>1
<1> HIDE DEF n
<1>6. Mean(pZone, f, n) = Mean(pZone, Policy!Top, fuel[1]) /\ f.read
  BY DEF n
<1> HIDE DEF f
<1>7. QED
  BY <1>1, <1>2, <1>3, <1>4, <1>5, <1>6, MeansTop

(* A term that does or does not decide, whatever others come to.              *)
LEMMA MeansDecided ==
    ASSUME SpfInv, SpfMeans, Policy!Active, ~pFailed, ~pExhausted,
           Policy!Top.read, Policy!Top.todo # << >>,
           UNCHANGED Policy!given, pStack' = pStack, pLookups' \in Nat, pLookups <= pLookups',
           \A D : Policy!Decides(pZone, D, Policy!Term) = pRet', pRet' # Policy!Unknown
    PROVE  SpfMeans'
<1>1. Policy!Top \in Frames /\ pZone \in [Domain -> Policy!Published]
  BY SpfTop DEF SpfInv, SpfType
<1>2. \A n \in 1..MaxLookups :
          Passed(pZone, Policy!Top, n) => pRet' = Mean(pZone, Policy!Top, n)
  BY <1>1, TopDecides DEF Policy!Term
<1>3. QED
  BY <1>2, MeansComes

LEMMA MeansPassed ==
    ASSUME SpfInv, SpfMeans, Policy!Active, ~pFailed, ~pExhausted,
           Policy!Top.read, Policy!Top.todo # << >>,
           UNCHANGED Policy!given, Policy!SetTop(Policy!NextTerm(Policy!Top)), pRet' = pRet,
           pLookups' \in Nat, pLookups <= pLookups', Policy!Term.mech # "redirect",
           \A D : Policy!Decides(pZone, D, Policy!Term) = Policy!Unknown
    PROVE  SpfMeans'
<1> DEFINE f == Policy!NextTerm(Policy!Top)
<1>1. Policy!Top \in Frames /\ pZone \in [Domain -> Policy!Published]
      /\ Paid(Policy!Top, pLookups)
  BY SpfTop DEF SpfInv, SpfType
<1>2. f \in Frames /\ f.read /\ f.dom = Policy!Top.dom
  <2>1. f \in Frames
    BY <1>1, SpfNextTerm
  <2>2. QED
    BY <1>1, <2>1 DEF Policy!NextTerm, Frames
<1>3. \A n \in 1..MaxLookups : Passed(pZone, Policy!Top, n) => Passed(pZone, f, n)
  BY <1>1, TopPasses DEF Policy!Term
<1> HIDE DEF f
<1>4. Policy!SetTop(f)
  BY DEF f
<1>5. QED
  BY <1>2, <1>3, <1>4, MeansOn

(* While queries are answered and the budget lasts, every step of an          *)
(* evaluation keeps to what the records mean.                                 *)
LEMMA MeansEvaluate == SpfInv /\ SpfMeans /\ Policy!Evaluate => SpfMeans'
<1> SUFFICES ASSUME SpfInv, SpfMeans, Policy!Evaluate, ~pFailed', ~pExhausted'
             PROVE  SpfMeans'
  BY DEF SpfMeans
<1> USE DEF Policy!OnTerm
<1>1. pLookups \in Nat /\ pZone \in [Domain -> Policy!Published]
      /\ pLookups <= pLookups /\ pLookups <= pLookups + 1 /\ pLookups + 1 \in Nat
      /\ MaxLookups \in Nat
  BY SpfConstants DEF SpfInv, SpfType
<1>2. CASE Policy!AskTxt
  <2>1. /\ Policy!Active /\ ~Policy!Top.read /\ UNCHANGED Policy!given
        /\ ~Policy!Spent /\ pLookups' = pLookups + 1
    BY <1>2 DEF Policy!AskTxt, Policy!Exhaust, Policy!Count
  <2>2. ~pExhausted /\ ~pFailed
    BY <1>2 DEF Policy!AskTxt, Policy!Exhaust, Policy!Count
  <2>3. \/ pZone[Policy!Top.dom].spf = {} /\ pRet' = "none" /\ pStack' = pStack
        \/ \E record \in pZone[Policy!Top.dom].spf :
               /\ Policy!SetTop([Policy!Top EXCEPT !.read = TRUE, !.todo = record])
               /\ pRet' = pRet
    BY <1>2 DEF Policy!AskTxt, Policy!Exhaust, Policy!Count
  <2>4. PICK fuel \in [DOMAIN pStack -> 0..MaxLookups] :
            /\ Follow(pZone, pStack, fuel, pLookups, Policy!Unknown, pSender)
            /\ fuel[1] \in 0..MaxLookups /\ fuel[1] + pLookups >= MaxLookups
            /\ Policy!Top.redirect = {}
    BY <2>1, <2>2, MeansAt
  <2> DEFINE n == fuel[1]
  <2>5. n \in 1..MaxLookups /\ n \in 0..MaxLookups /\ n + pLookups' >= MaxLookups + 1
    BY <1>1, <2>1, <2>4 DEF Policy!Spent
  <2>6. Policy!Top \in Frames /\ Paid(Policy!Top, pLookups) /\ pStack # << >>
    BY <2>1, SpfTop
  <2>7. Policy!Top.dom \in Domain /\ ~Policy!Top.mx
    BY <2>1, <2>6 DEF Frames, Paid
  <2>8. CASE pZone[Policy!Top.dom].spf = {} /\ pRet' = "none" /\ pStack' = pStack
    <3>1. Policy!OneDeeper(pZone, Policy!Meant(pZone)[n - 1])[Policy!Top.dom] = "none"
      BY <2>7, <2>8, NoRecordOf
    <3>2. pRet' = Mean(pZone, Policy!Top, n) /\ pRet' # Policy!Unknown
      BY <2>5, <2>8, <3>1, Recursion DEF Mean, Policy!Unknown
    <3>3. Policy!SetTop(Policy!Top)
      <4>1. pStack # << >> /\ pStack \in Seq(Frames)
        BY <2>6 DEF SpfInv, SpfStack
      <4>2. pStack = <<Head(pStack)>> \o Tail(pStack)
        BY <4>1
      <4>3. QED
        BY <2>8, <4>2 DEF Policy!SetTop, Policy!Top
    <3>4. n + pLookups' >= MaxLookups + (IF Policy!Top.read THEN 1 ELSE 0)
      BY <1>1, <2>1, <2>5
    <3> DEFINE f == Policy!Top
    <3>5. f \in Frames /\ Policy!SetTop(f) /\ ~f.read /\ f.redirect = {}
          /\ n + pLookups' >= MaxLookups + (IF f.read THEN 1 ELSE 0)
          /\ Mean(pZone, f, n) = Mean(pZone, Policy!Top, fuel[1])
          /\ pRet' = Mean(pZone, f, n)
      BY <2>1, <2>4, <2>6, <3>2, <3>3, <3>4
    <3> HIDE DEF f, n
    <3>6. QED
      BY <1>1, <2>1, <2>4, <2>5, <3>2, <3>5, MeansTop
  <2>9. ASSUME NEW record \in pZone[Policy!Top.dom].spf,
               Policy!SetTop([Policy!Top EXCEPT !.read = TRUE, !.todo = record]), pRet' = pRet
        PROVE  SpfMeans'
    <3> DEFINE f == [Policy!Top EXCEPT !.read = TRUE, !.todo = record]
    <3>1. record \in Seq(Policy!Terms)
      BY <1>1, <2>7, <2>9, OneRecord
    <3>2. f \in Frames /\ f.read /\ f.dom = Policy!Top.dom
      BY <2>6, <3>1 DEF Frames
    <3>3. Passed(pZone, f, n)
      BY <1>1, <2>4, <2>6, <2>7, <2>9, TopBegins
    <3>4. Policy!SetTop(f) /\ pRet' = Policy!Unknown
      BY <2>1, <2>9 DEF Policy!Active
    <3> HIDE DEF f
    <3>5. Mean(pZone, f, n) = Mean(pZone, Policy!Top, fuel[1])
      BY <3>2 DEF Mean
    <3>6. n + pLookups' >= MaxLookups + (IF f.read THEN 1 ELSE 0)
      BY <1>1, <2>5, <3>2
    <3> HIDE DEF n
    <3>7. QED
      BY <1>1, <2>1, <2>4, <2>5, <3>2, <3>3, <3>4, <3>5, <3>6, MeansTop
  <2>10. QED
    BY <2>8, <2>9, <2>3
<1>3. CASE Policy!SkipTerm \/ Policy!Static
  <2>1. /\ Policy!Active /\ Policy!Top.read /\ Policy!Top.todo # << >>
        /\ Policy!Term.mech \in {"skip", "all", "ip", "bad"} /\ UNCHANGED Policy!given
    BY <1>3 DEF Policy!SkipTerm, Policy!Static
  <2>2. Policy!Term \in Policy!Terms
    BY <2>1, SpfTop
  <2>3. \/ Policy!Advance
        \/ \E r : Policy!Comes(r)
    BY <1>3 DEF Policy!SkipTerm, Policy!Static
  <2>4. /\ pLookups' = pLookups /\ pFailed' = pFailed /\ pExhausted' = pExhausted
        /\ ~pFailed /\ ~pExhausted
    BY <2>3 DEF Policy!Advance, Policy!Comes
  <2>5. CASE Policy!Term.mech = "skip"
    <3>1. Policy!Advance
      BY <1>3, <2>5 DEF Policy!SkipTerm, Policy!Static
    <3>2. \A D : Policy!Decides(pZone, D, Policy!Term) = Policy!Unknown
      BY <2>2, <2>5, Deciding
    <3>3. QED
      BY <1>1, <2>1, <2>4, <2>5, <3>1, <3>2, MeansPassed DEF Policy!Advance
  <2>6. CASE Policy!Term.mech = "all" \/ Policy!Term.mech = "bad"
             \/ (Policy!Term.mech = "ip" /\ Policy!InNetwork(Client, Policy!Term.net, Policy!Term.len))
    <3>1. pStack' = pStack
          /\ pRet' = IF Policy!Term.mech = "bad" THEN "permerror" ELSE Policy!Term.q
      BY <1>3, <2>6 DEF Policy!SkipTerm, Policy!Static, Policy!Comes
    <3>2. \A D : Policy!Decides(pZone, D, Policy!Term) = pRet'
      BY <2>2, <2>6, <3>1, Deciding
    <3>3. pRet' # Policy!Unknown
      BY <2>2, <3>1, Deciding DEF Policy!Unknown
    <3>4. QED
      BY <1>1, <2>1, <2>4, <3>1, <3>2, <3>3, MeansDecided
  <2>7. CASE Policy!Term.mech = "ip" /\ ~Policy!InNetwork(Client, Policy!Term.net, Policy!Term.len)
    <3>1. Policy!Advance
      BY <1>3, <2>7 DEF Policy!SkipTerm, Policy!Static
    <3>2. \A D : Policy!Decides(pZone, D, Policy!Term) = Policy!Unknown
      BY <2>2, <2>7, Deciding
    <3>3. QED
      BY <1>1, <2>1, <2>4, <2>7, <3>1, <3>2, MeansPassed DEF Policy!Advance
  <2>8. QED
    BY <2>1, <2>5, <2>6, <2>7
<1>4. CASE Policy!MatchA
  <2>1. /\ Policy!Active /\ Policy!Top.read /\ Policy!Top.todo # << >>
        /\ Policy!Term.mech = "a" /\ UNCHANGED Policy!given /\ pLookups' = pLookups + 1
        /\ ~pFailed /\ ~pExhausted
        /\ \/ /\ Policy!Hit(Policy!Term.dom, Policy!Term.len)
              /\ pRet' = Policy!Term.q /\ pStack' = pStack
           \/ /\ ~Policy!Hit(Policy!Term.dom, Policy!Term.len)
              /\ Policy!SetTop(Policy!NextTerm(Policy!Top)) /\ pRet' = pRet
    BY <1>4 DEF Policy!MatchA, Policy!Exhaust, Policy!Count
  <2>2. Policy!Term \in Policy!Terms
    BY <2>1, SpfTop
  <2>3. /\ Policy!Term.q # Policy!Unknown
        /\ \A D : Policy!Decides(pZone, D, Policy!Term) =
                      IF Policy!Hit(Policy!Term.dom, Policy!Term.len)
                      THEN Policy!Term.q ELSE Policy!Unknown
    BY <2>1, <2>2, Deciding DEF Policy!Hit
  <2>4. CASE Policy!Hit(Policy!Term.dom, Policy!Term.len)
    BY <1>1, <2>1, <2>3, <2>4, MeansDecided
  <2>5. CASE ~Policy!Hit(Policy!Term.dom, Policy!Term.len)
    BY <1>1, <2>1, <2>3, <2>5, MeansPassed
  <2>6. QED
    BY <2>4, <2>5
<1>5. CASE Policy!MatchMx
  <2> DEFINE f == [Policy!Top EXCEPT !.mx = TRUE, !.hosts = pZone[Policy!Term.dom].mx]
  <2>1. /\ Policy!Active /\ Policy!Top.read /\ Policy!Top.todo # << >>
        /\ Policy!Term.mech = "mx" /\ UNCHANGED Policy!given /\ pLookups' = pLookups + 1
        /\ ~pFailed /\ ~pExhausted /\ Policy!SetTop(f) /\ pRet' = pRet
    BY <1>5 DEF Policy!MatchMx, Policy!Exhaust, Policy!Count
  <2>2. Policy!Term \in Policy!Terms /\ Policy!Top \in Frames
    BY <2>1, SpfTop
  <2>3. pZone[Policy!Term.dom].mx \in Seq(Domain)
    BY <1>1, <2>2 DEF Policy!Terms, Policy!Published
  <2>4. f \in Frames /\ f.read /\ f.dom = Policy!Top.dom
    BY <2>1, <2>2, <2>3 DEF Frames
  <2>5. \A n \in 1..MaxLookups : Passed(pZone, Policy!Top, n) => Passed(pZone, f, n)
    BY <1>1, <2>1, <2>2, MxBegins DEF Policy!Term
  <2> HIDE DEF f
  <2>6. QED
    BY <1>1, <2>1, <2>4, <2>5, MeansOn
<1>6. CASE Policy!MxHost
  <2> DEFINE f == [Policy!Top EXCEPT !.hosts = Tail(@)]
             hit == Policy!Hit(Head(Policy!Top.hosts), Policy!Term.len)
  <2>1. /\ Policy!Active /\ Policy!Top.mx /\ Policy!Top.hosts # << >>
        /\ UNCHANGED Policy!given /\ pLookups' = pLookups + 1
        /\ ~pFailed /\ ~pExhausted
        /\ \/ hit /\ pRet' = Policy!Term.q /\ pStack' = pStack
           \/ ~hit /\ Policy!SetTop(f) /\ pRet' = pRet
    BY <1>6 DEF Policy!MxHost, Policy!Exhaust, Policy!Count
  <2>2. /\ Policy!Top \in Frames /\ Policy!Top.read /\ Policy!Top.todo # << >>
        /\ Policy!Term \in Policy!Terms /\ Tail(Policy!Top.hosts) \in Seq(Domain)
    BY <2>1, SpfTop DEF Paid
  <2>3. \A n \in 1..MaxLookups : Passed(pZone, Policy!Top, n) => MxPassed(pZone, Policy!Top)
    BY <2>1 DEF Passed, PassedTo
  <2>4. MxPassed(pZone, Policy!Top) =>
            IF hit THEN \A D : Policy!Decides(pZone, D, Policy!Term) = Policy!Term.q
            ELSE MxPassed(pZone, f)
    BY <1>1, <2>1, <2>2, MxHosts DEF Policy!Hit, Policy!Term
  <2>5. CASE hit
    <3>1. pRet' = Policy!Term.q /\ pStack' = pStack /\ Policy!Term.q # Policy!Unknown
      BY <2>1, <2>2, <2>5, Deciding
    <3>2. ASSUME NEW n \in 1..MaxLookups, Passed(pZone, Policy!Top, n)
          PROVE  pRet' = Mean(pZone, Policy!Top, n)
      <4>1. Policy!Decides(pZone, Policy!Meant(pZone)[n - 1], Policy!Term) = pRet'
        BY <2>3, <2>4, <2>5, <3>1, <3>2
      <4>2. QED
        BY <1>1, <2>2, <3>1, <3>2, <4>1, TopDecides DEF Policy!Term
    <3>3. QED
      BY <1>1, <2>1, <2>2, <3>1, <3>2, MeansComes
  <2>6. CASE ~hit
    <3>1. f \in Frames /\ f.read /\ f.dom = Policy!Top.dom /\ f.todo = Policy!Top.todo
          /\ f.redirect = Policy!Top.redirect
      BY <2>2 DEF Frames
    <3>2. ASSUME NEW n \in 1..MaxLookups, Passed(pZone, Policy!Top, n)
          PROVE  Passed(pZone, f, n)
      <4>1. MxPassed(pZone, f)
        BY <2>3, <2>4, <2>6, <3>2
      <4> HIDE DEF f
      <4>2. PICK rec \in pZone[Policy!Top.dom].spf :
                PassedTo(pZone, Policy!Top, n, rec, Len(rec) - Len(Policy!Top.todo))
        BY <3>2 DEF Passed
      <4>3. PassedTo(pZone, f, n, rec, Len(rec) - Len(f.todo)) /\ rec \in pZone[f.dom].spf
        BY <3>1, <4>1, <4>2 DEF PassedTo
      <4>4. QED
        BY <4>3 DEF Passed
    <3>3. Policy!SetTop(f) /\ pRet' = pRet
      BY <2>1, <2>6
    <3> HIDE DEF f
    <3>4. QED
      BY <1>1, <2>1, <2>2, <3>1, <3>2, <3>3, MeansOn
  <2>7. QED
    BY <2>5, <2>6
<1>7. CASE Policy!MxNone
  <2> DEFINE f == Policy!NextTerm(Policy!Top)
  <2>1. /\ Policy!Active /\ Policy!Top.mx /\ Policy!Top.hosts = << >>
        /\ UNCHANGED Policy!given /\ pLookups' = pLookups
        /\ ~pFailed /\ ~pExhausted /\ Policy!SetTop(f) /\ pRet' = pRet
    BY <1>7 DEF Policy!MxNone, Policy!Advance
  <2>2. /\ Policy!Top \in Frames /\ Policy!Top.read /\ Policy!Top.todo # << >>
        /\ Paid(Policy!Top, pLookups)
    BY <2>1, SpfTop DEF Paid
  <2>3. f \in Frames /\ f.read /\ f.dom = Policy!Top.dom
    <3>1. f \in Frames
      BY <2>2, SpfNextTerm
    <3>2. QED
      BY <2>2, <3>1 DEF Policy!NextTerm, Frames
  <2>4. ASSUME NEW n \in 1..MaxLookups, Passed(pZone, Policy!Top, n) PROVE Passed(pZone, f, n)
    <3>1. MxPassed(pZone, Policy!Top)
      BY <2>1, <2>4 DEF Passed, PassedTo
    <3>2. Head(Policy!Top.todo).mech # "redirect"
      BY <3>1 DEF MxPassed
    <3>3. Policy!Decides(pZone, Policy!Meant(pZone)[n - 1], Head(Policy!Top.todo)) = Policy!Unknown
      BY <1>1, <2>1, <2>2, <3>1, MxHosts
    <3>4. QED
      BY <1>1, <2>2, <2>4, <3>2, <3>3, TopPasses
  <2> HIDE DEF f
  <2>5. QED
    BY <1>1, <2>1, <2>2, <2>3, <2>4, MeansOn
<1>8. CASE Policy!Include
  <2> DEFINE f == Policy!Frame(Policy!Term.dom, 0)
  <2>1. /\ Policy!Active /\ Policy!Top.read /\ Policy!Top.todo # << >> /\ ~Policy!Top.mx
        /\ Policy!Term.mech = "include" /\ UNCHANGED Policy!given /\ pLookups' = pLookups
        /\ ~pFailed /\ ~pExhausted /\ ~Policy!Spent
        /\ pStack' = <<f>> \o pStack /\ pRet' = pRet /\ pRet = Policy!Unknown
    BY <1>8 DEF Policy!Include, Policy!Exhaust, Policy!Active
  <2>2. PICK fuel \in [DOMAIN pStack -> 0..MaxLookups] :
            Follow(pZone, pStack, fuel, pLookups, Policy!Unknown, pSender)
    BY <2>1, MeansAt
  <2>3. pStack # << >> /\ pStack \in Seq(Frames) /\ Policy!Top = pStack[1]
    <3>1. pStack # << >> /\ pStack \in Seq(Frames)
      BY <2>1, SpfTop DEF SpfInv, SpfStack
    <3>2. QED
      BY <3>1, StackTop DEF Policy!Top
  <2>4. f \in Frames /\ ~f.read /\ f.redirect = {} /\ f.dom = Policy!Term.dom
    <3>1. Policy!Term.dom \in Domain
      BY <2>1, SpfTop DEF Policy!Terms
    <3>2. f \in Frames
      BY <1>1, <3>1, SpfNewFrame
    <3>3. QED
      BY <3>2 DEF Policy!Frame
  <2>5. pLookups < MaxLookups
    BY <1>1, <2>1 DEF Policy!Spent
  <2> HIDE DEF f
  <2>6. /\ <<f>> \o pStack # << >>
        /\ \E fuel2 \in [DOMAIN (<<f>> \o pStack) -> 0..MaxLookups] :
               Follow(pZone, <<f>> \o pStack, fuel2, pLookups, Policy!Unknown, pSender)
    BY <1>1, <2>1, <2>2, <2>3, <2>4, <2>5, FollowPush DEF Policy!Term
  <2>7. QED
    BY <2>1, <2>6 DEF SpfMeans, Policy!given
<1>9. CASE Policy!Return
  <2> DEFINE caller == pStack[2]
             f == Policy!NextTerm(caller)
             s == Tail(pStack)
             term == Head(caller.todo)
  <2>1. /\ pPhase = "spf" /\ pRet # Policy!Unknown /\ Len(pStack) > 1
        /\ pRet' = Policy!Included(term.q, pRet) /\ pStack' = <<f>> \o Tail(s)
        /\ UNCHANGED Policy!given /\ pLookups' = pLookups /\ ~pFailed /\ ~pExhausted
    BY <1>9 DEF Policy!Return
  <2>2. pStack \in Seq(Frames) /\ 2 \in DOMAIN pStack
    BY <2>1 DEF SpfInv, SpfStack
  <2>3. PICK fuel \in [DOMAIN pStack -> 0..MaxLookups] :
            Follow(pZone, pStack, fuel, pLookups, pRet, pSender)
    BY <2>1 DEF SpfMeans
  <2>4. /\ s \in Seq(Frames) /\ s # << >> /\ s[1] = caller
        /\ Waits(pZone, caller, fuel[2], pRet)
        /\ \E fuel2 \in [DOMAIN s -> 0..MaxLookups] :
               fuel2[1] = fuel[2] /\ Follow(pZone, s, fuel2, pLookups, Policy!Unknown, pSender)
    BY <1>1, <2>1, <2>2, <2>3, FollowPop
  <2>5. PICK fuel2 \in [DOMAIN s -> 0..MaxLookups] :
            fuel2[1] = fuel[2] /\ Follow(pZone, s, fuel2, pLookups, Policy!Unknown, pSender)
    BY <2>4
  <2> DEFINE n == fuel[2]
  <2>6. /\ caller \in Frames /\ caller.read /\ caller.todo # << >> /\ term.mech = "include"
        /\ pRet = Policy!Meant(pZone)[n - 1][term.dom]
        /\ Passed(pZone, caller, n) /\ n + pLookups >= MaxLookups + 1 /\ n \in 0..MaxLookups
    <3>1. caller \in Frames /\ caller.read /\ n \in 0..MaxLookups
      BY <2>2, <2>4 DEF Waits
    <3>2. n + pLookups >= MaxLookups + (IF caller.read THEN 1 ELSE 0)
          /\ Passed(pZone, caller, n)
      BY <2>2, <2>3, <3>1 DEF Follow
    <3>3. QED
      BY <2>4, <3>1, <3>2 DEF Waits
  <2>7. n \in 1..MaxLookups
    <3>1. pLookups <= MaxLookups
      BY DEF SpfInv, SpfCount
    <3>2. QED
      BY <1>1, <2>6, <3>1
  <2>8. term \in Policy!Terms
    <3>1. caller.todo \in Seq(Policy!Terms)
      BY <2>6 DEF Frames
    <3>2. PICK rest : rest = caller.todo
      OBVIOUS
    <3>3. caller.todo # << >>
      BY <2>6
    <3>4. rest \in Seq(Policy!Terms) /\ rest # << >>
      BY <3>1, <3>2, <3>3
    <3>5. Head(rest) \in Policy!Terms
      BY <3>4
    <3>6. QED
      BY <3>2, <3>5
  <2>9. Policy!Decides(pZone, Policy!Meant(pZone)[n - 1], term) = pRet'
    <3>1. PICK t : t = term
      OBVIOUS
    <3>2. t \in Policy!Terms /\ t.mech = "include"
      BY <2>6, <2>8, <3>1
    <3>3. Policy!Decides(pZone, Policy!Meant(pZone)[n - 1], t) =
              Policy!Included(t.q, Policy!Meant(pZone)[n - 1][t.dom])
      BY <3>2, Deciding
    <3>4. pRet = Policy!Meant(pZone)[n - 1][t.dom] /\ pRet' = Policy!Included(t.q, pRet)
      BY <2>1, <2>6, <3>1
    <3>5. QED
      BY <3>1, <3>3, <3>4
  <2>10. f \in Frames /\ f.read /\ f.dom = caller.dom
    <3>1. Paid(caller, pLookups)
      BY <2>2 DEF SpfInv, SpfStack
    <3>2. f \in Frames
      BY <2>6, <3>1, SpfNextTerm
    <3>3. QED
      BY <2>6, <3>2 DEF Policy!NextTerm, Frames
  <2>11. Mean(pZone, f, n) = Mean(pZone, s[1], fuel2[1])
    BY <2>4, <2>5, <2>10 DEF Mean
  <2>12. pRet' = Policy!Unknown => Passed(pZone, f, n)
    BY <1>1, <2>6, <2>7, <2>9, TopPasses
  <2>13. pRet' # Policy!Unknown => pRet' = Mean(pZone, f, n)
    <3>1. pRet' # Policy!Unknown => pRet' = Mean(pZone, caller, n)
      BY <1>1, <2>6, <2>7, <2>9, TopDecides
    <3>2. QED
      BY <2>10, <3>1 DEF Mean
  <2>14. n + pLookups >= MaxLookups + (IF f.read THEN 1 ELSE 0)
    BY <2>6, <2>10
  <2> HIDE DEF f, s, n
  <2>15. /\ <<f>> \o Tail(s) # << >>
         /\ \E fuel3 \in [DOMAIN (<<f>> \o Tail(s)) -> 0..MaxLookups] :
                Follow(pZone, <<f>> \o Tail(s), fuel3, pLookups, pRet', pSender)
    <3>1. n \in 0..MaxLookups
      BY <2>6
    <3>2. QED
      BY <1>1, <2>4, <2>5, <2>10, <2>11, <2>12, <2>13, <2>14, <3>1, FollowTop
  <2>16. QED
    BY <2>1, <2>15 DEF SpfMeans, Policy!given
<1>10. CASE Policy!Redirect
  <2> DEFINE f == [Policy!NextTerm(Policy!Top) EXCEPT !.redirect = {Policy!Term.dom}]
  <2>1. /\ Policy!Active /\ Policy!Top.read /\ Policy!Top.todo # << >>
        /\ Policy!Term.mech = "redirect" /\ UNCHANGED Policy!given /\ pLookups' = pLookups
        /\ ~pFailed /\ ~pExhausted /\ Policy!SetTop(f) /\ pRet' = pRet
    BY <1>10 DEF Policy!Redirect
  <2>2. /\ Policy!Top \in Frames /\ Policy!Term \in Policy!Terms /\ Paid(Policy!Top, pLookups)
    BY <2>1, SpfTop
  <2>3. f \in Frames /\ f.read /\ f.dom = Policy!Top.dom
    <3>1. Policy!NextTerm(Policy!Top) \in Frames
      BY <2>1, <2>2, SpfNextTerm
    <3>2. Policy!Term.dom \in Domain
      BY <2>2 DEF Policy!Terms
    <3>3. /\ Policy!NextTerm(Policy!Top).read
          /\ Policy!NextTerm(Policy!Top).dom = Policy!Top.dom
      BY <2>1, <2>2 DEF Policy!NextTerm, Frames
    <3>4. QED
      BY <3>1, <3>2, <3>3 DEF Frames
  <2>4. \A D : Policy!Decides(pZone, D, Policy!Term) = Policy!Unknown
    BY <2>1, <2>2, Deciding
  <2>5. \A n \in 1..MaxLookups : Passed(pZone, Policy!Top, n) => Passed(pZone, f, n)
    BY <1>1, <2>1, <2>2, <2>4, TopPasses DEF Policy!Term
  <2> HIDE DEF f
  <2>6. QED
    BY <1>1, <2>1, <2>3, <2>5, MeansOn
<1>11. CASE Policy!EndOfRecord
  <2>1. /\ Policy!Active /\ Policy!Top.read /\ Policy!Top.todo = << >>
        /\ UNCHANGED Policy!given /\ pLookups' = pLookups /\ ~pFailed /\ ~pExhausted
    BY <1>11 DEF Policy!EndOfRecord, Policy!Comes, Policy!Exhaust
  <2>2. Policy!Top \in Frames /\ Paid(Policy!Top, pLookups)
    BY <2>1, SpfTop
  <2>3. CASE Policy!Top.redirect = {}
    <3>1. pRet' = "neutral" /\ pStack' = pStack
      BY <1>11, <2>3 DEF Policy!EndOfRecord, Policy!Comes
    <3>2. \A n \in 1..MaxLookups :
              Passed(pZone, Policy!Top, n) => pRet' = Mean(pZone, Policy!Top, n)
      BY <1>1, <2>1, <2>2, <2>3, <3>1, TopEnds
    <3>3. QED
      BY <1>1, <2>1, <3>1, <3>2, MeansComes DEF Policy!Unknown
  <2>4. CASE Policy!Top.redirect # {}
    <3>1. PICK d \in Policy!Top.redirect :
              /\ Policy!SetTop(Policy!Frame(d, Policy!Top.depth + 1)) /\ pRet' = pRet
              /\ ~Policy!Spent
      BY <1>11, <2>4 DEF Policy!EndOfRecord, Policy!Exhaust
    <3> DEFINE f == Policy!Frame(d, Policy!Top.depth + 1)
    <3>2. f \in Frames /\ ~f.read /\ f.redirect = {} /\ f.dom = d
      <4>1. d \in Domain /\ Policy!Top.depth + 1 \in Nat
        BY <2>2 DEF Frames
      <4>2. f \in Frames
        BY <4>1, SpfNewFrame
      <4>3. QED
        BY <4>2 DEF Policy!Frame
    <3>3. PICK fuel \in [DOMAIN pStack -> 0..MaxLookups] :
              /\ Follow(pZone, pStack, fuel, pLookups, Policy!Unknown, pSender)
              /\ fuel[1] \in 1..MaxLookups /\ fuel[1] + pLookups >= MaxLookups + 1
              /\ Passed(pZone, Policy!Top, fuel[1])
      BY <2>1, MeansAt
    <3> DEFINE n == fuel[1] - 1
    <3>4. n \in 0..MaxLookups /\ n + pLookups' >= MaxLookups + (IF f.read THEN 1 ELSE 0)
      BY <1>1, <2>1, <3>2, <3>3
    <3>5. Mean(pZone, f, n) = Mean(pZone, Policy!Top, fuel[1])
      BY <1>1, <2>1, <2>2, <3>2, <3>3, TopEnds DEF Mean
    <3>6. pRet' = Policy!Unknown /\ Policy!SetTop(f)
      BY <2>1, <3>1 DEF Policy!Active
    <3> HIDE DEF f, n
    <3>7. QED
      BY <1>1, <2>1, <3>2, <3>3, <3>4, <3>5, <3>6, MeansTop
  <2>5. QED
    BY <2>3, <2>4
<1>12. QED
  BY <1>2, <1>3, <1>4, <1>5, <1>6, <1>7, <1>8, <1>9, <1>10, <1>11 DEF Policy!Evaluate

(* Before its first query an evaluation comes to what it should.              *)
LEMMA MeansInit == Policy!Init => SpfMeans
<1> SUFFICES ASSUME Policy!Init PROVE SpfMeans
  OBVIOUS
<1> DEFINE f == Policy!Frame(pSender, 0)
           fuel == [i \in {1} |-> MaxLookups]
<1>1. /\ pLookups = 0 /\ pStack = <<f>> /\ pRet = Policy!Unknown
  BY DEF Policy!Init
<1>2. ~f.read /\ f.redirect = {} /\ f.dom = pSender
  BY DEF Policy!Frame
<1> HIDE DEF f
<1>3. /\ DOMAIN pStack = {1} /\ Len(pStack) = 1 /\ pStack[1] = f /\ pStack # << >>
  BY <1>1
<1>4. MaxLookups \in 0..MaxLookups /\ MaxLookups \in Nat
  BY SpfConstants
<1>5. fuel \in [DOMAIN pStack -> 0..MaxLookups] /\ fuel[1] = MaxLookups
  BY <1>3, <1>4
<1> HIDE DEF fuel
<1>6. Follow(pZone, pStack, fuel, pLookups, pRet, pSender)
  BY <1>1, <1>2, <1>3, <1>4, <1>5 DEF Follow, Mean
<1>7. QED
  BY <1>3, <1>5, <1>6 DEF SpfMeans

(* When SPF has its result it is the one that it should be.                   *)
LEMMA MeansStep ==
    SpfInv /\ SpfMeans /\ Policy!Faithful /\ Policy!Next => SpfMeans' /\ Policy!Faithful'
<1> SUFFICES ASSUME SpfInv, SpfMeans, Policy!Faithful, Policy!Next
             PROVE  SpfMeans' /\ Policy!Faithful'
  OBVIOUS
<1>1. CASE Policy!Evaluate
  <2>1. pPhase = "spf" /\ pPhase' = pPhase
    BY <1>1 DEF Policy!Evaluate, Policy!AskTxt, Policy!SkipTerm, Policy!Static, Policy!MatchA,
                Policy!MatchMx, Policy!MxHost, Policy!MxNone, Policy!Include, Policy!Return,
                Policy!Redirect, Policy!EndOfRecord, Policy!OnTerm, Policy!Active, Policy!results
  <2>2. QED
    BY <1>1, <2>1, MeansEvaluate DEF Policy!Faithful
<1>2. CASE Policy!SpfDone
  <2>1. /\ pPhase = "spf" /\ pPhase' = "dkim" /\ pRet # Policy!Unknown /\ Len(pStack) = 1
        /\ pSpf' = pRet /\ pFailed' = pFailed
        /\ pTruth' = IF pExhausted THEN pRet ELSE Policy!Meant(pZone)[MaxLookups][pSender]
    BY <1>2 DEF Policy!SpfDone
  <2>2. ~pFailed /\ ~pExhausted => pRet = Policy!Meant(pZone)[MaxLookups][pSender]
    BY <2>1 DEF SpfMeans, Follow
  <2>3. QED
    BY <2>1, <2>2 DEF SpfMeans, Policy!Faithful
<1>3. CASE Policy!Verify \/ Policy!Evaluated \/ Policy!Decide \/ Policy!Rest
  <2>1. CASE Policy!Rest
    <3>1. UNCHANGED <<pPhase, pFailed, pExhausted, pStack, pZone, pLookups, pRet, pSender, pSpf, pTruth>>
      BY <2>1 DEF Policy!Rest, Policy!vars
    <3>2. QED
      BY <3>1 DEF SpfMeans, Policy!Faithful
  <2>2. CASE Policy!Verify \/ Policy!Evaluated \/ Policy!Decide
    <3>1. pPhase' \in {"dmarc", "score", "done"}
      BY <2>2 DEF Policy!Verify, Policy!Evaluated, Policy!Decide
    <3>2. QED
      BY <3>1 DEF SpfMeans, Policy!Faithful
  <2>3. QED
    BY <1>3, <2>1, <2>2
<1>4. QED
  BY <1>1, <1>2, <1>3 DEF Policy!Next

(* The evaluation of SPF keeps to its budget, is cut short only by it, and if *)
(* no query fails it comes to what the records mean, followed through         *)
(* includes and redirects without a budget (SpfMeant), whatever is published  *)
(* and however the records refer to each other.                               *)
THEOREM SpfMeansWhatItSays == NetworkSpec => []SpfMeant
<1>1. NetworkInit => SpfMeans /\ Policy!Faithful
  BY MeansInit DEF NetworkInit, Policy!Init, Policy!Faithful
<1>2. SpfInv /\ SpfMeans /\ Policy!Faithful /\ [NetworkNext]_allVars
        => SpfMeans' /\ Policy!Faithful'
  <2>1. ASSUME SpfMeans, Policy!Faithful, UNCHANGED pVars PROVE SpfMeans' /\ Policy!Faithful'
    BY <2>1 DEF pVars, SpfMeans, Policy!Faithful
  <2>2. QED
    BY <2>1, MeansStep DEF NetworkNext, allVars
<1>3. Policy!WithinBudget /\ Policy!Faithful => SpfMeant
  BY DEF SpfMeant, Policy!SpfMeant
<1>4. QED
  BY <1>1, <1>2, <1>3, SpfInvariant, SpfKeepsBudget, PTL DEF NetworkSpec, allVars

-------------------------------------------------------------------------------
(* What the policy makes of the results, every query answered.                *)

(* The results are what they should be; a policy that is applied is one that  *)
(* the domain asks for and nothing vouches against.                           *)
PolicyTrue ==
    /\ pPhase = "dmarc" /\ ~pFailed =>
           pSpf = pTruth /\ \A d \in pDkim : d.status = d.truth
    /\ pPhase \in {"score", "done"} /\ ~pFailed =>
           (pDmarc.fails /\ pDmarc.policy = "reject" => pDmarc.just)
    /\ pVerdict = "refused" => pPhase = "done" /\ pDmarc.fails /\ pDmarc.policy = "reject"

(* A message that nothing is known of is not refused.                         *)
LEMMA PolicyInit == Policy!Init => PolicyTrue
BY DEF Policy!Init, PolicyTrue, Policy!Undecided, Policy!Unknown

(* The score never refuses a message, only a policy does.                     *)
LEMMA RefusedOutcome ==
    ASSUME NEW cfg, NEW hits, NEW score, Policy!Outcome(cfg, hits, score) = "refused"
    PROVE  pDmarc.fails /\ pDmarc.policy = "reject"
BY DEF Policy!Outcome

(* The signatures that verify are those whose query was answered.             *)
LEMMA PolicyEvaluated ==
    ASSUME PolicyTrue, Policy!Evaluated, ~pFailed', pDmarc'.fails, pDmarc'.policy = "reject"
    PROVE  pDmarc'.just
<1>1. PICK from \in Domain, own \in Policies \union {Policy!NoRecord},
           org \in Policies \union {Policy!NoRecord}, unanswered \in SUBSET {"own", "org"} :
         /\ pDmarc' = [fails |-> Policy!Found(own, org, from, unanswered) # Policy!NoRecord
                          /\ ~Policy!Passes(Policy!Found(own, org, from, unanswered), from, pSpf,
                                 {d.dom : d \in {x \in pDkim : x.status = "pass"}}),
                       policy |-> Policy!Policy(Policy!Found(own, org, from, unanswered), from),
                       just |-> Policy!Wanted(Policy!Found(own, org, from, {}), from)
                          /\ ~Policy!Passes(Policy!Found(own, org, from, {}), from, pTruth,
                                 {d.dom : d \in {x \in pDkim : x.truth = "pass"}})]
         /\ pFailed' = (pFailed \/ unanswered # {})
  BY DEF Policy!Evaluated
<1>2. ~pFailed /\ unanswered = {} /\ pPhase = "dmarc"
  BY <1>1 DEF Policy!Evaluated
<1>3. pSpf = pTruth /\ {x \in pDkim : x.status = "pass"} = {x \in pDkim : x.truth = "pass"}
  BY <1>2 DEF PolicyTrue
<1> DEFINE rec == Policy!Found(own, org, from, {})
           pass == Policy!Passes(rec, from, pTruth, {d.dom : d \in {x \in pDkim : x.truth = "pass"}})
<1>4. pDmarc' = [fails |-> rec # Policy!NoRecord /\ ~pass, policy |-> Policy!Policy(rec, from),
                 just |-> Policy!Wanted(rec, from) /\ ~pass]
  BY <1>1, <1>2, <1>3
<1> HIDE DEF rec, pass
<1>5. rec # Policy!NoRecord /\ ~pass /\ Policy!Policy(rec, from) = "reject"
  BY <1>4
<1>6. Policy!Wanted(rec, from)
  BY <1>5 DEF Policy!Wanted, Policy!Policy
<1>7. QED
  BY <1>4, <1>5, <1>6

(* If SPF comes to what the records mean, no step refuses a message whose     *)
(* domain did not want it refused (inbound_trust_check).                      *)
LEMMA PolicyStep == PolicyTrue /\ Policy!Faithful /\ Policy!Next => PolicyTrue'
<1> SUFFICES ASSUME PolicyTrue, Policy!Faithful, Policy!Next PROVE PolicyTrue'
  OBVIOUS
<1>1. CASE Policy!Evaluate \/ Policy!SpfDone
  <2>1. pPhase = "spf" /\ pPhase' \in {"spf", "dkim"} /\ pVerdict' = pVerdict
    <3>1. CASE Policy!Evaluate
      BY <3>1 DEF Policy!Evaluate, Policy!AskTxt, Policy!SkipTerm, Policy!Static, Policy!MatchA,
                  Policy!MatchMx, Policy!MxHost, Policy!MxNone, Policy!Include, Policy!Return,
                  Policy!Redirect, Policy!EndOfRecord, Policy!OnTerm, Policy!Active,
                  Policy!results
    <3>2. CASE Policy!SpfDone
      BY <3>2 DEF Policy!SpfDone
    <3>3. QED
      BY <1>1, <3>1, <3>2
  <2>2. QED
    BY <2>1 DEF PolicyTrue
<1>2. CASE Policy!Verify
  <2>1. /\ pPhase = "dkim" /\ pPhase' = "dmarc" /\ pSpf' = pSpf /\ pTruth' = pTruth
        /\ pVerdict' = pVerdict
    BY <1>2 DEF Policy!Verify
  <2>2. PICK sigs \in SUBSET Signatures, unanswered \in SUBSET Domain :
          /\ pDkim' = {[dom |-> s.dom, truth |-> s.status,
                        status |-> IF s.dom \in unanswered THEN "temperror" ELSE s.status] :
                           s \in sigs}
          /\ pFailed' = (pFailed \/ unanswered # {})
    BY <1>2 DEF Policy!Verify
  <2>3. ASSUME ~pFailed', NEW d \in pDkim' PROVE d.status = d.truth
    <3>1. unanswered = {}
      BY <2>2, <2>3
    <3>2. PICK s \in sigs :
              d = [dom |-> s.dom, truth |-> s.status,
                   status |-> IF s.dom \in unanswered THEN "temperror" ELSE s.status]
      BY <2>2, <2>3
    <3>3. QED
      BY <3>1, <3>2
  <2>4. ~pFailed' => pSpf' = pTruth'
    BY <2>1, <2>2 DEF Policy!Faithful
  <2>5. QED
    BY <2>1, <2>3, <2>4 DEF PolicyTrue
<1>3. CASE Policy!Evaluated
  <2>1. pPhase = "dmarc" /\ pPhase' = "score" /\ pVerdict' = pVerdict
    BY <1>3 DEF Policy!Evaluated
  <2>2. ~pFailed' => (pDmarc'.fails /\ pDmarc'.policy = "reject" => pDmarc'.just)
    BY <1>3, PolicyEvaluated
  <2>3. QED
    BY <2>1, <2>2 DEF PolicyTrue
<1>4. CASE Policy!Decide
  <2>1. /\ pPhase = "score" /\ pPhase' = "done" /\ pDmarc' = pDmarc /\ pFailed' = pFailed
        /\ \E cfg \in Settings, hits \in Policy!Hits, points \in Policy!Points :
               pVerdict' = Policy!Outcome(cfg, hits, Policy!Score(hits, points))
    BY <1>4 DEF Policy!Decide
  <2>2. pVerdict' = "refused" => pDmarc.fails /\ pDmarc.policy = "reject"
    BY <2>1, RefusedOutcome
  <2>3. QED
    BY <2>1, <2>2 DEF PolicyTrue
<1>5. CASE Policy!Rest
  BY <1>5 DEF Policy!Rest, Policy!vars, PolicyTrue
<1>6. QED
  BY <1>1, <1>2, <1>3, <1>4, <1>5 DEF Policy!Next

(* When every query is answered, a message is refused for its sender's policy *)
(* only if the domain, or its organization, asks for it and nothing vouches   *)
(* for it - for all records, policies, signatures and settings.               *)
THEOREM RefusedByPolicyOnly == NetworkSpec => []RefusalJustified
<1>1. NetworkInit => PolicyTrue
  BY PolicyInit DEF NetworkInit
<1>2. PolicyTrue /\ SpfMeant /\ [NetworkNext]_allVars => PolicyTrue'
  <2>1. ASSUME PolicyTrue, UNCHANGED pVars PROVE PolicyTrue'
    BY <2>1 DEF pVars, PolicyTrue
  <2>2. QED
    BY <2>1, PolicyStep DEF NetworkNext, allVars, SpfMeant, Policy!SpfMeant
<1>3. PolicyTrue => RefusalJustified
  BY DEF PolicyTrue, RefusalJustified, Policy!RefusalJustified, Policy!Justified
<1>4. QED
  BY <1>1, <1>2, <1>3, SpfMeansWhatItSays, PTL DEF NetworkSpec, allVars
===============================================================================

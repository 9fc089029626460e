------------------------- MODULE OutboundQueueProofs -------------------------
(***************************************************************************)
(* Proofs about the outbound queue, for every set of messages, recipients  *)
(* and every backoff table: the inductive invariant IndInv and the safety  *)
(* properties that follow from it.                                         *)
(***************************************************************************)
EXTENDS OutboundQueue, TLAPS

\* The backoff table always yields a positive delay.
LEMMA BackoffPositive ==
    ASSUME NEW retry \in Nat
    PROVE  BackoffSecs(retry) \in Nat \ {0}
<1>1. Len(Backoff) \in Nat /\ Len(Backoff) > 0
  BY BackoffAssumption
<1>2. CASE retry < Len(Backoff)
  <2>1. retry + 1 \in 1..Len(Backoff)
    BY <1>1, <1>2
  <2>2. Backoff[retry + 1] \in Nat \ {0}
    BY <2>1, BackoffAssumption
  <2>3. QED
    BY <1>2, <2>2 DEF BackoffSecs
<1>3. CASE ~(retry < Len(Backoff))
  <2>1. Len(Backoff) \in 1..Len(Backoff)
    BY <1>1
  <2>2. Backoff[Len(Backoff)] \in Nat \ {0}
    BY <2>1, BackoffAssumption
  <2>3. QED
    BY <1>3, <2>2 DEF BackoffSecs
<1>4. QED
  BY <1>2, <1>3

\* Counting a decision keeps the shape of the counters.
LEMMA BumpType ==
    ASSUME NEW count \in [Msg -> [Rcpt -> Nat]], NEW m \in Msg, NEW R
    PROVE  /\ Bump(count, m, R) \in [Msg -> [Rcpt -> Nat]]
           /\ \A n \in Msg, r \in Rcpt :
                Bump(count, m, R)[n][r] =
                    IF n = m /\ r \in R THEN count[n][r] + 1 ELSE count[n][r]
BY DEF Bump

-----------------------------------------------------------------------------
(* Type correctness *)

LEMMA InitType == Init => TypeOK
BY BackoffAssumption
   DEF Init, TypeOK, WorkerIdle, Extent, Header, NoHeader, Loaded, NoLoaded,
       NoMsg

LEMMA TypeStep == TypeOK /\ WorkerInv /\ [Next]_vars => TypeOK'
<1> SUFFICES ASSUME TypeOK, WorkerInv, [Next]_vars PROVE TypeOK'
  OBVIOUS
<1> USE DEF diskVars, workVars, fateVars, histVars
<1>1. CASE Tick
  BY <1>1, BoundAssumption DEF Tick, TypeOK
<1>2. ASSUME NEW m \in Msg, Enqueue(m) PROVE TypeOK'
  <2>1. CASE EnqueueCreate(m)
    BY <2>1, ToAssumption DEF EnqueueCreate, TypeOK, Header, Extent
  <2>2. CASE EnqueueSeparator(m)
    BY <2>2 DEF EnqueueSeparator, EnqueueWrite, TypeOK, Extent
  <2>3. CASE EnqueueBody(m)
    BY <2>3 DEF EnqueueBody, EnqueueWrite, TypeOK, Extent
  <2>4. CASE EnqueueReturn(m)
    BY <2>4 DEF EnqueueReturn, TypeOK
  <2>5. CASE EnqueueError(m)
    BY <2>5 DEF EnqueueError, TypeOK
  <2>6. QED
    BY <1>2, <2>1, <2>2, <2>3, <2>4, <2>5 DEF Enqueue
<1>3. ASSUME NEW m \in Msg, AdminDelete(m) PROVE TypeOK'
  BY <1>3 DEF AdminDelete, TypeOK, Extent
<1>4. CASE WorkerWake
  BY <1>4 DEF WorkerWake, TypeOK
<1>5. CASE ScanDone
  BY <1>5 DEF ScanDone, TypeOK
<1>6. ASSUME NEW m \in Msg, Visit(m) PROVE TypeOK'
  <2>1. CASE EntrySkip(m)
    BY <2>1 DEF EntrySkip, TypeOK
  <2>2. CASE EntryExpired(m)
    BY <2>2 DEF EntryExpired, EntryLoad, TypeOK, Header, Loaded
  <2>3. CASE EntryAttempt(m)
    BY <2>3 DEF EntryAttempt, EntryLoad, Invalid, TypeOK, Header, Loaded
  <2>4. QED
    BY <1>6, <2>1, <2>2, <2>3 DEF Visit
<1>7. CASE Session
  <2>1. ASSUME NEW r \in Rcpt, DomainStart(r) PROVE TypeOK'
    BY <2>1, BoundAssumption DEF DomainStart, SameSession, TypeOK
  <2>2. CASE DomainDeferred
    BY <2>2 DEF DomainDeferred, EndSession, TypeOK
  <2>3. CASE AddressAccepts
    <3>1. cur \in Msg
      BY <2>3 DEF AddressAccepts, WorkerInv, TypeOK
    <3>2. copies' \in [Msg -> [Rcpt -> Nat]]
      BY <2>3, <3>1, BumpType DEF AddressAccepts, RemoteTakes, TypeOK
    <3>3. truncated' \in [Msg -> SUBSET Rcpt]
      BY <2>3, <3>1 DEF AddressAccepts, RemoteTakes, TypeOK
    <3>4. QED
      BY <2>3, <3>2, <3>3 DEF AddressAccepts, RemoteTakes, EndSession, TypeOK
  <2>4. CASE AddressRefuses
    BY <2>4 DEF AddressRefuses, EndSession, TypeOK
  <2>5. CASE AddressFails
    BY <2>5 DEF AddressFails, TypeOK
  <2>6. CASE ReplyLost
    <3>1. cur \in Msg
      BY <2>6 DEF ReplyLost, WorkerInv, TypeOK
    <3>2. copies' \in [Msg -> [Rcpt -> Nat]]
      BY <2>6, <3>1, BumpType DEF ReplyLost, RemoteTakes, TypeOK
    <3>3. truncated' \in [Msg -> SUBSET Rcpt]
      BY <2>6, <3>1 DEF ReplyLost, RemoteTakes, TypeOK
    <3>4. faults' \in [Msg -> Nat] /\ tries' \in Nat
      BY <2>6, <3>1 DEF ReplyLost, TypeOK
    <3>5. QED
      BY <2>6, <3>2, <3>3, <3>4 DEF ReplyLost, RemoteTakes, TypeOK
  <2>7. CASE DomainsDone
    BY <2>7 DEF DomainsDone, TypeOK
  <2>8. QED
    BY <1>7, <2>1, <2>2, <2>3, <2>4, <2>5, <2>6, <2>7 DEF Session
<1>8. CASE Settle
  <2>1. CASE BounceStored
    <3>1. cur \in Msg
      BY <2>1 DEF BounceStored, WorkerInv, TypeOK
    <3>2. notices' \in [Msg -> [Rcpt -> Nat]]
      BY <2>1, <3>1, BumpType DEF BounceStored, TypeOK
    <3>3. QED
      BY <2>1, <3>2 DEF BounceStored, TypeOK
  <2>2. CASE BounceUnreported
    <3>1. cur \in Msg
      BY <2>2 DEF BounceUnreported, WorkerInv, TypeOK
    <3>2. unreported' \in [Msg -> [Rcpt -> Nat]]
      BY <2>2, <3>1, BumpType DEF BounceUnreported, TypeOK
    <3>3. QED
      BY <2>2, <3>2 DEF BounceUnreported, TypeOK
  <2>3. CASE OutcomeDone
    BY <2>3 DEF OutcomeDone, TypeOK
  <2>4. CASE OutcomeGiveUp
    BY <2>4 DEF OutcomeGiveUp, TypeOK
  <2>5. CASE OutcomeRetry
    <3>1. cur \in Msg
      BY <2>5 DEF OutcomeRetry, WorkerInv, TypeOK
    <3>2. msg.retry \in Nat /\ msg.created \in Nat
      BY DEF TypeOK, Loaded
    <3>3. NextAttempt \in Nat
      BY <3>2, BackoffPositive DEF NextAttempt, TypeOK
    <3>4. hdr' \in [Msg -> Header]
      BY <2>5, <3>1, <3>2, <3>3 DEF OutcomeRetry, Header, TypeOK
    <3>5. NoLoaded \in Loaded
      BY DEF NoLoaded, Loaded
    <3>6. QED
      BY <2>5, <3>1, <3>4, <3>5
         DEF OutcomeRetry, EndEntry, Extent, TypeOK
  <2>6. CASE RemoveFile
    <3>1. NoLoaded \in Loaded
      BY DEF NoLoaded, Loaded
    <3>2. QED
      BY <2>6, <3>1 DEF RemoveFile, EndEntry, Extent, TypeOK
  <2>7. CASE PersistError
    <3>1. NoLoaded \in Loaded
      BY DEF NoLoaded, Loaded
    <3>2. cur \in Msg
      BY <2>7 DEF PersistError, WorkerInv, TypeOK
    <3>3. faults' \in [Msg -> Nat]
      BY <2>7, <3>2 DEF PersistError, TypeOK
    <3>4. QED
      BY <2>7, <3>1, <3>3 DEF PersistError, EndEntry, TypeOK
  <2>8. QED
    BY <1>8, <2>1, <2>2, <2>3, <2>4, <2>5, <2>6, <2>7 DEF Settle
<1>9. CASE Crash
  <2>1. NoLoaded \in Loaded
    BY DEF NoLoaded, Loaded
  <2>2. faults' \in [Msg -> Nat] /\ crashes' \in Nat
    BY <1>9 DEF Crash, TypeOK
  <2>3. enq' \in [Msg -> {"idle", "header", "separator", "body", "ok", "failed"}]
    BY <1>9 DEF Crash, TypeOK
  <2>4. QED
    BY <1>9, <2>1, <2>2, <2>3 DEF Crash, TypeOK
<1>10. CASE UNCHANGED vars
  BY <1>10 DEF vars, TypeOK
<1>11. QED
  BY <1>1, <1>2, <1>3, <1>4, <1>5, <1>6, <1>7, <1>8, <1>9, <1>10
     DEF Next, Worker
-----------------------------------------------------------------------------
(* The worker's lists *)

LEMMA InitWorker == Init => WorkerInv
BY DEF Init, WorkerIdle, WorkerInv, Pending

LEMMA WorkerStep == TypeOK /\ WorkerInv /\ [Next]_vars => WorkerInv'
<1> SUFFICES ASSUME TypeOK, WorkerInv, [Next]_vars PROVE WorkerInv'
  OBVIOUS
<1> USE DEF workVars, WorkerInv, Pending
<1>1. CASE Tick
  BY <1>1 DEF Tick
<1>2. ASSUME NEW m \in Msg, Enqueue(m) PROVE WorkerInv'
  BY <1>2 DEF Enqueue, EnqueueCreate, EnqueueSeparator, EnqueueBody,
              EnqueueWrite, EnqueueReturn, EnqueueError
<1>3. ASSUME NEW m \in Msg, AdminDelete(m) PROVE WorkerInv'
  BY <1>3 DEF AdminDelete
<1>4. CASE WorkerWake \/ ScanDone
  BY <1>4 DEF WorkerWake, ScanDone
<1>5. ASSUME NEW m \in Msg, Visit(m) PROVE WorkerInv'
  <2>1. CASE EntrySkip(m)
    BY <2>1 DEF EntrySkip, NextEntry
  <2>2. CASE EntryExpired(m)
    BY <2>2, MsgAssumption DEF EntryExpired, EntryLoad, NextEntry, NoMsg
  <2>3. CASE EntryAttempt(m)
    BY <2>3, MsgAssumption DEF EntryAttempt, EntryLoad, NextEntry, NoMsg
  <2>4. QED
    BY <1>5, <2>1, <2>2, <2>3 DEF Visit
<1>6. CASE Session
  <2>1. ASSUME NEW r \in Rcpt, DomainStart(r) PROVE WorkerInv'
    BY <2>1 DEF DomainStart
  <2>2. CASE DomainDeferred
    BY <2>2 DEF DomainDeferred, EndSession
  <2>3. CASE AddressAccepts
    BY <2>3 DEF AddressAccepts, EndSession
  <2>4. CASE AddressRefuses
    BY <2>4 DEF AddressRefuses, EndSession
  <2>5. CASE AddressFails \/ ReplyLost
    BY <2>5 DEF AddressFails, ReplyLost
  <2>6. CASE DomainsDone
    BY <2>6 DEF DomainsDone
  <2>7. QED
    BY <1>6, <2>1, <2>2, <2>3, <2>4, <2>5, <2>6 DEF Session
<1>7. CASE Settle
  <2>1. CASE BounceStored \/ BounceUnreported
    BY <2>1 DEF BounceStored, BounceUnreported
  <2>2. CASE OutcomeDone \/ OutcomeGiveUp
    BY <2>2 DEF OutcomeDone, OutcomeGiveUp
  <2>3. CASE OutcomeRetry \/ RemoveFile \/ PersistError
    BY <2>3 DEF OutcomeRetry, RemoveFile, PersistError, EndEntry
  <2>4. QED
    BY <1>7, <2>1, <2>2, <2>3 DEF Settle
<1>8. CASE Crash
  BY <1>8 DEF Crash
<1>9. CASE UNCHANGED vars
  BY <1>9 DEF vars
<1>10. QED
  BY <1>1, <1>2, <1>3, <1>4, <1>5, <1>6, <1>7, <1>8, <1>9 DEF Next, Worker

-----------------------------------------------------------------------------
(* How a step changes the number of decisions *)

\* The step decides the fate of the recipients R of cur, of nobody else.
Decides(R) ==
    \A m \in Msg, r \in Rcpt :
        Decided(m, r)' = IF m = cur /\ r \in R THEN Decided(m, r) + 1
                                               ELSE Decided(m, r)

LEMMA DecidedNat ==
    ASSUME TypeOK, NEW m \in Msg, NEW r \in Rcpt
    PROVE  Decided(m, r) \in Nat
BY DEF TypeOK, Decided

LEMMA DecidesNobody == ASSUME UNCHANGED fateVars PROVE Decides({})
BY DEF fateVars, Decides, Decided

LEMMA TakesDecides ==
    ASSUME TypeOK, cur \in Msg, RemoteTakes PROVE Decides(group)
<1>1. copies \in [Msg -> [Rcpt -> Nat]]
  BY DEF TypeOK
<1>2. ASSUME NEW m \in Msg, NEW r \in Rcpt
      PROVE  copies'[m][r] = IF m = cur /\ r \in group THEN copies[m][r] + 1
                                                       ELSE copies[m][r]
  BY <1>1, BumpType DEF RemoteTakes
<1>3. QED
  BY <1>2 DEF RemoteTakes, Decides, Decided, TypeOK

LEMMA BounceDecides ==
    ASSUME TypeOK, cur \in Msg, BounceStored \/ BounceUnreported
    PROVE  Decides(perm)
<1>1. \A m \in Msg, r \in Rcpt :
        copies[m][r] \in Nat /\ notices[m][r] \in Nat /\ unreported[m][r] \in Nat
  BY DEF TypeOK
<1>t. notices \in [Msg -> [Rcpt -> Nat]] /\ unreported \in [Msg -> [Rcpt -> Nat]]
  BY DEF TypeOK
<1>2. CASE BounceStored
  <2>1. ASSUME NEW m \in Msg, NEW r \in Rcpt
        PROVE  notices'[m][r] = IF m = cur /\ r \in perm THEN notices[m][r] + 1
                                                         ELSE notices[m][r]
    BY <1>t, <1>2, BumpType DEF BounceStored
  <2>2. UNCHANGED <<copies, cur, unreported>>
    BY <1>2 DEF BounceStored
  <2>3. QED
    BY <1>1, <2>1, <2>2 DEF Decides, Decided
<1>3. CASE BounceUnreported
  <2>1. ASSUME NEW m \in Msg, NEW r \in Rcpt
        PROVE  unreported'[m][r] =
                   IF m = cur /\ r \in perm THEN unreported[m][r] + 1
                                            ELSE unreported[m][r]
    BY <1>t, <1>3, BumpType DEF BounceUnreported
  <2>2. UNCHANGED <<copies, cur, notices>>
    BY <1>3 DEF BounceUnreported
  <2>3. QED
    BY <1>1, <2>1, <2>2 DEF Decides, Decided
<1>4. QED
  BY <1>2, <1>3

\* While a message is being processed, cur is that message.
LEMMA CurBusy ==
    ASSUME TypeOK, WorkerInv, wpc \notin {"sleep", "next"} PROVE cur \in Msg
BY DEF TypeOK, WorkerInv

-----------------------------------------------------------------------------
(* The steps that serve a recipient, and all the others *)

ServingStep ==
    AddressAccepts \/ ReplyLost \/ BounceStored \/ BounceUnreported

\* Every step decides the fate of nobody, or of the session under way, or of
\* those a bounce names.
LEMMA StepDecides ==
    ASSUME TypeOK, WorkerInv, [Next]_vars
    PROVE  \/ ~ServingStep /\ Decides({})
           \/ (AddressAccepts \/ ReplyLost) /\ cur \in Msg /\ Decides(group)
           \/ (BounceStored \/ BounceUnreported) /\ cur \in Msg /\ Decides(perm)
<1>1. CASE AddressAccepts \/ ReplyLost
  BY <1>1, CurBusy, TakesDecides DEF AddressAccepts, ReplyLost
<1>2. CASE BounceStored \/ BounceUnreported
  BY <1>2, CurBusy, BounceDecides DEF BounceStored, BounceUnreported
<1>3. CASE ~ServingStep
  <2>1. UNCHANGED fateVars
    <3>1. CASE Tick \/ Crash
      BY <3>1 DEF Tick, Crash
    <3>2. CASE \E m \in Msg : Enqueue(m) \/ AdminDelete(m)
      BY <3>2 DEF Enqueue, EnqueueCreate, EnqueueSeparator, EnqueueBody,
                  EnqueueWrite, EnqueueReturn, EnqueueError, AdminDelete
    <3>3. CASE WorkerWake \/ ScanDone \/ \E m \in Msg : Visit(m)
      BY <3>3 DEF WorkerWake, ScanDone, Visit, EntrySkip, EntryExpired,
                  EntryAttempt, EntryLoad
    <3>4. CASE Session
      BY <3>4, <1>3 DEF Session, ServingStep, DomainStart, DomainDeferred,
                        AddressRefuses, AddressFails, DomainsDone
    <3>5. CASE Settle
      BY <3>5, <1>3 DEF Settle, ServingStep, OutcomeDone, OutcomeGiveUp,
                        OutcomeRetry, RemoveFile, PersistError
    <3>6. CASE UNCHANGED vars
      BY <3>6 DEF vars
    <3>7. QED
      BY <3>1, <3>2, <3>3, <3>4, <3>5, <3>6 DEF Next, Worker
  <2>2. QED
    BY <1>3, <2>1, DecidesNobody
<1>4. QED
  BY <1>1, <1>2, <1>3 DEF ServingStep

-----------------------------------------------------------------------------
(* The file and its writer *)

LEMMA InitFile == Init => FileInv
BY MsgAssumption DEF Init, WorkerIdle, FileInv, Decided, NoMsg

LEMMA FileStep == TypeOK /\ WorkerInv /\ FileInv /\ [Next]_vars => FileInv'
<1> SUFFICES ASSUME TypeOK, WorkerInv, FileInv, [Next]_vars PROVE FileInv'
  OBVIOUS
<1> USE DEF diskVars, workVars, FileInv
<1>0. \A m \in Msg : enq[m] = "idle" =>
          \A r \in Rcpt : Decided(m, r)' = 0
  BY StepDecides DEF Decides
<1>1. CASE Tick
  BY <1>0, <1>1 DEF Tick
<1>2. ASSUME NEW m \in Msg, Enqueue(m) PROVE FileInv'
  <2>1. CASE EnqueueCreate(m)
    BY <1>0, <2>1 DEF EnqueueCreate, TypeOK
  <2>2. CASE EnqueueSeparator(m)
    BY <1>0, <2>2 DEF EnqueueSeparator, EnqueueWrite, TypeOK
  <2>3. CASE EnqueueBody(m)
    BY <1>0, <2>3 DEF EnqueueBody, EnqueueWrite, TypeOK
  <2>4. CASE EnqueueReturn(m)
    BY <1>0, <2>4 DEF EnqueueReturn, TypeOK
  <2>5. CASE EnqueueError(m)
    BY <1>0, <2>5 DEF EnqueueError, TypeOK
  <2>6. QED
    BY <1>2, <2>1, <2>2, <2>3, <2>4, <2>5 DEF Enqueue
<1>3. ASSUME NEW m \in Msg, AdminDelete(m) PROVE FileInv'
  BY <1>0, <1>3 DEF AdminDelete, TypeOK
<1>4. CASE WorkerWake \/ ScanDone
  BY <1>0, <1>4 DEF WorkerWake, ScanDone
<1>5. ASSUME NEW m \in Msg, Visit(m) PROVE FileInv'
  BY <1>0, <1>5 DEF Visit, EntrySkip, EntryExpired, EntryAttempt, EntryLoad,
                    Readable
<1>6. CASE Session
  <2>1. UNCHANGED <<onDisk, enq, linked, cur>>
    BY <1>6 DEF Session, DomainStart, DomainDeferred, AddressAccepts,
                AddressRefuses, AddressFails, ReplyLost, DomainsDone
  <2>2. QED
    BY <1>0, <2>1
<1>7. CASE Settle
  <2>1. CASE BounceStored \/ BounceUnreported \/ OutcomeDone \/ OutcomeGiveUp
    BY <1>0, <2>1
       DEF BounceStored, BounceUnreported, OutcomeDone, OutcomeGiveUp
  <2>2. CASE OutcomeRetry
    BY <1>0, <2>2, MsgAssumption
       DEF OutcomeRetry, EndEntry, WorkerInv, TypeOK, NoMsg
  <2>3. CASE RemoveFile
    BY <1>0, <2>3, MsgAssumption
       DEF RemoveFile, EndEntry, WorkerInv, TypeOK, NoMsg
  <2>4. CASE PersistError
    BY <1>0, <2>4, MsgAssumption DEF PersistError, EndEntry, NoMsg
  <2>5. QED
    BY <1>7, <2>1, <2>2, <2>3, <2>4 DEF Settle
<1>8. CASE Crash
  BY <1>0, <1>8, MsgAssumption DEF Crash, NoMsg, TypeOK
<1>9. CASE UNCHANGED vars
  BY <1>0, <1>9 DEF vars
<1>10. QED
  BY <1>1, <1>2, <1>3, <1>4, <1>5, <1>6, <1>7, <1>8, <1>9 DEF Next, Worker

-----------------------------------------------------------------------------
(* Nobody is forgotten *)

LEMMA InitAccount == Init => AccountInv
BY DEF Init, WorkerIdle, AccountInv, NoMsg

\* A decision taken or a deletion made is never undone.
LEMMA DecidedStays ==
    ASSUME TypeOK, WorkerInv, [Next]_vars, NEW m \in Msg, NEW r \in Rcpt,
           Decided(m, r) > 0
    PROVE  Decided(m, r)' > 0
<1>1. Decided(m, r) \in Nat
  BY DecidedNat
<1>2. QED
  BY <1>1, StepDecides DEF Decides

LEMMA AccountStep ==
    TypeOK /\ WorkerInv /\ FileInv /\ AccountInv /\ [Next]_vars => AccountInv'
<1> SUFFICES ASSUME TypeOK, WorkerInv, FileInv, AccountInv, [Next]_vars
             PROVE  AccountInv'
  OBVIOUS
<1> USE DEF diskVars, workVars, histVars, AccountInv
<1>0. \A m \in Msg : To[m] \subseteq Rcpt
  BY ToAssumption
<1>1. \A m \in Msg, r \in Rcpt : Decided(m, r) > 0 => Decided(m, r)' > 0
  BY DecidedStays
<1>2. CASE Tick
  BY <1>0, <1>1, <1>2, CurBusy DEF Tick, Pending, TypeOK
<1>3. ASSUME NEW m \in Msg, Enqueue(m) PROVE AccountInv'
  <2>1. CASE EnqueueCreate(m)
    <3>1. \A n \in Msg : \A r \in To[n] : enq'[n] # "idle" =>
              \/ Decided(n, r)' > 0
              \/ n \in cancelled'
              \/ onDisk'[n] # "absent" /\ r \in hdr'[n].rcpts
      BY <1>0, <1>1, <2>1 DEF EnqueueCreate, TypeOK
    <3>2. cur' = cur /\ Pending' = Pending /\ cancelled' = cancelled
      BY <2>1 DEF EnqueueCreate, Pending
    <3>3. QED
      BY <1>0, <1>1, <3>1, <3>2 DEF TypeOK
  <2>2. CASE EnqueueSeparator(m) \/ EnqueueBody(m)
    <3>1. cur' = cur /\ Pending' = Pending /\ cancelled' = cancelled /\ hdr' = hdr
      BY <2>2 DEF EnqueueSeparator, EnqueueBody, EnqueueWrite, Pending
    <3>2. \A n \in Msg : /\ enq'[n] # "idle" => enq[n] # "idle"
                         /\ onDisk[n] # "absent" => onDisk'[n] # "absent"
      BY <2>2 DEF EnqueueSeparator, EnqueueBody, EnqueueWrite, TypeOK
    <3>3. QED
      BY <1>0, <1>1, <3>1, <3>2 DEF TypeOK
  <2>3. CASE EnqueueReturn(m) \/ EnqueueError(m)
    <3>1. cur' = cur /\ Pending' = Pending /\ UNCHANGED <<cancelled, onDisk, hdr>>
      BY <2>3 DEF EnqueueReturn, EnqueueError, Pending
    <3>2. \A n \in Msg : enq'[n] # "idle" => enq[n] # "idle"
      BY <2>3 DEF EnqueueReturn, EnqueueError, TypeOK
    <3>3. QED
      BY <1>0, <1>1, <3>1, <3>2 DEF TypeOK
  <2>4. QED
    BY <1>3, <2>1, <2>2, <2>3 DEF Enqueue
<1>4. ASSUME NEW m \in Msg, AdminDelete(m) PROVE AccountInv'
  <2>1. cur' = cur /\ Pending' = Pending /\ hdr' = hdr /\ enq' = enq
    BY <1>4 DEF AdminDelete, Pending
  <2>2. \A n \in Msg : n \notin cancelled' =>
            n \notin cancelled /\ onDisk'[n] = onDisk[n]
    BY <1>4 DEF AdminDelete, TypeOK
  <2>3. QED
    BY <1>0, <1>1, <2>1, <2>2 DEF TypeOK
<1>5. CASE WorkerWake \/ ScanDone
  BY <1>0, <1>1, <1>5 DEF WorkerWake, ScanDone, Pending, TypeOK
<1>6. ASSUME NEW m \in Msg, Visit(m) PROVE AccountInv'
  <2>1. UNCHANGED <<onDisk, hdr, enq, cancelled>>
    BY <1>6 DEF Visit, EntrySkip, EntryExpired, EntryAttempt, EntryLoad
  <2>2. CASE EntrySkip(m)
    BY <1>0, <1>1, <2>1, <2>2 DEF EntrySkip, Pending, TypeOK
  <2>3. CASE EntryExpired(m) \/ EntryAttempt(m)
    <3>1. cur' = m /\ onDisk[m] # "absent"
      BY <2>3 DEF EntryExpired, EntryAttempt, EntryLoad, Readable
    <3>2. hdr[m].rcpts \subseteq Pending'
      BY <2>3 DEF EntryExpired, EntryAttempt, EntryLoad, Pending
    <3>3. enq[m] # "idle"
      BY <3>1 DEF FileInv
    <3>4. \A r \in To[m] :
              r \in Pending' \/ Decided(m, r)' > 0 \/ m \in cancelled'
      BY <1>0, <1>1, <2>1, <3>2, <3>3
    <3>5. QED
      BY <1>0, <1>1, <2>1, <3>1, <3>4
  <2>4. QED
    BY <1>6, <2>2, <2>3 DEF Visit
<1>7. CASE Session
  <2>1. UNCHANGED <<onDisk, hdr, enq, cancelled, cur>>
    BY <1>7 DEF Session, DomainStart, DomainDeferred, AddressAccepts,
                AddressRefuses, AddressFails, ReplyLost, DomainsDone
  <2>2. cur \in Msg
    BY <1>7, CurBusy DEF Session, DomainStart, DomainDeferred, AddressAccepts,
                AddressRefuses, AddressFails, ReplyLost, DomainsDone
  <2>3. \A r \in Rcpt : r \in Pending => r \in Pending' \/ Decided(cur, r)' > 0
    <3>1. CASE AddressAccepts
      <4>1. Decides(group)
        BY <2>2, <3>1, TakesDecides DEF AddressAccepts
      <4>2. \A r \in group : r \in Rcpt => Decided(cur, r)' > 0
        BY <2>1, <2>2, <4>1, DecidedNat DEF Decides
      <4>3. QED
        BY <3>1, <4>2 DEF AddressAccepts, Pending
    <3>2. ASSUME NEW r \in Rcpt, DomainStart(r) PROVE Pending \subseteq Pending'
      <4>1. group = {}
        BY <3>2 DEF DomainStart, WorkerInv
      <4>2. left \subseteq left' \union group' /\ UNCHANGED <<remaining, perm>>
        BY <3>2 DEF DomainStart
      <4>3. QED
        BY <4>1, <4>2 DEF Pending
    <3>3. CASE DomainDeferred \/ AddressRefuses
      BY <3>3 DEF DomainDeferred, AddressRefuses, EndSession, Pending
    <3>4. CASE AddressFails \/ ReplyLost \/ DomainsDone
      BY <3>4 DEF AddressFails, ReplyLost, DomainsDone, Pending
    <3>5. QED
      BY <1>7, <3>1, <3>2, <3>3, <3>4 DEF Session
  <2>4. QED
    BY <1>0, <1>1, <2>1, <2>2, <2>3
<1>8. CASE Settle
  <2>1. CASE BounceStored \/ BounceUnreported
    <3>1. UNCHANGED <<onDisk, hdr, enq, cancelled, cur, left, group, remaining>>
      BY <2>1 DEF BounceStored, BounceUnreported
    <3>2. cur \in Msg
      BY <2>1, CurBusy DEF BounceStored, BounceUnreported
    <3>3. Decides(perm)
      BY <2>1, <3>2, BounceDecides
    <3>4. \A r \in perm : r \in Rcpt => Decided(cur, r)' > 0
      BY <3>1, <3>2, <3>3, DecidedNat DEF Decides
    <3>5. \A r \in Rcpt : r \in Pending => r \in Pending' \/ Decided(cur, r)' > 0
      BY <3>1, <3>4 DEF Pending
    <3>6. QED
      BY <1>0, <1>1, <3>1, <3>2, <3>5
  <2>2. CASE OutcomeDone \/ OutcomeGiveUp
    <3>1. UNCHANGED <<onDisk, hdr, enq, cancelled, cur>> /\ Pending' = Pending
      BY <2>2 DEF OutcomeDone, OutcomeGiveUp, Pending, WorkerInv
    <3>2. QED
      BY <1>0, <1>1, <3>1 DEF TypeOK
  <2>3. CASE OutcomeRetry
    <3>1. cur \in Msg /\ Pending = remaining
      BY <2>3, CurBusy DEF OutcomeRetry, WorkerInv, Pending
    <3>2. cur' = NoMsg /\ UNCHANGED <<enq, cancelled>>
      BY <2>3 DEF OutcomeRetry, EndEntry
    <3>3. onDisk'[cur] # "absent" /\ hdr'[cur].rcpts = remaining
      BY <2>3, <3>1 DEF OutcomeRetry, TypeOK
    <3>4. \A n \in Msg \ {cur} : onDisk'[n] = onDisk[n] /\ hdr'[n] = hdr[n]
      BY <2>3, <3>1 DEF OutcomeRetry, TypeOK
    <3>5. QED
      BY <1>0, <1>1, <3>1, <3>2, <3>3, <3>4, MsgAssumption DEF NoMsg
  <2>4. CASE RemoveFile
    <3>1. cur \in Msg /\ Pending = {}
      BY <2>4, CurBusy DEF RemoveFile, WorkerInv, Pending
    <3>2. cur' = NoMsg /\ UNCHANGED <<enq, cancelled, hdr>>
      BY <2>4 DEF RemoveFile, EndEntry
    <3>3. \A n \in Msg \ {cur} : onDisk'[n] = onDisk[n]
      BY <2>4, <3>1 DEF RemoveFile, TypeOK
    <3>4. QED
      BY <1>0, <1>1, <3>1, <3>2, <3>3, MsgAssumption DEF NoMsg
  <2>5. CASE PersistError
    BY <1>0, <1>1, <2>5, MsgAssumption DEF PersistError, EndEntry, NoMsg
  <2>6. QED
    BY <1>8, <2>1, <2>2, <2>3, <2>4, <2>5 DEF Settle
<1>9. CASE Crash
  BY <1>0, <1>1, <1>9, MsgAssumption DEF Crash, NoMsg, TypeOK
<1>10. CASE UNCHANGED vars
  BY <1>0, <1>1, <1>10 DEF vars, Pending, TypeOK
<1>11. QED
  BY <1>2, <1>3, <1>4, <1>5, <1>6, <1>7, <1>8, <1>9, <1>10 DEF Next, Worker

-----------------------------------------------------------------------------
(* Whoever is still to be served has a fault to spare *)

LEMMA InitCopy == Init => CopyInv
BY DEF Init, WorkerIdle, CopyInv, OneFateBarringFaults, Decided, NoMsg

\* Only the three faults are counted, and a count never goes down.
LEMMA FaultsGrow ==
    ASSUME TypeOK, WorkerInv, [Next]_vars
    PROVE  /\ \A m \in Msg : faults[m] \in Nat /\ faults'[m] \in Nat
           /\ \A m \in Msg : faults'[m] >= faults[m]
<1>1. CASE ReplyLost \/ PersistError
  <2>1. cur \in Msg /\ faults' = [faults EXCEPT ![cur] = @ + 1]
    BY <1>1, CurBusy DEF ReplyLost, PersistError
  <2>2. QED
    BY <2>1 DEF TypeOK
<1>2. CASE Crash
  BY <1>2 DEF Crash, TypeOK
<1>3. CASE ~(ReplyLost \/ PersistError \/ Crash)
  <2>1. CASE Tick \/ (\E m \in Msg : Enqueue(m) \/ AdminDelete(m))
    BY <2>1 DEF histVars, Tick, Enqueue, EnqueueCreate, EnqueueSeparator,
                EnqueueBody, EnqueueWrite, EnqueueReturn, EnqueueError,
                AdminDelete, TypeOK
  <2>2. CASE WorkerWake \/ ScanDone \/ (\E m \in Msg : Visit(m))
    BY <2>2 DEF histVars, WorkerWake, ScanDone, Visit, EntrySkip,
                EntryExpired, EntryAttempt, EntryLoad, TypeOK
  <2>3. CASE Session \/ Settle
    BY <1>3, <2>3
       DEF histVars, Session, Settle, DomainStart, DomainDeferred,
           AddressAccepts, AddressRefuses, AddressFails, DomainsDone,
           BounceStored, BounceUnreported, OutcomeDone, OutcomeGiveUp,
           OutcomeRetry, RemoveFile, TypeOK
  <2>4. CASE UNCHANGED vars
    BY <2>4 DEF vars, histVars, TypeOK
  <2>5. QED
    BY <1>3, <2>1, <2>2, <2>3, <2>4 DEF Next, Worker
<1>4. QED
  BY <1>1, <1>2, <1>3

LEMMA CopyStep ==
    TypeOK /\ WorkerInv /\ FileInv /\ CopyInv /\ [Next]_vars => CopyInv'
<1> SUFFICES ASSUME TypeOK, WorkerInv, FileInv, CopyInv, [Next]_vars
             PROVE  CopyInv'
  OBVIOUS
<1> USE DEF diskVars, workVars, fateVars, histVars, CopyInv,
            OneFateBarringFaults
<1>0. \A m \in Msg : hdr[m].rcpts \subseteq Rcpt
  BY DEF TypeOK, Header
<1>1. \A m \in Msg, r \in Rcpt : Decided(m, r) \in Nat
  BY DecidedNat
<1>2. /\ \A m \in Msg : faults[m] \in Nat /\ faults'[m] \in Nat
      /\ \A m \in Msg : faults'[m] >= faults[m]
  BY FaultsGrow
<1>3. Pending \subseteq Rcpt
  BY DEF TypeOK, Pending
\* A step that serves nobody keeps the bound on everybody.
<1>4. ASSUME Decides({})
      PROVE  /\ \A m \in Msg, r \in Rcpt : Decided(m, r)' = Decided(m, r)
             /\ OneFateBarringFaults'
  BY <1>1, <1>2, <1>4 DEF Decides
<1>5. CASE Tick
  <2>1. Decides({})
    BY <1>5, DecidesNobody DEF Tick
  <2>2. QED
    BY <1>0, <1>3, <1>4, <1>5, <2>1 DEF Tick, Pending, TypeOK
<1>6. ASSUME NEW m \in Msg, Enqueue(m) PROVE CopyInv'
  <2>1. Decides({}) /\ cur' = cur /\ Pending' = Pending /\ faults' = faults
    BY <1>6, DecidesNobody
       DEF Enqueue, EnqueueCreate, EnqueueSeparator, EnqueueBody,
           EnqueueWrite, EnqueueReturn, EnqueueError, Pending
  <2>2. CASE EnqueueCreate(m)
    <3>1. \A r \in Rcpt : Decided(m, r) = 0
      BY <2>2 DEF EnqueueCreate, FileInv
    <3>2. \A n \in Msg \ {m} : onDisk'[n] = onDisk[n] /\ hdr'[n] = hdr[n]
      BY <2>2 DEF EnqueueCreate, TypeOK
    <3>3. hdr'[m].rcpts \subseteq Rcpt
      BY <2>2, ToAssumption DEF EnqueueCreate, TypeOK
    <3>4. \A n \in Msg : n # cur' /\ onDisk'[n] # "absent" =>
              \A r \in hdr'[n].rcpts : Decided(n, r)' <= faults'[n]
      BY <1>0, <1>2, <1>4, <2>1, <3>1, <3>2, <3>3
    <3>5. cur' # NoMsg => \A r \in Pending' : Decided(cur, r)' <= faults'[cur]
      BY <1>3, <1>4, <2>1 DEF TypeOK
    <3>6. QED
      BY <1>4, <2>1, <3>4, <3>5
  <2>3. CASE ~EnqueueCreate(m)
    <3>1. /\ hdr' = hdr
          /\ \A n \in Msg : onDisk[n] = "absent" => onDisk'[n] = "absent"
      BY <1>6, <2>3
         DEF Enqueue, EnqueueSeparator, EnqueueBody, EnqueueWrite,
             EnqueueReturn, EnqueueError, FileInv, TypeOK
    <3>2. QED
      BY <1>0, <1>1, <1>2, <1>3, <1>4, <2>1, <3>1 DEF TypeOK
  <2>4. QED
    BY <2>2, <2>3

<1>7. ASSUME NEW m \in Msg, AdminDelete(m) PROVE CopyInv'
  <2>1. Decides({}) /\ cur' = cur /\ Pending' = Pending /\ faults' = faults
    BY <1>7, DecidesNobody DEF AdminDelete, Pending
  <2>2. hdr' = hdr /\ \A n \in Msg : onDisk[n] = "absent" => onDisk'[n] = "absent"
    BY <1>7 DEF AdminDelete, TypeOK
  <2>3. QED
    BY <1>0, <1>1, <1>2, <1>3, <1>4, <2>1, <2>2 DEF TypeOK
<1>8. CASE WorkerWake \/ ScanDone
  <2>1. /\ Decides({}) /\ Pending' = Pending
        /\ UNCHANGED <<cur, faults, hdr, onDisk>>
    BY <1>8, DecidesNobody DEF WorkerWake, ScanDone, Pending
  <2>2. QED
    BY <1>0, <1>3, <1>4, <2>1 DEF TypeOK
<1>9. ASSUME NEW m \in Msg, Visit(m) PROVE CopyInv'
  <2>1. Decides({}) /\ UNCHANGED <<faults, hdr, onDisk>>
    BY <1>9, DecidesNobody
       DEF Visit, EntrySkip, EntryExpired, EntryAttempt, EntryLoad
  <2>2. CASE EntrySkip(m)
    <3>1. Pending' = Pending /\ cur' = cur
      BY <2>2 DEF EntrySkip, Pending
    <3>2. QED
      BY <1>0, <1>3, <1>4, <2>1, <3>1 DEF TypeOK
  <2>3. CASE EntryExpired(m) \/ EntryAttempt(m)
    <3>1. cur = NoMsg /\ Pending = {} /\ m # NoMsg
      BY <2>3, MsgAssumption
         DEF EntryExpired, EntryAttempt, EntryLoad, NextEntry, WorkerInv, NoMsg
    <3>2. cur' = m /\ onDisk[m] # "absent"
      BY <2>3 DEF EntryExpired, EntryAttempt, EntryLoad, Readable
    <3>3. Pending' \subseteq hdr[m].rcpts
      BY <2>3, <3>1
         DEF EntryExpired, EntryAttempt, EntryLoad, Invalid, Pending
    <3>4. \A r \in hdr[m].rcpts : Decided(m, r) <= faults[m]
      BY <3>1, <3>2
    <3>5. \A n \in Msg : n # cur
      BY <3>1, MsgAssumption DEF NoMsg
    <3>6. QED
      BY <1>0, <1>4, <2>1, <3>2, <3>3, <3>4, <3>5
  <2>4. QED
    BY <1>9, <2>2, <2>3 DEF Visit
<1>10. CASE Session
  <2>1. cur \in Msg /\ UNCHANGED <<onDisk, hdr, cur>>
    BY <1>10, CurBusy
       DEF Session, DomainStart, DomainDeferred, AddressAccepts,
           AddressRefuses, AddressFails, ReplyLost, DomainsDone
  <2>2. CASE ~(AddressAccepts \/ ReplyLost)
    <3>1. Decides({}) /\ faults' = faults
      BY <1>10, <2>2, DecidesNobody
         DEF Session, DomainStart, DomainDeferred, AddressRefuses,
             AddressFails, DomainsDone
    <3>2. Pending' \subseteq Pending
      BY <1>10, <2>2
         DEF Session, DomainStart, DomainDeferred, AddressRefuses, EndSession,
             AddressFails, DomainsDone, Pending
    <3>3. QED
      BY <1>0, <1>3, <1>4, <2>1, <3>1, <3>2
  <2>3. CASE AddressAccepts
    <3>1. Decides(group) /\ faults' = faults
      BY <2>1, <2>3, TakesDecides DEF AddressAccepts
    <3>2. Pending' \subseteq Pending \ group
      BY <2>3 DEF AddressAccepts, EndSession, Pending, WorkerInv
    <3>3. group \subseteq Pending
      BY DEF Pending
    <3>4. \A r \in Rcpt : /\ r \notin group => Decided(cur, r)' = Decided(cur, r)
                          /\ r \in group => Decided(cur, r)' = Decided(cur, r) + 1
      BY <2>1, <3>1 DEF Decides
    <3>5. \A m \in Msg, r \in Rcpt : m # cur => Decided(m, r)' = Decided(m, r)
      BY <3>1 DEF Decides
    <3>6. \A r \in Pending : Decided(cur, r) <= faults[cur]
      BY <2>1, MsgAssumption DEF NoMsg
    <3>7. \A m \in Msg, r \in Rcpt : Decided(m, r)' <= 1 + faults'[m]
      BY <1>1, <1>2, <2>1, <3>1, <3>3, <3>4, <3>5, <3>6
    <3>8. \A r \in Pending' : Decided(cur, r)' <= faults'[cur]
      BY <1>3, <2>1, <3>1, <3>2, <3>4, <3>6
    <3>9. QED
      BY <1>0, <2>1, <3>1, <3>5, <3>7, <3>8
  <2>4. CASE ReplyLost
    <3>1. Decides(group) /\ Pending' = Pending
      BY <2>1, <2>4, TakesDecides DEF ReplyLost, Pending
    <3>2. \A m \in Msg : faults'[m] = IF m = cur THEN faults[m] + 1 ELSE faults[m]
      BY <2>1, <2>4 DEF ReplyLost, TypeOK
    <3>3. \A m \in Msg, r \in Rcpt : Decided(m, r)' <= Decided(m, r) + 1
      BY <1>1, <3>1 DEF Decides
    <3>4. \A m \in Msg, r \in Rcpt : m # cur => Decided(m, r)' = Decided(m, r)
      BY <3>1 DEF Decides
    <3>5. \A m \in Msg, r \in Rcpt : Decided(m, r)' \in Nat
      BY <1>1, <3>1 DEF Decides
    <3>6. \A r \in Pending : Decided(cur, r)' <= faults'[cur]
      <4>1. \A r \in Pending : Decided(cur, r) <= faults[cur]
        BY <2>1, MsgAssumption DEF NoMsg
      <4>2. \A r \in Rcpt : Decided(cur, r)' <= Decided(cur, r) + 1
        BY <2>1, <3>3
      <4>3. \A r \in Rcpt : Decided(cur, r) \in Nat /\ Decided(cur, r)' \in Nat
        BY <1>1, <2>1, <3>5
      <4>4. QED
        BY <1>2, <1>3, <2>1, <3>2, <4>1, <4>2, <4>3
    <3>7. \A m \in Msg, r \in Rcpt : Decided(m, r)' <= 1 + faults'[m]
      BY <1>1, <1>2, <2>1, <3>2, <3>3, <3>4, <3>5
    <3>8. QED
      BY <1>0, <2>1, <3>1, <3>2, <3>4, <3>6, <3>7
  <2>5. QED
    BY <2>2, <2>3, <2>4
<1>11. CASE Settle
  <2>1. cur \in Msg
    BY <1>11, CurBusy
       DEF Settle, BounceStored, BounceUnreported, OutcomeDone, OutcomeGiveUp,
           OutcomeRetry, RemoveFile, PersistError
  <2>2. CASE BounceStored \/ BounceUnreported
    <3>1. Decides(perm) /\ UNCHANGED <<faults, cur, onDisk, hdr>>
      BY <2>1, <2>2, BounceDecides DEF BounceStored, BounceUnreported
    <3>2. Pending' \subseteq Pending \ perm
      BY <2>2 DEF BounceStored, BounceUnreported, Pending, WorkerInv
    <3>3. perm \subseteq Pending
      BY DEF Pending
    <3>4. \A r \in Rcpt : /\ r \notin perm => Decided(cur, r)' = Decided(cur, r)
                          /\ r \in perm => Decided(cur, r)' = Decided(cur, r) + 1
      BY <2>1, <3>1 DEF Decides
    <3>5. \A m \in Msg, r \in Rcpt : m # cur => Decided(m, r)' = Decided(m, r)
      BY <3>1 DEF Decides
    <3>6. \A r \in Pending : Decided(cur, r) <= faults[cur]
      BY <2>1, MsgAssumption DEF NoMsg
    <3>7. \A m \in Msg, r \in Rcpt : Decided(m, r)' <= 1 + faults'[m]
      BY <1>1, <1>2, <2>1, <3>1, <3>3, <3>4, <3>5, <3>6
    <3>8. \A r \in Pending' : Decided(cur, r)' <= faults'[cur]
      BY <1>3, <2>1, <3>1, <3>2, <3>4, <3>6
    <3>9. QED
      BY <1>0, <2>1, <3>1, <3>5, <3>7, <3>8
  <2>3. CASE OutcomeDone \/ OutcomeGiveUp
    <3>1. /\ Decides({}) /\ Pending' = Pending
          /\ UNCHANGED <<cur, faults, hdr, onDisk>>
      BY <2>3, DecidesNobody DEF OutcomeDone, OutcomeGiveUp, Pending, WorkerInv
    <3>2. QED
      BY <1>0, <1>3, <1>4, <3>1 DEF TypeOK
  <2>4. CASE OutcomeRetry
    <3>1. Decides({}) /\ cur' = NoMsg /\ Pending = remaining /\ faults' = faults
      BY <2>4, DecidesNobody DEF OutcomeRetry, EndEntry, WorkerInv, Pending
    <3>2. hdr'[cur].rcpts = remaining
      BY <2>1, <2>4 DEF OutcomeRetry, TypeOK
    <3>3. \A n \in Msg \ {cur} : onDisk'[n] = onDisk[n] /\ hdr'[n] = hdr[n]
      BY <2>1, <2>4 DEF OutcomeRetry, TypeOK
    <3>4. \A r \in remaining : Decided(cur, r) <= faults[cur]
      BY <2>1, <3>1, MsgAssumption DEF NoMsg
    <3>5. QED
      BY <1>0, <1>3, <1>4, <2>1, <3>1, <3>2, <3>3, <3>4
  <2>5. CASE RemoveFile
    <3>1. Decides({}) /\ cur' = NoMsg /\ UNCHANGED <<faults, hdr>>
      BY <2>5, DecidesNobody DEF RemoveFile, EndEntry
    <3>2. onDisk'[cur] = "absent" /\ \A n \in Msg \ {cur} : onDisk'[n] = onDisk[n]
      BY <2>1, <2>5 DEF RemoveFile, TypeOK
    <3>3. QED
      BY <1>0, <1>4, <2>1, <3>1, <3>2
  <2>6. CASE PersistError
    <3>1. Decides({}) /\ cur' = NoMsg /\ UNCHANGED <<onDisk, hdr>>
      BY <2>6, DecidesNobody DEF PersistError, EndEntry
    <3>2. \A m \in Msg : faults'[m] = IF m = cur THEN faults[m] + 1 ELSE faults[m]
      BY <2>1, <2>6 DEF PersistError, TypeOK
    <3>3. QED
      BY <1>0, <1>1, <1>2, <1>4, <2>1, <3>1, <3>2
  <2>7. QED
    BY <1>11, <2>2, <2>3, <2>4, <2>5, <2>6 DEF Settle
<1>12. CASE Crash
  <2>1. Decides({}) /\ cur' = NoMsg /\ UNCHANGED <<onDisk, hdr>>
    BY <1>12, DecidesNobody DEF Crash
  <2>2. \A m \in Msg : faults'[m] = IF m = cur THEN faults[m] + 1 ELSE faults[m]
    BY <1>12 DEF Crash, TypeOK
  <2>3. QED
    BY <1>0, <1>1, <1>2, <1>4, <2>1, <2>2
<1>13. CASE UNCHANGED vars
  <2>1. /\ Decides({}) /\ Pending' = Pending
        /\ UNCHANGED <<cur, faults, hdr, onDisk>>
    BY <1>13, DecidesNobody DEF vars, Pending
  <2>2. QED
    BY <1>0, <1>3, <1>4, <2>1 DEF TypeOK
<1>14. QED
  BY <1>5, <1>6, <1>7, <1>8, <1>9, <1>10, <1>11, <1>12, <1>13 DEF Next, Worker

-----------------------------------------------------------------------------
(* The next attempt falls within the lifetime of the message *)

LEMMA InitAttempt == Init => AttemptBeforeExpiry
BY DEF Init, AttemptBeforeExpiry

LEMMA AttemptStep ==
    TypeOK /\ WorkerInv /\ FileInv /\ AttemptBeforeExpiry /\ [Next]_vars
        => AttemptBeforeExpiry'
<1> SUFFICES ASSUME TypeOK, WorkerInv, FileInv, AttemptBeforeExpiry,
                    [Next]_vars
             PROVE  AttemptBeforeExpiry'
  OBVIOUS
<1> USE DEF diskVars, AttemptBeforeExpiry
<1>1. ASSUME NEW m \in Msg, EnqueueCreate(m) PROVE AttemptBeforeExpiry'
  BY <1>1, BackoffAssumption DEF EnqueueCreate, TypeOK
<1>2. CASE OutcomeRetry
  <2>1. cur \in Msg
    BY <1>2, CurBusy DEF OutcomeRetry
  <2>2. msg.retry \in Nat /\ msg.created \in Nat /\ wnow \in Nat
    BY DEF TypeOK, Loaded
  <2>3. NextAttempt \in Nat
    BY <2>2, BackoffPositive DEF NextAttempt
  <2>4. NextAttempt < msg.created + MaxAge
    BY <1>2, <2>2, <2>3, BackoffAssumption DEF OutcomeRetry, TooOld
  <2>5. /\ hdr'[cur].next = NextAttempt /\ hdr'[cur].created = msg.created
        /\ \A n \in Msg \ {cur} : onDisk'[n] = onDisk[n] /\ hdr'[n] = hdr[n]
    BY <1>2, <2>1 DEF OutcomeRetry, TypeOK
  <2>6. QED
    BY <2>1, <2>4, <2>5
<1>3. ASSUME UNCHANGED hdr,
             \A m \in Msg : onDisk[m] = "absent" => onDisk'[m] = "absent"
      PROVE  AttemptBeforeExpiry'
  BY <1>3
<1>4. CASE Tick \/ Crash \/ UNCHANGED vars
  BY <1>3, <1>4 DEF Tick, Crash, vars
<1>5. ASSUME NEW m \in Msg, Enqueue(m) \/ AdminDelete(m), ~EnqueueCreate(m)
      PROVE  AttemptBeforeExpiry'
  <2>1. UNCHANGED hdr
    BY <1>5 DEF Enqueue, EnqueueSeparator, EnqueueBody, EnqueueWrite,
                EnqueueReturn, EnqueueError, AdminDelete
  <2>2. \A n \in Msg : onDisk[n] = "absent" => onDisk'[n] = "absent"
    BY <1>5 DEF Enqueue, EnqueueSeparator, EnqueueBody, EnqueueWrite,
                EnqueueReturn, EnqueueError, AdminDelete, FileInv, TypeOK
  <2>3. QED
    BY <1>3, <2>1, <2>2
<1>6. CASE Worker /\ ~OutcomeRetry
  <2>1. CASE RemoveFile
    <3>1. cur \in Msg
      BY <2>1, CurBusy DEF RemoveFile
    <3>2. QED
      BY <1>3, <2>1, <3>1 DEF RemoveFile, TypeOK
  <2>2. CASE ~RemoveFile
    <3>1. UNCHANGED <<onDisk, hdr>>
      BY <1>6, <2>2
         DEF Worker, WorkerWake, ScanDone, Visit, EntrySkip, EntryExpired,
             EntryAttempt, EntryLoad, Session, DomainStart, DomainDeferred,
             AddressAccepts, AddressRefuses, AddressFails, ReplyLost,
             DomainsDone, Settle, BounceStored, BounceUnreported,
             OutcomeDone, OutcomeGiveUp, PersistError
    <3>2. QED
      BY <1>3, <3>1
  <2>3. QED
    BY <2>1, <2>2
<1>7. QED
  BY <1>1, <1>2, <1>4, <1>5, <1>6 DEF Next

-----------------------------------------------------------------------------
(* The theorems *)

\* The invariant holds initially, every step of the queue keeps it.
THEOREM Invariance == Spec => []IndInv
<1>1. Init => IndInv
  BY InitType, InitFile, InitWorker, InitAccount, InitCopy, InitAttempt
     DEF IndInv
<1>2. IndInv /\ [Next]_vars => IndInv'
  BY TypeStep, FileStep, WorkerStep, AccountStep, CopyStep, AttemptStep
     DEF IndInv
<1>3. QED
  BY <1>1, <1>2, PTL DEF Spec

\* Type correctness of the queue, its worker and its history.
THEOREM TypeCorrectness == Spec => []TypeOK
<1>1. IndInv => TypeOK
  BY DEF IndInv
<1>2. QED
  BY <1>1, Invariance, PTL

\* Every acknowledged recipient is delivered, bounced, deleted or still in a
\* readable queue file, for any number of crashes and failures.
THEOREM Durability == Spec => []NoSilentLoss
<1>1. IndInv => NoSilentLoss
  <2> SUFFICES ASSUME IndInv, NEW m \in Msg, enq[m] = "ok", NEW r \in To[m]
               PROVE  \/ Decided(m, r) > 0
                      \/ m \in cancelled
                      \/ Readable(m) /\ r \in hdr[m].rcpts
    BY DEF NoSilentLoss
  <2>1. onDisk[m] \in Extent /\ onDisk[m] # "partial"
    BY DEF IndInv, FileInv, TypeOK
  <2>2. \/ Decided(m, r) > 0
        \/ m \in cancelled
        \/ onDisk[m] # "absent" /\ r \in hdr[m].rcpts
    BY DEF IndInv, AccountInv
  <2>3. QED
    BY <2>1, <2>2 DEF Readable, Extent
<1>2. QED
  BY <1>1, Invariance, PTL

\* One copy or one bounce per recipient, plus one for every counted fault.
THEOREM BoundedRepetition == Spec => []OneFateBarringFaults
<1>1. IndInv => OneFateBarringFaults
  BY DEF IndInv, CopyInv
<1>2. QED
  BY <1>1, Invariance, PTL

\* No queued message is scheduled past its expiry.
THEOREM AttemptsInTime == Spec => []AttemptBeforeExpiry
<1>1. IndInv => AttemptBeforeExpiry
  BY DEF IndInv
<1>2. QED
  BY <1>1, Invariance, PTL


-----------------------------------------------------------------------------
(* The queue keeps the promises of Handoff.tla *)

\* Nobody is served whom the message was not submitted for: neither the file
\* nor the worker's lists ever name anybody else.
Addressed ==
    /\ \A m \in Msg : hdr[m].rcpts \subseteq To[m]
    /\ cur # NoMsg => Pending \subseteq To[cur]

\* Every step keeps it.
LEMMA AddressedStep ==
    ASSUME TypeOK, WorkerInv, Addressed, [Next]_vars PROVE Addressed'
<1> USE DEF diskVars, workVars, fateVars, histVars
<1>1. ASSUME UNCHANGED <<hdr, cur>>, Pending' \subseteq Pending PROVE Addressed'
  BY <1>1 DEF Addressed
<1>2. ASSUME NEW m \in Msg, Enqueue(m) \/ AdminDelete(m) PROVE Addressed'
  <2>1. CASE EnqueueCreate(m)
    <3>1. hdr' = [hdr EXCEPT ![m] = [rcpts |-> To[m], retry |-> 0,
                                     next |-> clock, created |-> clock]]
          /\ UNCHANGED <<cur, left, group, remaining, perm>>
      BY <2>1 DEF EnqueueCreate
    <3>2. QED
      BY <3>1 DEF TypeOK, Addressed, Pending
  <2>2. CASE ~EnqueueCreate(m)
    <3>1. UNCHANGED <<hdr, cur, left, group, remaining, perm>>
      BY <1>2, <2>2 DEF Enqueue, EnqueueSeparator, EnqueueBody, EnqueueWrite,
                        EnqueueReturn, EnqueueError, AdminDelete
    <3>2. QED
      BY <1>1, <3>1 DEF Pending
  <2>3. QED
    BY <2>1, <2>2
<1>3. ASSUME NEW m \in Msg, Visit(m) PROVE Addressed'
  <2>1. CASE EntrySkip(m)
    BY <1>1, <2>1 DEF EntrySkip, Pending
  <2>2. CASE EntryExpired(m) \/ EntryAttempt(m)
    <3>1. /\ cur' = m /\ UNCHANGED <<hdr, group, remaining>>
          /\ left' \union perm' \subseteq hdr[m].rcpts
      BY <2>2 DEF EntryExpired, EntryAttempt, EntryLoad, Invalid
    <3>2. group = {} /\ remaining = {}
      BY <2>2 DEF EntryExpired, EntryAttempt, EntryLoad, NextEntry, WorkerInv, Pending
    <3>3. QED
      BY <3>1, <3>2 DEF Addressed, Pending
  <2>3. QED
    BY <1>3, <2>1, <2>2 DEF Visit
<1>4. CASE Session
  <2>1. UNCHANGED <<hdr, cur>>
    BY <1>4 DEF Session, DomainStart, DomainDeferred, AddressAccepts, AddressRefuses,
                AddressFails, ReplyLost, DomainsDone
  <2>2. Pending' \subseteq Pending
    BY <1>4 DEF Session, DomainStart, DomainDeferred, AddressAccepts, AddressRefuses,
                AddressFails, ReplyLost, DomainsDone, EndSession, Pending
  <2>3. QED
    BY <1>1, <2>1, <2>2
<1>5. CASE Settle
  <2>1. CASE BounceStored \/ BounceUnreported \/ OutcomeDone \/ OutcomeGiveUp
    <3>1. UNCHANGED <<hdr, cur>> /\ Pending' \subseteq Pending
      BY <2>1 DEF BounceStored, BounceUnreported, OutcomeDone, OutcomeGiveUp, Pending
    <3>2. QED
      BY <1>1, <3>1
  <2>2. CASE RemoveFile \/ PersistError
    BY <2>2 DEF RemoveFile, PersistError, EndEntry, Addressed
  <2>3. CASE OutcomeRetry
    <3>1. cur \in Msg /\ remaining \subseteq To[cur] /\ cur' = NoMsg
      BY <2>3, CurBusy, MsgAssumption
         DEF OutcomeRetry, EndEntry, Addressed, Pending, NoMsg
    <3>2. \A m \in Msg : hdr'[m].rcpts = IF m = cur THEN remaining ELSE hdr[m].rcpts
      BY <2>3 DEF OutcomeRetry, TypeOK
    <3>3. QED
      BY <3>1, <3>2 DEF Addressed
  <2>4. QED
    BY <1>5, <2>1, <2>2, <2>3 DEF Settle
<1>6. CASE Crash
  BY <1>6 DEF Crash, Addressed
<1>7. CASE Tick \/ WorkerWake \/ ScanDone \/ UNCHANGED vars
  BY <1>1, <1>7 DEF Tick, WorkerWake, ScanDone, vars, Pending
<1>8. QED
  BY <1>2, <1>3, <1>4, <1>5, <1>6, <1>7 DEF Next, Worker

\* Nobody is served whom the message was not submitted for.
THEOREM OnlyAddressed == Spec => []Addressed
<1>1. Init => Addressed
  BY DEF Init, WorkerIdle, NoHeader, Addressed
<1>2. IndInv /\ Addressed /\ [Next]_vars => Addressed'
  BY AddressedStep DEF IndInv
<1>3. QED
  BY <1>1, <1>2, Invariance, PTL DEF Spec


\* What the queue's state says of a recipient, as an entry of the ledger.
Closed(m, r) == Decided(m, r) > 0 \/ (m \in cancelled /\ r \in To[m])

Entry(m, r) ==
    IF Closed(m, r) THEN "settled"
    ELSE IF enq[m] = "ok" /\ r \in To[m] THEN "owed" ELSE "none"

Book == [m \in Msg |-> [r \in Rcpt |-> LedgerEntry(m, r)]]

\* Nothing is lost, so that this is all the ledger says.
LEMMA EntryIs ==
    ASSUME NoSilentLoss, NEW m \in Msg, NEW r \in Rcpt PROVE LedgerEntry(m, r) = Entry(m, r)
BY DEF NoSilentLoss, LedgerEntry, Entry, Closed

\* An acknowledgement enters the recipients that were not served yet.
LEMMA Accepting ==
    ASSUME NoSilentLoss, NoSilentLoss', NEW m \in Msg, EnqueueReturn(m), TypeOK
    PROVE  Ledger!Accept(m) \/ UNCHANGED Book
<1>1. enq[m] = "body" /\ enq' = [enq EXCEPT ![m] = "ok"]
      /\ UNCHANGED <<cancelled, copies, notices, unreported>>
  BY DEF EnqueueReturn, fateVars, histVars
<1>2. \A n \in Msg, r \in Rcpt : Closed(n, r)' <=> Closed(n, r)
  BY <1>1 DEF Closed, Decided
<1>3. \A n \in Msg, r \in Rcpt :
          LedgerEntry(n, r) = Entry(n, r) /\ LedgerEntry(n, r)' = Entry(n, r)'
  <2>1. \A n \in Msg, r \in Rcpt : LedgerEntry(n, r)' = Entry(n, r)'
    BY DEF NoSilentLoss, LedgerEntry, Entry, Closed
  <2>2. QED
    BY <2>1, EntryIs
<1>4. \A n \in Msg, r \in Rcpt :
          LedgerEntry(n, r)' = IF n = m /\ r \in To[m] /\ LedgerEntry(n, r) = "none"
                               THEN "owed" ELSE LedgerEntry(n, r)
  BY <1>1, <1>2, <1>3 DEF Entry, TypeOK
<1>5. CASE \A r \in Rcpt : LedgerEntry(m, r) = "settled"
  BY <1>4, <1>5 DEF Book
<1>6. CASE \E r \in Rcpt : LedgerEntry(m, r) # "settled"
  <2>1. Book[m] # [r \in Rcpt |-> "settled"]
    BY <1>6 DEF Book
  <2>2. Book' = [Book EXCEPT ![m] =
                    [r \in Rcpt |-> IF r \in To[m] /\ @[r] = "none" THEN "owed" ELSE @[r]]]
    BY <1>4 DEF Book
  <2>3. QED
    BY <2>1, <2>2 DEF Ledger!Accept, Book
<1>7. QED
  BY <1>5, <1>6

\* Serving recipients, or deleting the message, settles what was open.
LEMMA Settling ==
    ASSUME NoSilentLoss, NoSilentLoss', NEW m \in Msg, NEW R \in SUBSET To[m], enq' = enq,
           \A n \in Msg, r \in Rcpt :
               Closed(n, r)' <=> (Closed(n, r) \/ (n = m /\ r \in R))
    PROVE  (\E S \in SUBSET To[m] : Ledger!Settle(m, S)) \/ UNCHANGED Book
<1> DEFINE S == {r \in R : LedgerEntry(m, r) # "settled"}
<1>1. \A n \in Msg, r \in Rcpt :
          LedgerEntry(n, r) = Entry(n, r) /\ LedgerEntry(n, r)' = Entry(n, r)'
  <2>1. \A n \in Msg, r \in Rcpt : LedgerEntry(n, r)' = Entry(n, r)'
    BY DEF NoSilentLoss, LedgerEntry, Entry, Closed
  <2>2. QED
    BY <2>1, EntryIs
<1>2. R \subseteq Rcpt
  BY ToAssumption
<1>3. \A n \in Msg, r \in Rcpt :
          LedgerEntry(n, r)' = IF n = m /\ r \in S THEN "settled" ELSE LedgerEntry(n, r)
  BY <1>1, <1>2 DEF Entry
<1>4. CASE S = {}
  BY <1>3, <1>4 DEF Book
<1>5. CASE S # {}
  <2>1. Book' = [Book EXCEPT ![m] = [r \in Rcpt |-> IF r \in S THEN "settled" ELSE @[r]]]
    BY <1>3 DEF Book
  <2>2. \A r \in S : r \in To[m] /\ Book[m][r] # "settled"
    BY <1>2 DEF Book
  <2>3. Ledger!Settle(m, S)
    BY <1>5, <2>1, <2>2 DEF Ledger!Settle, Book
  <2>4. QED
    BY <2>3
<1>6. QED
  BY <1>4, <1>5

\* Every other step leaves the ledger as it is.
LEMMA Resting ==
    ASSUME NoSilentLoss, NoSilentLoss', UNCHANGED cancelled, Decides({}),
           \A m \in Msg : enq'[m] = "ok" <=> enq[m] = "ok"
    PROVE  UNCHANGED Book
<1>1. \A m \in Msg, r \in Rcpt : Entry(m, r)' = Entry(m, r)
  BY DEF Decides, Entry, Closed
<1>2. \A m \in Msg, r \in Rcpt : LedgerEntry(m, r)' = Entry(m, r)'
  BY DEF NoSilentLoss, LedgerEntry, Entry, Closed
<1>3. \A m \in Msg, r \in Rcpt : LedgerEntry(m, r)' = LedgerEntry(m, r)
  BY <1>1, <1>2, EntryIs
<1>4. QED
  BY <1>3 DEF Book

\* Steps that serve nobody, return no call and delete nothing.
LEMMA RestingSteps ==
    ASSUME TypeOK, [Next]_vars, ~ServingStep, \A m \in Msg : ~EnqueueReturn(m) /\ ~AdminDelete(m)
    PROVE  UNCHANGED cancelled /\ \A m \in Msg : enq'[m] = "ok" <=> enq[m] = "ok"
<1> USE DEF workVars, diskVars, fateVars, histVars, TypeOK
<1>1. ASSUME NEW m \in Msg, Enqueue(m)
      PROVE  UNCHANGED cancelled /\ \A n \in Msg : enq'[n] = "ok" <=> enq[n] = "ok"
  BY <1>1 DEF Enqueue, EnqueueCreate, EnqueueSeparator, EnqueueBody, EnqueueWrite, EnqueueError
<1>2. CASE Worker
  BY <1>2 DEF Worker, WorkerWake, ScanDone, Visit, EntrySkip, EntryExpired, EntryAttempt,
              EntryLoad, Session, ServingStep, DomainStart, DomainDeferred, AddressRefuses,
              AddressFails, DomainsDone, Settle, OutcomeDone, OutcomeGiveUp, OutcomeRetry,
              RemoveFile, PersistError, EndEntry
<1>3. CASE Tick \/ Crash \/ UNCHANGED vars
  BY <1>3 DEF Tick, Crash, vars
<1>4. QED
  BY <1>1, <1>2, <1>3 DEF Next

\* Every step of the queue is a step of the ledger, or none.
LEMMA LedgerStep ==
    ASSUME IndInv, NoSilentLoss, NoSilentLoss', Addressed, [Next]_vars
    PROVE  [Ledger!Next]_Book
<1> USE DEF IndInv
<1>1. ASSUME NEW m \in Msg, EnqueueReturn(m) PROVE [Ledger!Next]_Book
  BY <1>1, Accepting DEF Ledger!Next
<1>2. ASSUME NEW m \in Msg, NEW R \in SUBSET To[m], enq' = enq,
             \A n \in Msg, r \in Rcpt :
                 Closed(n, r)' <=> (Closed(n, r) \/ (n = m /\ r \in R))
      PROVE  [Ledger!Next]_Book
  BY <1>2, Settling DEF Ledger!Next
<1>3. ASSUME NEW m \in Msg, AdminDelete(m) PROVE [Ledger!Next]_Book
  <2>1. /\ cancelled' = cancelled \union {m}
        /\ UNCHANGED <<enq, copies, notices, unreported>>
    BY <1>3 DEF AdminDelete, fateVars
  <2>2. \A n \in Msg, r \in Rcpt :
            Closed(n, r)' <=> (Closed(n, r) \/ (n = m /\ r \in To[m]))
    BY <2>1 DEF Closed, Decided
  <2>3. QED
    BY <1>2, <2>1, <2>2
<1>4. CASE ServingStep
  <2>1. UNCHANGED <<enq, cancelled>> /\ cur # NoMsg
    BY <1>4 DEF ServingStep, AddressAccepts, ReplyLost, BounceStored, BounceUnreported,
                histVars, WorkerInv
  <2>2. PICK R \in {group, perm} : cur \in Msg /\ Decides(R)
    BY <1>4, StepDecides DEF ServingStep
  <2>3. R \in SUBSET To[cur]
    BY <2>1, <2>2 DEF Addressed, Pending
  <2>4. \A n \in Msg, r \in Rcpt : Closed(n, r)' <=> (Closed(n, r) \/ (n = cur /\ r \in R))
    BY <2>1, <2>2, DecidedNat DEF Decides, Closed
  <2>5. QED
    BY <1>2, <2>1, <2>2, <2>3, <2>4
<1>5. CASE ~ServingStep /\ \A m \in Msg : ~EnqueueReturn(m) /\ ~AdminDelete(m)
  <2>1. Decides({})
    BY <1>5, StepDecides DEF ServingStep
  <2>2. UNCHANGED cancelled /\ \A m \in Msg : enq'[m] = "ok" <=> enq[m] = "ok"
    BY <1>5, RestingSteps
  <2>3. QED
    BY <2>1, <2>2, Resting
<1>6. QED
  BY <1>1, <1>3, <1>4, <1>5

\* The queue implements the hand-off: a debt is entered when a submission is
\* acknowledged, never forgotten, and never reopened once it is settled.  (That
\* it is settled in the end, Handoff's fairness, is for TLC.)
THEOREM QueueImplementsHandoff == Spec => Ledger!Spec
<1>1. Init => Ledger!Init
  <2>1. ASSUME Init, NEW m \in Msg, NEW r \in Rcpt PROVE LedgerEntry(m, r) = "none"
    BY <2>1 DEF Init, LedgerEntry, Decided
  <2>2. QED
    BY <2>1 DEF Ledger!Init
<1>2. /\ IndInv /\ NoSilentLoss /\ Addressed /\ [Next]_vars
      /\ NoSilentLoss'
      => [Ledger!Next]_Book
  BY LedgerStep
<1>3. QED
  BY <1>1, <1>2, Invariance, Durability, OnlyAddressed, PTL DEF Spec, Ledger!Spec, Book
===============================================================================

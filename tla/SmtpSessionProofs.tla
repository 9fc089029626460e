-------------------------- MODULE SmtpSessionProofs --------------------------
(***************************************************************************)
(* Proofs about an SMTP connection, for all sets of addresses and users,   *)
(* every kind of listener and transactions of any length.                  *)
(***************************************************************************)
EXTENDS SmtpSession, SequenceTheorems, TLAPS

(* What a step of the delivery does to a list of recipients. *)

LEMMA ElementsEmpty == Elements(<< >>) = {}
BY DEF Elements

LEMMA ElementsNonEmpty ==
    ASSUME NEW S, NEW list \in Seq(S), list # << >>
    PROVE  Elements(list) # {}
<1>1. 1 \in DOMAIN list
  BY EmptySeq, LenProperties
<1>2. QED
  BY <1>1 DEF Elements

LEMMA ElementsAppend ==
    ASSUME NEW S, NEW list \in Seq(S), NEW e \in S
    PROVE  Elements(Append(list, e)) = Elements(list) \union {e}
<1>1. DOMAIN list = 1..Len(list) /\ Len(list) \in Nat
  BY LenProperties
<1>2. DOMAIN Append(list, e) = 1..(Len(list) + 1)
  BY AppendProperties
<1>3. /\ \A i \in 1..Len(list) : Append(list, e)[i] = list[i]
      /\ Append(list, e)[Len(list) + 1] = e
  BY AppendProperties
<1>4. QED
  BY <1>1, <1>2, <1>3 DEF Elements

LEMMA ElementsTail ==
    ASSUME NEW S, NEW list \in Seq(S), list # << >>
    PROVE  /\ Head(list) \in S
           /\ Tail(list) \in Seq(S)
           /\ Elements(list) = Elements(Tail(list)) \union {Head(list)}
<1>1. Head(list) = list[1] /\ Head(list) \in S /\ Tail(list) \in Seq(S)
  BY HeadTailProperties
<1>2. Len(list) \in Nat /\ Len(list) # 0 /\ DOMAIN list = 1..Len(list)
  BY LenProperties, EmptySeq
<1>3. /\ DOMAIN Tail(list) = 1..(Len(list) - 1)
      /\ \A i \in 1..(Len(list) - 1) : Tail(list)[i] = list[i + 1]
  BY HeadTailProperties, <1>1, <1>2, LenProperties
<1>4. ASSUME NEW i \in 1..Len(list)
      PROVE  list[i] = Head(list) \/ \E j \in 1..(Len(list) - 1) : list[i] = Tail(list)[j]
  <2>1. CASE i = 1
    BY <2>1, <1>1
  <2>2. CASE i # 1
    <3>1. i - 1 \in 1..(Len(list) - 1) /\ i = (i - 1) + 1
      BY <2>2, <1>2
    <3>2. list[i] = Tail(list)[i - 1]
      BY <3>1, <1>3
    <3>3. QED
      BY <3>1, <3>2
  <2>3. QED
    BY <2>1, <2>2
<1>5. \A j \in 1..(Len(list) - 1) : j + 1 \in 1..Len(list)
  BY <1>2
<1>6. 1 \in 1..Len(list)
  BY <1>2
<1>7. Elements(Tail(list)) = {Tail(list)[j] : j \in 1..(Len(list) - 1)}
  BY <1>3 DEF Elements
<1>8. Elements(list) = {list[i] : i \in 1..Len(list)}
  BY <1>2 DEF Elements
<1>9. Elements(list) \subseteq Elements(Tail(list)) \union {Head(list)}
  BY <1>4, <1>7, <1>8
<1>10. Head(list) \in Elements(list)
  BY <1>1, <1>6, <1>8
<1>11. Elements(Tail(list)) \subseteq Elements(list)
  BY <1>3, <1>5, <1>7, <1>8
<1>12. QED
  BY <1>1, <1>9, <1>10, <1>11

-----------------------------------------------------------------------------
LEMMA InitInv == Init => IndInv
<1> SUFFICES ASSUME Init PROVE IndInv
  OBVIOUS
<1>1. TypeOK
  BY AddressAssumption, BoundAssumption, EmptySeq DEF Init, TypeOK, Stage, Reading, Port
<1>2. SessionInv /\ NothingAcrossStartTls
  BY AddressAssumption DEF Init, SessionInv, NothingAcrossStartTls, Transaction, Delivering
<1>3. ChargeInv
  BY DEF Init, ChargeInv
<1>4. DeliverInv
  BY DEF Init, DeliverInv, Transaction, Delivering
<1>5. QED
  BY <1>1, <1>2, <1>3, <1>4 DEF IndInv

\* Every step keeps the types.
LEMMA TypeStep == IndInv /\ [Next]_vars => TypeOK'
<1> SUFFICES ASSUME IndInv, [Next]_vars PROVE TypeOK'
  OBVIOUS
<1> USE DEF IndInv, TypeOK, Stage, Reading, Delivering
<1>1. CASE Reload
  BY <1>1 DEF Reload, sessionVars, deliverVars, chargeVars
<1>2. CASE Greet \/ StartTls \/ Close \/ Mail \/ Data \/ Rset
  <2>1. CASE Greet \/ Close \/ Data
    BY <2>1 DEF Greet, Close, Data, reloadVars, deliverVars, chargeVars
  <2>2. CASE StartTls \/ Rset
    BY <2>2, EmptySeq DEF StartTls, Rset, reloadVars, deliverVars, chargeVars
  <2>3. CASE Mail
    BY <2>3, EmptySeq DEF Mail, deliverVars, chargeVars
  <2>4. QED
    BY <1>2, <2>1, <2>2, <2>3
<1>3. ASSUME NEW u \in User, Auth(u) PROVE TypeOK'
  BY <1>3 DEF Auth, reloadVars, deliverVars, chargeVars
<1>4. ASSUME NEW r \in Address, RcptSubmission(r) PROVE TypeOK'
  <2>1. Append(rcpts, r) \in Seq(Address)
    BY AppendProperties
  <2>2. charged' \in [User -> Nat]
    BY <1>4 DEF RcptSubmission
  <2>3. QED
    BY <1>4, <2>1, <2>2 DEF RcptSubmission, AddRcpt, deliverVars
<1>5. ASSUME NEW r \in Address, RcptInbound(r) PROVE TypeOK'
  <2>1. Append(rcpts, r) \in Seq(Address)
    BY AppendProperties
  <2>2. QED
    BY <1>5, <2>1 DEF RcptInbound, AddRcpt, deliverVars, chargeVars
<1>6. CASE TooLarge \/ Looping \/ Distrusted
  BY <1>6 DEF TooLarge, Looping, Distrusted, Reject, Answer, reloadVars, chargeVars
<1>7. CASE DataRead
  <2>1. Len(rcpts) \in Nat
    BY LenProperties
  <2>2. sent' \in [User -> Nat]
    BY <1>7, <2>1 DEF DataRead
  <2>3. QED
    BY <1>7, <2>2, EmptySeq DEF DataRead, reloadVars
<1>8. CASE SentCopy
  BY <1>8 DEF SentCopy, reloadVars, chargeVars
<1>9. CASE DeliverError \/ Delivered \/ Abort
  <2>1. CASE DeliverError
    BY <2>1, EmptySeq DEF DeliverError, Answer, LeaveDelivery, reloadVars, chargeVars
  <2>2. CASE Delivered
    BY <2>2, EmptySeq DEF Delivered, Answer, LeaveDelivery, reloadVars, chargeVars
  <2>3. CASE Abort
    BY <2>3, EmptySeq DEF Abort, LeaveDelivery, reloadVars, chargeVars
  <2>4. QED
    BY <1>9, <2>1, <2>2, <2>3
<1>10. CASE DeliverLocal
  BY <1>10, ElementsTail DEF DeliverLocal, reloadVars, sessionVars, chargeVars
<1>11. CASE DeliverElsewhere
  <2>1. Tail(todo) \in Seq(Address) /\ Append(remote, Head(todo)) \in Seq(Address)
    BY <1>11, ElementsTail, AppendProperties DEF DeliverElsewhere
  <2>2. QED
    BY <1>11, <2>1 DEF DeliverElsewhere, reloadVars, sessionVars, chargeVars
<1>12. CASE DeliverEnqueue
  BY <1>12 DEF DeliverEnqueue, reloadVars, deliverVars, chargeVars
<1>13. CASE Enqueued
  <2>1. Len(remote) \in Nat
    BY LenProperties
  <2>2. Elements(remote) \subseteq Address
    BY ElementOfSeq, LenProperties DEF Elements
  <2>3. QED
    BY <1>13, <2>1, <2>2, EmptySeq DEF Enqueued, reloadVars, chargeVars
<1>14. CASE Connect
  BY <1>14, EmptySeq DEF Connect, Port, reloadVars, deliverVars, chargeVars
<1>15. CASE UNCHANGED vars
  BY <1>15 DEF vars, reloadVars, sessionVars, deliverVars, chargeVars
<1>16. QED
  BY <1>1, <1>2, <1>3, <1>4, <1>5, <1>6, <1>7, <1>8, <1>9, <1>10, <1>11, <1>12,
     <1>13, <1>14, <1>15
     DEF Next, Command, Delivery

\* Every step keeps the session's rules: who is logged in, and since when.
LEMMA SessionStep ==
    IndInv /\ [Next]_vars => SessionInv' /\ NothingAcrossStartTls'
<1> SUFFICES ASSUME IndInv, [Next]_vars
             PROVE  SessionInv' /\ NothingAcrossStartTls'
  OBVIOUS
<1> USE DEF IndInv, TypeOK, SessionInv, NothingAcrossStartTls, Transaction, Delivering
<1> DEFINE Goal == SessionInv' /\ NothingAcrossStartTls'
<1>1. CASE Reload
  BY <1>1 DEF Reload, sessionVars
<1>2. CASE Greet \/ Close \/ Data \/ Rset
  BY <1>2 DEF Greet, Close, Data, Rset
<1>3. CASE StartTls
  BY <1>3 DEF StartTls
<1>4. CASE Mail
  BY <1>4 DEF Mail
<1>5. ASSUME NEW u \in User, Auth(u) PROVE Goal
  BY <1>5, AddressAssumption DEF Auth
<1>6. ASSUME NEW r \in Address, AddRcpt(r),
             UNCHANGED <<port, tls, user>>
      PROVE  Goal
  <2>1. rcpts' # << >>
    <3>1. rcpts' \in Seq(Address) /\ Len(rcpts') = Len(rcpts) + 1
      BY <1>6, AppendProperties DEF AddRcpt
    <3>2. Len(rcpts) \in Nat
      BY LenProperties
    <3>3. QED
      BY <3>1, <3>2, EmptySeq
  <2>2. under'.user = under.user /\ (under.rcpts = tls => under'.rcpts = tls')
    BY <1>6 DEF AddRcpt
  <2>3. state \in {"mail", "rcpt"} /\ state' = "rcpt"
    BY <1>6 DEF AddRcpt
  <2>4. SessionInv'
    BY <1>6, <2>1, <2>3
  <2>5. NothingAcrossStartTls'
    BY <1>6, <2>2, <2>3
  <2>6. QED
    BY <2>4, <2>5
<1>7. ASSUME NEW r \in Address, RcptSubmission(r) \/ RcptInbound(r) PROVE Goal
  BY <1>6, <1>7 DEF RcptSubmission, RcptInbound
<1>8. CASE TooLarge \/ Looping \/ Distrusted
  BY <1>8 DEF TooLarge, Looping, Distrusted, Reject, Answer
<1>9. CASE DataRead \/ SentCopy
  BY <1>9 DEF DataRead, SentCopy
<1>10. CASE DeliverError \/ Delivered \/ Abort
  BY <1>10 DEF DeliverError, Delivered, Abort, Answer
<1>11. CASE DeliverLocal \/ DeliverElsewhere
  BY <1>11 DEF DeliverLocal, DeliverElsewhere, sessionVars
<1>12. CASE DeliverEnqueue \/ Enqueued
  BY <1>12 DEF DeliverEnqueue, Enqueued, DeliverInv
<1>13. CASE Connect
  BY <1>13 DEF Connect
<1>14. CASE UNCHANGED vars
  BY <1>14 DEF vars, sessionVars
<1>15. QED
  BY <1>1, <1>2, <1>3, <1>4, <1>5, <1>7, <1>8, <1>9, <1>10, <1>11, <1>12, <1>13,
     <1>14
     DEF Next, Command, Delivery

\* Every step keeps the charges ahead of what is sent.
LEMMA ChargeStep == IndInv /\ [Next]_vars => ChargeInv'
<1> SUFFICES ASSUME IndInv, [Next]_vars PROVE ChargeInv'
  OBVIOUS
<1> USE DEF IndInv, TypeOK, ChargeInv
<1>1. Len(rcpts) \in Nat
  BY LenProperties
<1>2. CASE UNCHANGED <<port, user, rcpts, chargeVars>> /\
           (state' \in {"mail", "rcpt", "data"} => state \in {"mail", "rcpt", "data"})
  BY <1>2 DEF chargeVars
<1>3. CASE Reload \/ Greet \/ Close \/ Data
  BY <1>2, <1>3 DEF Reload, Greet, Close, Data, sessionVars
<1>4. CASE StartTls \/ Rset \/ Connect
  BY <1>4 DEF StartTls, Rset, Connect, chargeVars
<1>5. CASE Mail
  <2>1. Len(rcpts') = 0
    BY <1>5, EmptySeq DEF Mail
  <2>2. QED
    BY <1>5, <2>1 DEF Mail, chargeVars
<1>6. ASSUME NEW u \in User, Auth(u) PROVE ChargeInv'
  \* A submission listener has no transaction before the login.
  <2>1. port.submission => state \notin {"mail", "rcpt", "data"}
    BY <1>6 DEF Auth, SessionInv, Transaction
  <2>2. QED
    BY <1>6, <2>1 DEF Auth, chargeVars
<1>7. ASSUME NEW r \in Address, RcptSubmission(r) PROVE ChargeInv'
  <2>1. Len(rcpts') = Len(rcpts) + 1
    BY <1>7, AppendProperties DEF RcptSubmission, AddRcpt
  <2>2. \A u \in User : charged'[u] = IF u = user THEN charged[u] + 1 ELSE charged[u]
    BY <1>7 DEF RcptSubmission
  <2>3. sent' = sent /\ user' = user /\ port' = port
    BY <1>7 DEF RcptSubmission
  <2>4. state \in {"mail", "rcpt"}
    BY <1>7 DEF RcptSubmission, AddRcpt
  <2>5. ASSUME NEW u \in User
        PROVE  /\ sent'[u] <= charged'[u]
               /\ port.submission /\ user = u => sent'[u] + Len(rcpts') <= charged'[u]
    BY <1>1, <2>1, <2>2, <2>3, <2>4
  <2>6. QED
    BY <2>3, <2>5
<1>8. ASSUME NEW r \in Address, RcptInbound(r) PROVE ChargeInv'
  BY <1>8 DEF RcptInbound, chargeVars
<1>9. CASE TooLarge \/ Looping \/ Distrusted
  BY <1>2, <1>9 DEF TooLarge, Looping, Distrusted, Reject, Answer
<1>10. CASE DataRead
  <2>1. \A u \in User : sent'[u] = IF port.submission /\ u = user
                                    THEN sent[u] + Len(rcpts) ELSE sent[u]
    BY <1>10 DEF DataRead
  <2>2. /\ charged' = charged /\ state = "data"
        /\ state' \notin {"mail", "rcpt", "data"}
    BY <1>10 DEF DataRead
  <2>3. \A u \in User : sent'[u] <= charged'[u]
    BY <1>1, <2>1, <2>2
  <2>4. QED
    BY <2>2, <2>3
<1>11. CASE SentCopy \/ DeliverLocal \/ DeliverElsewhere \/ DeliverEnqueue \/ Enqueued
  BY <1>2, <1>11
     DEF SentCopy, DeliverLocal, DeliverElsewhere, DeliverEnqueue, Enqueued, sessionVars
<1>12. CASE DeliverError \/ Delivered \/ Abort
  BY <1>2, <1>12 DEF DeliverError, Delivered, Abort, Answer
<1>13. CASE UNCHANGED vars
  BY <1>2, <1>13 DEF vars, sessionVars
<1>14. QED
  BY <1>3, <1>4, <1>5, <1>6, <1>7, <1>8, <1>9, <1>10, <1>11, <1>12, <1>13
     DEF Next, Command, Delivery

\* The recipients of a delivery are never lost from sight.
LEMMA DeliverStep == IndInv /\ [Next]_vars => DeliverInv'
<1> SUFFICES ASSUME IndInv, [Next]_vars PROVE DeliverInv'
  OBVIOUS
<1> USE DEF IndInv, TypeOK, DeliverInv, Transaction, Delivering
<1>1. CASE Reload
  <2>1. live \union removed \subseteq live' \union removed'
    BY <1>1 DEF Reload
  <2>2. QED
    BY <1>1, <2>1 DEF Reload, sessionVars, deliverVars
<1>2. CASE Greet \/ StartTls \/ Close \/ Rset
  BY <1>2 DEF Reading, Greet, StartTls, Close, Rset, deliverVars
<1>3. CASE Mail
  BY <1>3, ElementsEmpty DEF Mail, deliverVars
<1>4. CASE Data
  BY <1>4 DEF Data, reloadVars
<1>5. ASSUME NEW u \in User, Auth(u) PROVE DeliverInv'
  BY <1>5 DEF Auth, reloadVars, deliverVars
<1>6. ASSUME NEW r \in Address, RcptSubmission(r) PROVE DeliverInv'
  BY <1>6 DEF RcptSubmission, AddRcpt, deliverVars
<1>7. ASSUME NEW r \in Address, RcptInbound(r) PROVE DeliverInv'
  <2>1. Elements(rcpts') = Elements(rcpts) \union {r}
    BY <1>7, ElementsAppend DEF RcptInbound, AddRcpt
  <2>2. live' = live /\ removed' = removed \ {r} /\ r \in live
    BY <1>7 DEF RcptInbound, AddRcpt
  <2>3. Elements(rcpts) \subseteq live \union removed
    BY <1>7 DEF RcptInbound, AddRcpt
  <2>4. Elements(rcpts') \subseteq live' \union removed'
    BY <2>1, <2>2, <2>3
  <2>5. QED
    BY <1>7, <2>4 DEF RcptInbound, AddRcpt, deliverVars
<1>8. CASE TooLarge \/ Looping \/ Distrusted
  BY <1>8 DEF TooLarge, Looping, Distrusted, Reject, Answer
<1>9. CASE DataRead
  <2>1. /\ todo' = rcpts /\ remote' = << >> /\ got' = {} /\ count' = 0
        /\ UNCHANGED <<port, live, removed, rcpts>>
        /\ state = "data"
    BY <1>9 DEF DataRead, reloadVars
  <2>2. QED
    BY <2>1
<1>10. CASE SentCopy
  BY <1>10 DEF SentCopy, SessionInv, reloadVars
<1>11. CASE DeliverError \/ Delivered \/ Abort
  BY <1>11 DEF DeliverError, Delivered, Abort, Answer, LeaveDelivery
<1>12. CASE DeliverLocal
  <2>1. Elements(todo) = Elements(Tail(todo)) \union {Head(todo)}
    BY <1>12, ElementsTail DEF DeliverLocal
  <2>2. Elements(todo) \union got = Elements(todo') \union got'
    BY <1>12, <2>1 DEF DeliverLocal
  <2>3. got' # {}
    BY <1>12 DEF DeliverLocal
  <2>4. UNCHANGED <<port, live, removed, state, rcpts, remote>>
    BY <1>12 DEF DeliverLocal, reloadVars, sessionVars
  <2>5. QED
    BY <2>2, <2>3, <2>4
<1>13. CASE DeliverElsewhere
  <2>1. /\ Elements(todo) = Elements(Tail(todo)) \union {Head(todo)}
        /\ Head(todo) \in Address
    BY <1>13, ElementsTail DEF DeliverElsewhere
  <2>2. UNCHANGED <<port, live, removed, state, rcpts, got, count>>
    BY <1>13 DEF DeliverElsewhere, reloadVars, sessionVars
  <2>3. state = "deliver" /\ Head(todo) \notin live
    BY <1>13 DEF DeliverElsewhere
  <2>4. CASE port.submission
    <3>1. Elements(remote') = Elements(remote) \union {Head(todo)}
      BY <1>13, <2>1, <2>4, ElementsAppend DEF DeliverElsewhere
    <3>2. Elements(todo) \union Elements(remote) = Elements(todo') \union Elements(remote')
      BY <1>13, <2>1, <3>1 DEF DeliverElsewhere
    <3>3. QED
      BY <2>2, <2>3, <2>4, <3>2
  <2>5. CASE ~port.submission
    \* The recipient had a mailbox when its RCPT was accepted.
    <3>1. Head(todo) \in Elements(rcpts) => Head(todo) \in removed
      BY <2>3, <2>5
    <3>2. remote' = remote /\ todo' = Tail(todo)
      BY <1>13, <2>5 DEF DeliverElsewhere
    <3>3. \A r \in Elements(rcpts) :
            r \in Elements(todo') \union Elements(remote') \union got' \/ r \in removed'
      BY <2>1, <2>2, <2>3, <2>5, <3>1, <3>2
    <3>4. QED
      BY <2>2, <2>3, <2>5, <3>2, <3>3
  <2>6. QED
    BY <2>4, <2>5
<1>14. CASE DeliverEnqueue
  BY <1>14 DEF DeliverEnqueue, deliverVars, reloadVars
<1>15. CASE Enqueued
  <2>1. got \union Elements(remote) \subseteq got'
    BY <1>15 DEF Enqueued
  <2>2. /\ remote' = << >> /\ state' = "deliver" /\ state = "enqueue"
        /\ UNCHANGED <<port, live, removed, rcpts, todo>>
    BY <1>15 DEF Enqueued, reloadVars
  <2>3. port.submission
    BY <2>2 DEF SessionInv
  <2>4. QED
    BY <2>1, <2>2, <2>3
<1>16. CASE Connect
  BY <1>16 DEF Connect, deliverVars
<1>17. CASE UNCHANGED vars
  BY <1>17 DEF vars, reloadVars, sessionVars, deliverVars
<1>18. QED
  BY <1>1, <1>2, <1>3, <1>4, <1>5, <1>6, <1>7, <1>8, <1>9, <1>10, <1>11, <1>12,
     <1>13, <1>14, <1>15, <1>16, <1>17
     DEF Next, Command, Delivery

-----------------------------------------------------------------------------
(* The theorems. *)

\* The session's invariant holds in every state, for every set of addresses
\* and users and every kind of listener (handle_client and deliver_mail).
THEOREM Invariance == Spec => []IndInv
<1>1. IndInv /\ [Next]_vars => IndInv'
  BY TypeStep, SessionStep, ChargeStep, DeliverStep DEF IndInv
<1>2. QED
  BY InitInv, <1>1, PTL DEF Spec

\* Only what an authenticated user of a submission listener sends reaches the
\* outbound queue (the RCPT handler and deliver_mail).
THEOREM NoOpenRelay == Spec => []NoRelay
<1>1. IndInv => NoRelay
  BY DEF IndInv, SessionInv, DeliverInv, NoRelay, Transaction, Delivering
<1>2. QED
  BY <1>1, Invariance, PTL

\* Neither a login nor a transaction is carried across STARTTLS.
THEOREM TlsBarrier == Spec => []NothingAcrossStartTls
<1>1. IndInv => NothingAcrossStartTls
  BY DEF IndInv
<1>2. QED
  BY <1>1, Invariance, PTL

\* A user is charged for every recipient of every message that is sent.
THEOREM NoFreeRecipient == Spec => []EveryRecipientCharged
<1>1. IndInv => EveryRecipientCharged
  BY DEF IndInv, ChargeInv, EveryRecipientCharged
<1>2. QED
  BY <1>1, Invariance, PTL

\* A step that answers 250 to a message leaves none of its recipients out.
LEMMA AckStep ==
    ASSUME IndInv, [Next]_vars, reply # "ok", reply' = "ok"
    PROVE  /\ got # {}
           /\ \A r \in Elements(rcpts) :
                 r \in got \/ (~port.submission /\ r \in removed)
<1> USE DEF IndInv, TypeOK, SessionInv, DeliverInv, Transaction, Delivering
<1>1. Delivered
  <2>1. reply' = reply \/ Data \/ TooLarge \/ Looping \/ Distrusted \/ DeliverError
          \/ Delivered
    BY DEF Next, Command, Delivery, Reload, Greet, StartTls, Close, Mail, Rset, Auth,
           RcptSubmission, RcptInbound, DataRead, SentCopy, DeliverLocal,
           DeliverElsewhere, DeliverEnqueue, Enqueued, Abort, Connect, vars, deliverVars
  <2>2. Data => reply' = "none"
    BY DEF Data
  <2>3. TooLarge \/ Looping \/ Distrusted \/ DeliverError => reply' # "ok"
    BY DEF TooLarge, Looping, Distrusted, Reject, DeliverError, Answer
  <2>4. QED
    BY <2>1, <2>2, <2>3
<1>2. state = "deliver" /\ todo = << >> /\ remote = << >> /\ count # 0
  BY <1>1 DEF Delivered, Answer
<1>3. \A r \in Elements(rcpts) : r \in got \/ (~port.submission /\ r \in removed)
  BY <1>2, ElementsEmpty
<1>4. Elements(rcpts) # {}
  BY <1>2, ElementsNonEmpty
<1>5. got # {}
  BY <1>2, <1>3, <1>4
<1>6. QED
  BY <1>3, <1>5

\* A 250 after DATA keeps its promise to every recipient (deliver_mail).
THEOREM AckIsAPromise == Spec => AckComplete
<1>1. IndInv /\ [Next]_vars =>
        [reply # "ok" /\ reply' = "ok" =>
            /\ got # {}
            /\ \A r \in Elements(rcpts) :
                  r \in got \/ (~port.submission /\ r \in removed)]_vars
  BY AckStep
<1>2. QED
  BY <1>1, Invariance, PTL DEF Spec, AckComplete
=============================================================================

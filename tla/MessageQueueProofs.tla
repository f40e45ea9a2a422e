-------------------------- MODULE MessageQueueProofs --------------------------
(* Proofs about MessageQueue for any sets of messages, agents and sessions. *)
EXTENDS MessageQueue, TLAPS

IndInv ==
  /\ TypeOK
  /\ ClaimOwnership
  /\ HandedOutClaimed
  /\ FinisherIsOwner
  /\ CallsInFlight
  /\ FailedHasError

\* The empty tables satisfy the inductive invariant.
LEMMA InitIndInv == Init => IndInv
  BY QueueAssumption DEF Init, IndInv, TypeOK, ClaimOwnership, HandedOutClaimed,
     FinisherIsOwner, CallsInFlight, FailedHasError, Threads, Statuses, Finished, Errors, Exists

\* A deletion empties the deleted rows and leaves every column of the others.
LEMMA DeleteRowsEffect ==
  ASSUME NEW ids, DeleteRows(ids), NEW m \in Messages
  PROVE  /\ m \in ids => /\ status'[m] = "gone" /\ addressee'[m] = NoAgent /\ priority'[m] = 0
                        /\ claimedBy'[m] = NoAgent /\ lapsed'[m] = FALSE
                        /\ expired'[m] = FALSE /\ errorOf'[m] = "none"
         /\ m \notin ids => /\ status'[m] = status[m] /\ addressee'[m] = addressee[m]
                           /\ priority'[m] = priority[m] /\ claimedBy'[m] = claimedBy[m]
                           /\ lapsed'[m] = lapsed[m] /\ expired'[m] = expired[m]
                           /\ errorOf'[m] = errorOf[m]
  BY DEF DeleteRows

\* Deleting rows keeps the columns in their types.
LEMMA DeleteRowsType ==
  ASSUME TypeOK, NEW ids \in SUBSET Messages, DeleteRows(ids)
  PROVE  /\ status'    \in [Messages -> Statuses \cup {"absent", "gone"}]
         /\ addressee' \in [Messages -> Agents \cup {NoAgent}]
         /\ priority'  \in [Messages -> Nat]
         /\ claimedBy' \in [Messages -> Agents \cup {NoAgent}]
         /\ lapsed'    \in [Messages -> BOOLEAN]
         /\ expired'   \in [Messages -> BOOLEAN]
         /\ errorOf'   \in [Messages -> Errors]
<1>1. /\ status'    \in [Messages -> Statuses \cup {"absent", "gone"}]
      /\ addressee' \in [Messages -> Agents \cup {NoAgent}]
      /\ priority'  \in [Messages -> Nat]
      /\ claimedBy' \in [Messages -> Agents \cup {NoAgent}]
      /\ errorOf'   \in [Messages -> Errors]
  BY DEF TypeOK, DeleteRows, Errors
<1>2. /\ lapsed'    \in [Messages -> BOOLEAN]
      /\ expired'   \in [Messages -> BOOLEAN]
  BY DEF TypeOK, DeleteRows
<1> QED
  BY <1>1, <1>2

\* Every step keeps the columns and the program counters in their types.
LEMMA NextTypeOK == TypeOK /\ CallsInFlight /\ Next => TypeOK'
<1> SUFFICES ASSUME TypeOK, CallsInFlight, Next PROVE TypeOK'
  OBVIOUS
<1> USE QueueAssumption DEF TypeOK, Threads, Statuses, Finished, Errors, rowVars, threadVars, workerVars
<1>1. ASSUME NEW m \in Messages, NEW to \in Agents \cup {NoAgent}, NEW p \in Priorities,
             InsertMessage(m, to, p)
      PROVE  TypeOK'
  BY <1>1 DEF InsertMessage
<1>2. ASSUME NEW t \in Threads, NEW n \in Limits, ClaimSelect(t, n)
      PROVE  TypeOK'
  BY <1>2 DEF ClaimSelect, FirstPending, PendingFor, AfterClaim
<1>3. ASSUME NEW t \in Threads, ClaimUpdate(t)
      PROVE  TypeOK'
  BY <1>3 DEF ClaimUpdate
<1>4. ASSUME NEW t \in Threads, ClaimFetch(t)
      PROVE  TypeOK'
  BY <1>4 DEF ClaimFetch, AfterClaim
<1>5. ASSUME NEW t \in Threads, NEW m \in Messages, NEW v \in Finished, FinishRead(t, m, v)
      PROVE  TypeOK'
  BY <1>5 DEF FinishRead
<1>6. ASSUME NEW t \in Threads, UpdateMessageStatus(t)
      PROVE  TypeOK'
  BY <1>6 DEF UpdateMessageStatus
<1>7. ASSUME NEW h \in Handlers, NEW m \in Messages, DoneRequest(h, m)
      PROVE  TypeOK'
  BY <1>7 DEF DoneRequest
<1>8. ASSUME NEW h \in Handlers, DoneRecheck(h)
      PROVE  TypeOK'
  <2>1. target[h] \in Messages
    BY <1>8 DEF CallsInFlight, DoneRecheck
  <2> QED BY <1>8, <2>1 DEF DoneRecheck
<1>9. ASSUME NEW h \in Handlers, DoneRefused(h)
      PROVE  TypeOK'
  BY <1>9 DEF DoneRefused
<1>10. ASSUME NEW s \in Sessions, Disconnect(s)
       PROVE  TypeOK'
  BY <1>10 DEF Disconnect
<1>11. CASE StaleSelect
  BY <1>11 DEF StaleSelect
<1>12. ASSUME NEW m \in Messages, StaleFail(m)
       PROVE  TypeOK'
  BY <1>12 DEF StaleFail
<1>13. CASE RetentionSelect
  BY <1>13 DEF RetentionSelect
<1>14. CASE RetentionDelete
  BY <1>14, DeleteRowsType DEF RetentionDelete, NextBatch
<1>15. ASSUME NEW ids \in PurgeFilters, PurgeSelect(ids)
       PROVE  TypeOK'
  BY <1>15 DEF PurgeSelect, PurgeFilters
<1>16. CASE PurgeDelete
  BY <1>16, DeleteRowsType DEF PurgeDelete
<1>19. CASE Restart
  BY <1>19 DEF Restart
<1>17. ASSUME NEW m \in Messages, ClaimAges(m)
       PROVE  TypeOK'
  BY <1>17 DEF ClaimAges
<1>18. ASSUME NEW m \in Messages, MessageAges(m)
       PROVE  TypeOK'
  BY <1>18 DEF MessageAges
<1> HIDE DEF TypeOK, Threads, Statuses, Finished, Errors, rowVars, threadVars, workerVars
<1> QED
  BY <1>1, <1>2, <1>3, <1>4, <1>5, <1>6, <1>7, <1>8, <1>9, <1>10, <1>11, <1>12,
     <1>13, <1>14, <1>15, <1>16, <1>17, <1>18,
     <1>19 DEF Next

\* Removing rows, or trying to and failing, keeps the invariant.
LEMMA RemovalKeepsInv ==
  ASSUME IndInv, UNCHANGED threadVars, doomed' \subseteq doomed, purging' \subseteq purging,
         (\E ids \in SUBSET Messages : DeleteRows(ids)) \/ UNCHANGED rowVars
  PROVE  /\ ClaimOwnership' /\ CallsInFlight' /\ HandedOutClaimed'
         /\ FinisherIsOwner' /\ FailedHasError'
<1> USE QueueAssumption DEF IndInv, TypeOK, threadVars
<1>1. CASE UNCHANGED rowVars
  BY <1>1 DEF rowVars, ClaimOwnership, CallsInFlight, HandedOutClaimed, FinisherIsOwner,
              FailedHasError, Exists, Threads
<1>2. ASSUME NEW ids \in SUBSET Messages, DeleteRows(ids)
      PROVE  /\ ClaimOwnership' /\ CallsInFlight' /\ HandedOutClaimed'
             /\ FinisherIsOwner' /\ FailedHasError'
  <2>1. \A m \in Messages :
          \/ /\ status'[m] = status[m] /\ addressee'[m] = addressee[m]
             /\ claimedBy'[m] = claimedBy[m] /\ errorOf'[m] = errorOf[m]
          \/ status'[m] = "gone" /\ claimedBy'[m] = NoAgent
    BY <1>2, DeleteRowsEffect
  <2>2. ClaimOwnership'
    BY <2>1 DEF ClaimOwnership, Finished
  <2>3. CallsInFlight'
    BY <2>1, ZenonT(40) DEF CallsInFlight, Exists, Statuses, Threads
  <2>4. HandedOutClaimed'
    BY <2>1 DEF HandedOutClaimed, Exists, Statuses
  <2>5. FinisherIsOwner'
    BY <2>1, ZenonT(40) DEF FinisherIsOwner, CallsInFlight, Exists, Statuses, Threads
  <2>6. FailedHasError'
    BY <2>1 DEF FailedHasError
  <2> QED BY <2>2, <2>3, <2>4, <2>5, <2>6
<1> QED BY <1>1, <1>2

\* No step moves a claim or claims for another agent than the addressee.
LEMMA NextClaimOwnership == IndInv /\ Next => ClaimOwnership'
<1> SUFFICES ASSUME IndInv, Next PROVE ClaimOwnership'
  OBVIOUS
<1> USE QueueAssumption DEF IndInv, TypeOK, Threads, Statuses, Finished, Exists,
        rowVars, threadVars, workerVars, ClaimOwnership, CallsInFlight, FinisherIsOwner
<1>1. ASSUME NEW m0 \in Messages, NEW to \in Agents \cup {NoAgent}, NEW p \in Priorities, InsertMessage(m0, to, p)
      PROVE  ClaimOwnership'
  BY <1>1 DEF InsertMessage
<1>2. ASSUME NEW t0 \in Threads, NEW n \in Limits, ClaimSelect(t0, n)
      PROVE  ClaimOwnership'
  BY <1>2 DEF ClaimSelect, FirstPending, PendingFor, AfterClaim
<1>3. ASSUME NEW t0 \in Threads, ClaimUpdate(t0)
      PROVE  ClaimOwnership'
  BY <1>3 DEF ClaimUpdate
<1>4. ASSUME NEW t0 \in Threads, ClaimFetch(t0)
      PROVE  ClaimOwnership'
  BY <1>4 DEF ClaimFetch, AfterClaim
<1>5. ASSUME NEW t0 \in Threads, NEW m0 \in Messages, NEW v \in Finished, FinishRead(t0, m0, v)
      PROVE  ClaimOwnership'
  BY <1>5 DEF FinishRead
<1>6. ASSUME NEW t0 \in Threads, UpdateMessageStatus(t0)
      PROVE  ClaimOwnership'
  BY <1>6 DEF UpdateMessageStatus
<1>7. ASSUME NEW h \in Handlers, NEW m0 \in Messages, DoneRequest(h, m0)
      PROVE  ClaimOwnership'
  BY <1>7 DEF DoneRequest
<1>8. ASSUME NEW h \in Handlers, DoneRecheck(h)
      PROVE  ClaimOwnership'
  BY <1>8 DEF DoneRecheck
<1>9. ASSUME NEW h \in Handlers, DoneRefused(h)
      PROVE  ClaimOwnership'
  BY <1>9 DEF DoneRefused
<1>10. ASSUME NEW s0 \in Sessions, Disconnect(s0)
       PROVE  ClaimOwnership'
  BY <1>10 DEF Disconnect
<1>11. CASE StaleSelect
  BY <1>11 DEF StaleSelect
<1>12. ASSUME NEW m0 \in Messages, StaleFail(m0)
       PROVE  ClaimOwnership'
  BY <1>12 DEF StaleFail, Stale
<1>13. CASE RetentionSelect
  BY <1>13 DEF RetentionSelect
<1>14. CASE RetentionDelete
  BY <1>14, RemovalKeepsInv DEF RetentionDelete, NextBatch
<1>15. ASSUME NEW ids \in PurgeFilters, PurgeSelect(ids)
       PROVE  ClaimOwnership'
  BY <1>15 DEF PurgeSelect, PurgeFilters
<1>16. CASE PurgeDelete
  BY <1>16, RemovalKeepsInv DEF PurgeDelete
<1>19. CASE Restart
  BY <1>19 DEF Restart
<1>17. ASSUME NEW m0 \in Messages, ClaimAges(m0)
       PROVE  ClaimOwnership'
  BY <1>17 DEF ClaimAges
<1>18. ASSUME NEW m0 \in Messages, MessageAges(m0)
       PROVE  ClaimOwnership'
  BY <1>18 DEF MessageAges
<1> HIDE DEF IndInv, TypeOK, Threads, Statuses, Finished, Exists, rowVars, threadVars,
         workerVars, ClaimOwnership, CallsInFlight, FinisherIsOwner
<1> QED
  BY <1>1, <1>2, <1>3, <1>4, <1>5, <1>6, <1>7, <1>8, <1>9, <1>10, <1>11, <1>12, <1>13, <1>14, <1>15, <1>16, <1>17, <1>18,
     <1>19 DEF Next

\* What a goroutine knows between two statements survives the steps of the others.
LEMMA NextCallsInFlight == IndInv /\ Next => CallsInFlight'
<1> SUFFICES ASSUME IndInv, Next PROVE CallsInFlight'
  OBVIOUS
<1> USE QueueAssumption DEF IndInv, TypeOK, Threads, Statuses, Finished, Exists,
        rowVars, threadVars, workerVars, CallsInFlight, ClaimOwnership
<1>1. ASSUME NEW m0 \in Messages, NEW to \in Agents \cup {NoAgent}, NEW p \in Priorities, InsertMessage(m0, to, p)
      PROVE  CallsInFlight'
  BY <1>1 DEF InsertMessage
<1>2. ASSUME NEW t0 \in Threads, NEW n \in Limits, ClaimSelect(t0, n)
      PROVE  CallsInFlight'
  BY <1>2 DEF ClaimSelect, FirstPending, PendingFor, AfterClaim
<1>3. ASSUME NEW t0 \in Threads, ClaimUpdate(t0)
      PROVE  CallsInFlight'
  BY <1>3 DEF ClaimUpdate
<1>4. ASSUME NEW t0 \in Threads, ClaimFetch(t0)
      PROVE  CallsInFlight'
  BY <1>4 DEF ClaimFetch, AfterClaim
<1>5. ASSUME NEW t0 \in Threads, NEW m0 \in Messages, NEW v \in Finished, FinishRead(t0, m0, v)
      PROVE  CallsInFlight'
  BY <1>5 DEF FinishRead
<1>6. ASSUME NEW t0 \in Threads, UpdateMessageStatus(t0)
      PROVE  CallsInFlight'
  BY <1>6 DEF UpdateMessageStatus
<1>7. ASSUME NEW h \in Handlers, NEW m0 \in Messages, DoneRequest(h, m0)
      PROVE  CallsInFlight'
  BY <1>7 DEF DoneRequest
<1>8. ASSUME NEW h \in Handlers, DoneRecheck(h)
      PROVE  CallsInFlight'
  BY <1>8 DEF DoneRecheck
<1>9. ASSUME NEW h \in Handlers, DoneRefused(h)
      PROVE  CallsInFlight'
  BY <1>9 DEF DoneRefused
<1>10. ASSUME NEW s0 \in Sessions, Disconnect(s0)
       PROVE  CallsInFlight'
  BY <1>10 DEF Disconnect
<1>11. CASE StaleSelect
  BY <1>11 DEF StaleSelect
<1>12. ASSUME NEW m0 \in Messages, StaleFail(m0)
       PROVE  CallsInFlight'
  BY <1>12 DEF StaleFail, Stale
<1>13. CASE RetentionSelect
  BY <1>13 DEF RetentionSelect
<1>14. CASE RetentionDelete
  BY <1>14, RemovalKeepsInv DEF RetentionDelete, NextBatch
<1>15. ASSUME NEW ids \in PurgeFilters, PurgeSelect(ids)
       PROVE  CallsInFlight'
  BY <1>15 DEF PurgeSelect, PurgeFilters
<1>16. CASE PurgeDelete
  BY <1>16, RemovalKeepsInv DEF PurgeDelete
<1>19. CASE Restart
  BY <1>19 DEF Restart
<1>17. ASSUME NEW m0 \in Messages, ClaimAges(m0)
       PROVE  CallsInFlight'
  BY <1>17 DEF ClaimAges
<1>18. ASSUME NEW m0 \in Messages, MessageAges(m0)
       PROVE  CallsInFlight'
  BY <1>18 DEF MessageAges
<1> HIDE DEF IndInv, TypeOK, Threads, Statuses, Finished, Exists, rowVars, threadVars,
         workerVars, CallsInFlight, ClaimOwnership
<1> QED
  BY <1>1, <1>2, <1>3, <1>4, <1>5, <1>6, <1>7, <1>8, <1>9, <1>10, <1>11, <1>12, <1>13, <1>14, <1>15, <1>16, <1>17, <1>18,
     <1>19 DEF Next

\* No step hands out, or takes away, a claim of another agent.
LEMMA NextHandedOutClaimed == IndInv /\ Next => HandedOutClaimed'
<1> SUFFICES ASSUME IndInv, Next PROVE HandedOutClaimed'
  OBVIOUS
<1> USE QueueAssumption DEF IndInv, TypeOK, Threads, Statuses, Finished, Exists,
        rowVars, threadVars, workerVars, HandedOutClaimed, ClaimOwnership, CallsInFlight
<1>1. ASSUME NEW m0 \in Messages, NEW to \in Agents \cup {NoAgent}, NEW p \in Priorities, InsertMessage(m0, to, p)
      PROVE  HandedOutClaimed'
  BY <1>1 DEF InsertMessage
<1>2. ASSUME NEW t0 \in Threads, NEW n \in Limits, ClaimSelect(t0, n)
      PROVE  HandedOutClaimed'
  BY <1>2 DEF ClaimSelect, FirstPending, PendingFor, AfterClaim
<1>3. ASSUME NEW t0 \in Threads, ClaimUpdate(t0)
      PROVE  HandedOutClaimed'
  BY <1>3 DEF ClaimUpdate
<1>4. ASSUME NEW t0 \in Threads, ClaimFetch(t0)
      PROVE  HandedOutClaimed'
  BY <1>4 DEF ClaimFetch, AfterClaim
<1>5. ASSUME NEW t0 \in Threads, NEW m0 \in Messages, NEW v \in Finished, FinishRead(t0, m0, v)
      PROVE  HandedOutClaimed'
  BY <1>5 DEF FinishRead
<1>6. ASSUME NEW t0 \in Threads, UpdateMessageStatus(t0)
      PROVE  HandedOutClaimed'
  BY <1>6 DEF UpdateMessageStatus
<1>7. ASSUME NEW h \in Handlers, NEW m0 \in Messages, DoneRequest(h, m0)
      PROVE  HandedOutClaimed'
  BY <1>7 DEF DoneRequest
<1>8. ASSUME NEW h \in Handlers, DoneRecheck(h)
      PROVE  HandedOutClaimed'
  BY <1>8 DEF DoneRecheck
<1>9. ASSUME NEW h \in Handlers, DoneRefused(h)
      PROVE  HandedOutClaimed'
  BY <1>9 DEF DoneRefused
<1>10. ASSUME NEW s0 \in Sessions, Disconnect(s0)
       PROVE  HandedOutClaimed'
  BY <1>10 DEF Disconnect
<1>11. CASE StaleSelect
  BY <1>11 DEF StaleSelect
<1>12. ASSUME NEW m0 \in Messages, StaleFail(m0)
       PROVE  HandedOutClaimed'
  BY <1>12 DEF StaleFail, Stale
<1>13. CASE RetentionSelect
  BY <1>13 DEF RetentionSelect
<1>14. CASE RetentionDelete
  BY <1>14, RemovalKeepsInv DEF RetentionDelete, NextBatch
<1>15. ASSUME NEW ids \in PurgeFilters, PurgeSelect(ids)
       PROVE  HandedOutClaimed'
  BY <1>15 DEF PurgeSelect, PurgeFilters
<1>16. CASE PurgeDelete
  BY <1>16, RemovalKeepsInv DEF PurgeDelete
<1>19. CASE Restart
  BY <1>19 DEF Restart
<1>17. ASSUME NEW m0 \in Messages, ClaimAges(m0)
       PROVE  HandedOutClaimed'
  BY <1>17 DEF ClaimAges
<1>18. ASSUME NEW m0 \in Messages, MessageAges(m0)
       PROVE  HandedOutClaimed'
  BY <1>18 DEF MessageAges
<1> HIDE DEF IndInv, TypeOK, Threads, Statuses, Finished, Exists, rowVars, threadVars,
         workerVars, HandedOutClaimed, ClaimOwnership, CallsInFlight
<1> QED
  BY <1>1, <1>2, <1>3, <1>4, <1>5, <1>6, <1>7, <1>8, <1>9, <1>10, <1>11, <1>12, <1>13, <1>14, <1>15, <1>16, <1>17, <1>18,
     <1>19 DEF Next

\* Between MarkDone's read and its UPDATE the row stays with its owner.
LEMMA NextFinisherIsOwner == IndInv /\ Next => FinisherIsOwner'
<1> SUFFICES ASSUME IndInv, Next PROVE FinisherIsOwner'
  OBVIOUS
<1> USE QueueAssumption DEF IndInv, TypeOK, Threads, Statuses, Finished, Exists,
        rowVars, threadVars, workerVars, FinisherIsOwner, ClaimOwnership, CallsInFlight
<1>1. ASSUME NEW m0 \in Messages, NEW to \in Agents \cup {NoAgent}, NEW p \in Priorities, InsertMessage(m0, to, p)
      PROVE  FinisherIsOwner'
  BY <1>1 DEF InsertMessage
<1>2. ASSUME NEW t0 \in Threads, NEW n \in Limits, ClaimSelect(t0, n)
      PROVE  FinisherIsOwner'
  BY <1>2 DEF ClaimSelect, FirstPending, PendingFor, AfterClaim
<1>3. ASSUME NEW t0 \in Threads, ClaimUpdate(t0)
      PROVE  FinisherIsOwner'
  BY <1>3 DEF ClaimUpdate
<1>4. ASSUME NEW t0 \in Threads, ClaimFetch(t0)
      PROVE  FinisherIsOwner'
  BY <1>4 DEF ClaimFetch, AfterClaim
<1>5. ASSUME NEW t0 \in Threads, NEW m0 \in Messages, NEW v \in Finished, FinishRead(t0, m0, v)
      PROVE  FinisherIsOwner'
  BY <1>5 DEF FinishRead
<1>6. ASSUME NEW t0 \in Threads, UpdateMessageStatus(t0)
      PROVE  FinisherIsOwner'
  BY <1>6 DEF UpdateMessageStatus
<1>7. ASSUME NEW h \in Handlers, NEW m0 \in Messages, DoneRequest(h, m0)
      PROVE  FinisherIsOwner'
  BY <1>7 DEF DoneRequest
<1>8. ASSUME NEW h \in Handlers, DoneRecheck(h)
      PROVE  FinisherIsOwner'
  BY <1>8 DEF DoneRecheck
<1>9. ASSUME NEW h \in Handlers, DoneRefused(h)
      PROVE  FinisherIsOwner'
  BY <1>9 DEF DoneRefused
<1>10. ASSUME NEW s0 \in Sessions, Disconnect(s0)
       PROVE  FinisherIsOwner'
  BY <1>10 DEF Disconnect
<1>11. CASE StaleSelect
  BY <1>11 DEF StaleSelect
<1>12. ASSUME NEW m0 \in Messages, StaleFail(m0)
       PROVE  FinisherIsOwner'
  BY <1>12 DEF StaleFail, Stale
<1>13. CASE RetentionSelect
  BY <1>13 DEF RetentionSelect
<1>14. CASE RetentionDelete
  BY <1>14, RemovalKeepsInv DEF RetentionDelete, NextBatch
<1>15. ASSUME NEW ids \in PurgeFilters, PurgeSelect(ids)
       PROVE  FinisherIsOwner'
  BY <1>15 DEF PurgeSelect, PurgeFilters
<1>16. CASE PurgeDelete
  BY <1>16, RemovalKeepsInv DEF PurgeDelete
<1>19. CASE Restart
  BY <1>19 DEF Restart
<1>17. ASSUME NEW m0 \in Messages, ClaimAges(m0)
       PROVE  FinisherIsOwner'
  BY <1>17 DEF ClaimAges
<1>18. ASSUME NEW m0 \in Messages, MessageAges(m0)
       PROVE  FinisherIsOwner'
  BY <1>18 DEF MessageAges
<1> HIDE DEF IndInv, TypeOK, Threads, Statuses, Finished, Exists, rowVars, threadVars,
         workerVars, FinisherIsOwner, ClaimOwnership, CallsInFlight
<1> QED
  BY <1>1, <1>2, <1>3, <1>4, <1>5, <1>6, <1>7, <1>8, <1>9, <1>10, <1>11, <1>12, <1>13, <1>14, <1>15, <1>16, <1>17, <1>18,
     <1>19 DEF Next

\* No step fails a row without a reason, or drops the reason of a failed row.
LEMMA NextFailedHasError == IndInv /\ Next => FailedHasError'
<1> SUFFICES ASSUME IndInv, Next PROVE FailedHasError'
  OBVIOUS
<1> USE QueueAssumption DEF IndInv, TypeOK, Threads, Statuses, Finished, Exists,
        rowVars, threadVars, workerVars, FailedHasError, CallsInFlight
<1>1. ASSUME NEW m0 \in Messages, NEW to \in Agents \cup {NoAgent}, NEW p \in Priorities, InsertMessage(m0, to, p)
      PROVE  FailedHasError'
  BY <1>1 DEF InsertMessage
<1>2. ASSUME NEW t0 \in Threads, NEW n \in Limits, ClaimSelect(t0, n)
      PROVE  FailedHasError'
  BY <1>2 DEF ClaimSelect, FirstPending, PendingFor, AfterClaim
<1>3. ASSUME NEW t0 \in Threads, ClaimUpdate(t0)
      PROVE  FailedHasError'
  BY <1>3 DEF ClaimUpdate
<1>4. ASSUME NEW t0 \in Threads, ClaimFetch(t0)
      PROVE  FailedHasError'
  BY <1>4 DEF ClaimFetch, AfterClaim
<1>5. ASSUME NEW t0 \in Threads, NEW m0 \in Messages, NEW v \in Finished, FinishRead(t0, m0, v)
      PROVE  FailedHasError'
  BY <1>5 DEF FinishRead
<1>6. ASSUME NEW t0 \in Threads, UpdateMessageStatus(t0)
      PROVE  FailedHasError'
  BY <1>6 DEF UpdateMessageStatus
<1>7. ASSUME NEW h \in Handlers, NEW m0 \in Messages, DoneRequest(h, m0)
      PROVE  FailedHasError'
  BY <1>7 DEF DoneRequest
<1>8. ASSUME NEW h \in Handlers, DoneRecheck(h)
      PROVE  FailedHasError'
  BY <1>8 DEF DoneRecheck
<1>9. ASSUME NEW h \in Handlers, DoneRefused(h)
      PROVE  FailedHasError'
  BY <1>9 DEF DoneRefused
<1>10. ASSUME NEW s0 \in Sessions, Disconnect(s0)
       PROVE  FailedHasError'
  BY <1>10 DEF Disconnect
<1>11. CASE StaleSelect
  BY <1>11 DEF StaleSelect
<1>12. ASSUME NEW m0 \in Messages, StaleFail(m0)
       PROVE  FailedHasError'
  BY <1>12 DEF StaleFail, Stale
<1>13. CASE RetentionSelect
  BY <1>13 DEF RetentionSelect
<1>14. CASE RetentionDelete
  BY <1>14, RemovalKeepsInv DEF RetentionDelete, NextBatch
<1>15. ASSUME NEW ids \in PurgeFilters, PurgeSelect(ids)
       PROVE  FailedHasError'
  BY <1>15 DEF PurgeSelect, PurgeFilters
<1>16. CASE PurgeDelete
  BY <1>16, RemovalKeepsInv DEF PurgeDelete
<1>19. CASE Restart
  BY <1>19 DEF Restart
<1>17. ASSUME NEW m0 \in Messages, ClaimAges(m0)
       PROVE  FailedHasError'
  BY <1>17 DEF ClaimAges
<1>18. ASSUME NEW m0 \in Messages, MessageAges(m0)
       PROVE  FailedHasError'
  BY <1>18 DEF MessageAges
<1> HIDE DEF IndInv, TypeOK, Threads, Statuses, Finished, Exists, rowVars, threadVars,
         workerVars, FailedHasError, CallsInFlight
<1> QED
  BY <1>1, <1>2, <1>3, <1>4, <1>5, <1>6, <1>7, <1>8, <1>9, <1>10, <1>11, <1>12, <1>13, <1>14, <1>15, <1>16, <1>17, <1>18,
     <1>19 DEF Next

\* The inductive invariant holds in every reachable state.
THEOREM Invariance == Spec => []IndInv
<1>1. IndInv /\ [Next]_vars => IndInv'
  <2>1. IndInv /\ Next => TypeOK'
    BY NextTypeOK DEF IndInv
  <2>2. IndInv /\ Next => IndInv'
    BY <2>1, NextClaimOwnership, NextCallsInFlight, NextHandedOutClaimed,
       NextFinisherIsOwner, NextFailedHasError DEF IndInv
  <2>3. IndInv /\ UNCHANGED vars => IndInv'
    BY DEF IndInv, vars, rowVars, threadVars, workerVars, TypeOK, ClaimOwnership,
           HandedOutClaimed, FinisherIsOwner, CallsInFlight, FailedHasError, Exists
  <2> QED BY <2>2, <2>3
<1> QED
  BY InitIndInv, <1>1, PTL DEF Spec

\* The columns and the program counters always have their types.
THEOREM TypeCorrect == Spec => []TypeOK
  BY Invariance, PTL DEF IndInv

\* Ownership of a row begins with its claim and stays with its addressee, for
\* any number of agents, sessions and Web-UI requests.
THEOREM Ownership == Spec => []ClaimOwnership
  BY Invariance, PTL DEF IndInv

\* claim_messages never hands an agent a row that was not claimed for it.
THEOREM HandOut == Spec => []HandedOutClaimed
  BY Invariance, PTL DEF IndInv

\* Whoever is about to finish a row owns it.
THEOREM OwnerFinishes == Spec => []FinisherIsOwner
  BY Invariance, PTL DEF IndInv

\* A failed row carries the reason of its failure.
THEOREM ReasonKept == Spec => []FailedHasError
  BY Invariance, PTL DEF IndInv

-----------------------------------------------------------------------------
(* What a step may do: every step is one of the abstract life of a message. *)

\* A deletion is the abstract Remove of rows that were inserted once.
LEMMA RemovalRefines ==
  ASSUME IndInv, NEW ids \in SUBSET Messages, DeleteRows(ids),
         \A m \in ids : status[m] # "absent"
  PROVE  Lifecycle!Remove(ids)
  BY DEF DeleteRows, Lifecycle!Remove

\* Every step of the queue is a step of MessageLifecycle or leaves it alone.
LEMMA StepRefines == IndInv /\ [Next]_vars => [Lifecycle!Next]_(Lifecycle!vars)
<1> SUFFICES ASSUME IndInv, [Next]_vars PROVE [Lifecycle!Next]_(Lifecycle!vars)
  OBVIOUS
<1> USE DEF vars, rowVars, Lifecycle!vars
<1>1. ASSUME NEW m \in Messages, NEW to \in Agents \cup {NoAgent}, NEW p \in Priorities,
             InsertMessage(m, to, p)
      PROVE  Lifecycle!Next
  BY <1>1 DEF InsertMessage, Lifecycle!Next, Lifecycle!Send
<1>2. ASSUME NEW t \in Threads, ClaimUpdate(t)
      PROVE  Lifecycle!Next
  <2> DEFINE won == {m \in sel[t] : status[m] = "pending"}
  <2>1. /\ acting[t] \in Agents
        /\ won \in SUBSET Messages
        /\ \A m \in won : status[m] = "pending" /\ addressee[m] = acting[t]
    BY <1>2 DEF ClaimUpdate, IndInv, TypeOK, CallsInFlight, Exists, Statuses
  <2>2. Lifecycle!Claim(acting[t], won)
    BY <1>2, <2>1 DEF ClaimUpdate, Lifecycle!Claim
  <2> QED BY <2>1, <2>2 DEF Lifecycle!Next
<1>3. ASSUME NEW t \in Threads, UpdateMessageStatus(t)
      PROVE  [Lifecycle!Next]_(Lifecycle!vars)
  <2> DEFINE m == target[t]
  <2>1. m \in Messages /\ verdict[t] \in Finished
    BY <1>3 DEF UpdateMessageStatus, IndInv, TypeOK, CallsInFlight, Threads
  <2>2. CASE Exists(m) /\ claimedBy[m] = acting[t]
    <3>1. status[m] \in {"processing"} \cup Finished /\ claimedBy[m] = addressee[m]
      BY <1>3, <2>1, <2>2 DEF UpdateMessageStatus, IndInv, FinisherIsOwner, ClaimOwnership,
                             Exists, Statuses, Finished
    <3>2. Lifecycle!Finish(m, verdict[t])
      BY <1>3, <2>1, <2>2, <3>1 DEF UpdateMessageStatus, Lifecycle!Finish, Lifecycle!Outcomes, Finished
    <3> QED BY <2>1, <3>2 DEF Lifecycle!Next, Lifecycle!Outcomes, Finished
  <2>3. CASE ~ (Exists(m) /\ claimedBy[m] = acting[t])
    BY <1>3, <2>3 DEF UpdateMessageStatus
  <2> QED BY <2>2, <2>3
<1>4. ASSUME NEW m \in Messages, StaleFail(m)
      PROVE  [Lifecycle!Next]_(Lifecycle!vars)
  <2>1. CASE Stale(m)
    <3>1. Lifecycle!Finish(m, "failed")
      BY <1>4, <2>1 DEF StaleFail, Stale, Lifecycle!Finish, Lifecycle!Outcomes, IndInv, ClaimOwnership
    <3> QED BY <3>1 DEF Lifecycle!Next, Lifecycle!Outcomes
  <2>2. CASE ~Stale(m)
    BY <1>4, <2>2 DEF StaleFail
  <2> QED BY <2>1, <2>2
<1>5. CASE RetentionDelete
  <2>1. NextBatch(doomed) \in SUBSET Messages /\ \A m \in NextBatch(doomed) : status[m] # "absent"
    BY DEF NextBatch, IndInv, TypeOK, CallsInFlight
  <2>2. CASE DeleteRows(NextBatch(doomed))
    BY <2>1, <2>2, RemovalRefines DEF Lifecycle!Next
  <2> QED BY <1>5, <2>2 DEF RetentionDelete
<1>6. CASE PurgeDelete
  <2>1. purging \in SUBSET Messages /\ \A m \in purging : status[m] # "absent"
    BY DEF IndInv, TypeOK, CallsInFlight
  <2>2. CASE DeleteRows(purging)
    BY <2>1, <2>2, RemovalRefines DEF Lifecycle!Next
  <2> QED BY <1>6, <2>2 DEF PurgeDelete
<1>7. CASE \/ \E t \in Threads, n \in Limits : ClaimSelect(t, n)
           \/ \E t \in Threads : ClaimFetch(t)
           \/ \E t \in Threads, m \in Messages, v \in Finished : FinishRead(t, m, v)
           \/ \E h \in Handlers, m \in Messages : DoneRequest(h, m)
           \/ \E h \in Handlers : DoneRecheck(h) \/ DoneRefused(h)
           \/ \E s \in Sessions : Disconnect(s)
           \/ StaleSelect \/ RetentionSelect
           \/ \E ids \in PurgeFilters : PurgeSelect(ids)
           \/ \E m \in Messages : ClaimAges(m) \/ MessageAges(m)
           \/ Restart
           \/ UNCHANGED vars
  BY <1>7 DEF Restart, ClaimSelect, ClaimFetch, FinishRead, DoneRequest, DoneRecheck, DoneRefused,
              Disconnect, StaleSelect, RetentionSelect, PurgeSelect, ClaimAges, MessageAges
<1> QED
  BY <1>1, <1>2, <1>3, <1>4, <1>5, <1>6, <1>7 DEF Next

\* The statements of the code implement the abstract life of a message: the
\* claim is atomic, a claim never moves, and a message never goes back.
THEOREM Refinement == Spec => ImplementsLifecycle
<1>1. Init => Lifecycle!Init
  BY DEF Init, Lifecycle!Init
<1> QED
  BY <1>1, StepRefines, Invariance, PTL DEF Spec, ImplementsLifecycle, Lifecycle!Spec

\* No interleaving of statements returns a message to an earlier stage.
THEOREM NeverBack == Spec => ForwardOnly
<1>1. IndInv /\ [Next]_vars => [\A m \in Messages : Rank[status[m]] <= Rank[status'[m]]]_vars
  <2> SUFFICES ASSUME IndInv, [Lifecycle!Next]_(Lifecycle!vars), NEW m \in Messages
               PROVE  Rank[status[m]] <= Rank[status'[m]]
    BY StepRefines
  <2> USE DEF IndInv, TypeOK, Rank, Statuses, Finished
  <2>1. CASE UNCHANGED Lifecycle!vars
    BY <2>1 DEF Lifecycle!vars
  <2>2. ASSUME NEW x \in Messages, NEW a \in Agents \cup {NoAgent}, Lifecycle!Send(x, a)
        PROVE  Rank[status[m]] <= Rank[status'[m]]
    BY <2>2 DEF Lifecycle!Send
  <2>3. ASSUME NEW a \in Agents, NEW ms \in SUBSET Messages, Lifecycle!Claim(a, ms)
        PROVE  Rank[status[m]] <= Rank[status'[m]]
    BY <2>3 DEF Lifecycle!Claim
  <2>4. ASSUME NEW x \in Messages, NEW v \in Lifecycle!Outcomes, Lifecycle!Finish(x, v)
        PROVE  Rank[status[m]] <= Rank[status'[m]]
    BY <2>4 DEF Lifecycle!Finish, Lifecycle!Outcomes
  <2>5. ASSUME NEW ms \in SUBSET Messages, Lifecycle!Remove(ms)
        PROVE  Rank[status[m]] <= Rank[status'[m]]
    BY <2>5 DEF Lifecycle!Remove
  <2> QED BY <2>1, <2>2, <2>3, <2>4, <2>5 DEF Lifecycle!Next
<1> QED
  BY <1>1, Invariance, PTL DEF Spec, ForwardOnly

\* The StalemateWorker never fails a row that is not processing on a lapsed
\* claim at the moment of its UPDATE.
THEOREM NoStomp == Spec => StaleFailsOnlyStale
<1>1. IndInv /\ [Next]_vars
        => [\A m \in Messages : errorOf'[m] = "timeout" /\ errorOf[m] # "timeout" => Stale(m)]_vars
  <2> SUFFICES ASSUME IndInv, Next, NEW m \in Messages,
                      errorOf'[m] = "timeout", errorOf[m] # "timeout"
               PROVE  Stale(m)
    OBVIOUS
  <2>1. ~ \E t \in Threads : UpdateMessageStatus(t)
    BY DEF UpdateMessageStatus, IndInv, TypeOK, Threads
  <2>2. ~ (RetentionDelete \/ PurgeDelete)
    BY DeleteRowsEffect DEF RetentionDelete, PurgeDelete, rowVars
  <2>3. \E x \in Messages : StaleFail(x)
    BY <2>1, <2>2 DEF Next, InsertMessage, ClaimSelect, ClaimUpdate, ClaimFetch, FinishRead,
         DoneRequest, DoneRecheck, DoneRefused, Disconnect, StaleSelect, RetentionSelect,
         PurgeSelect, ClaimAges, MessageAges, Restart, rowVars
  <2> QED BY <2>3 DEF StaleFail, IndInv, TypeOK
<1> QED
  BY <1>1, Invariance, PTL DEF Spec, StaleFailsOnlyStale

=============================================================================

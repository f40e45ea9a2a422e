----------------------------- MODULE WorkProofs -----------------------------
(***************************************************************************)
(* Theorems about the components that carry out work: the task auction     *)
(* (TaskAuction), secrets (Secrets), the Kubernetes handlers               *)
(* (K8sHandlers), goals with their task trees (Goals), the harness         *)
(* (Harness), the embedding pipeline and search (Embeddings), and about    *)
(* the composition that TLC checks (MCWork).  Each component has an        *)
(* inductive invariant of its own; a step of the composition is a step of  *)
(* one component and leaves the others alone.                              *)
(***************************************************************************)
EXTENDS MCWork, TaskAuction, SumTheorems, SequenceTheorems, TLAPS

-----------------------------------------------------------------------------
(* The task auction.                                                       *)

\* Award calls that have written the task, and those that have accepted a bid.
HasAssigned == {"accept", "list", "reject", "end"}
HasAccepted == {"list", "reject", "end"}

\* What a call remembers about its task and bid fits the tables.
CallsMatch ==
  /\ \A c \in BidCalls :
       /\ at[c] \in {"start", "insert", "end"}
       /\ at[c] = "insert" => /\ target[c] \in Bids
                              /\ task[target[c][1]] # "none"
                              /\ poster[target[c][1]] # target[c][2]
  /\ \A c \in AwardCalls :
       /\ at[c] \in {"start", "bid", "assign", "accept", "list", "reject", "end"}
       /\ at[c] # "start" => target[c] \in Bids /\ job[c] \in Tasks
       /\ at[c] \in {"assign", "accept", "list", "reject"} =>
            target[c][1] = job[c] /\ bid[target[c]] # "none"
       /\ at[c] \in {"accept", "list", "reject"} => Awarded(job[c])
       /\ at[c] = "reject" => \A b \in rest[c] : b \in Bids /\ bid[b] # "none"
  /\ \A c \in DoneCalls :
       /\ at[c] \in {"start", "check", "update", "record", "end"}
       /\ at[c] # "start" => /\ target[c] \in Bids /\ job[c] \in Tasks
                             /\ target[c][1] = job[c]
       /\ at[c] = "update" => Awarded(job[c])

\* A bid is for a task that was posted, by somebody else.
BidsForeign ==
  \A t \in Tasks, a \in Agents : bid[<<t, a>>] # "none" => task[t] # "none" /\ poster[t] # a

\* An awarded task has an assignee.
HasAssignee == \A t \in Tasks : Awarded(t) => assigned[t] \in Agents

IndInv == TypeOK /\ CallsMatch /\ BidsForeign /\ HasAssignee /\ AssigneeHasBid

-----------------------------------------------------------------------------
LEMMA InitInv == Init => IndInv
<1> SUFFICES ASSUME Init PROVE IndInv
  OBVIOUS
<1> USE AuctionAssumption DEF Init
<1>1. TypeOK
  BY DEF TypeOK, Calls
<1>2. CallsMatch
  BY DEF CallsMatch, Calls
<1>3. BidsForeign /\ HasAssignee /\ AssigneeHasBid
  BY DEF BidsForeign, HasAssignee, AssigneeHasBid, Awarded, Bids
<1> QED
  BY <1>1, <1>2, <1>3 DEF IndInv

\* The type invariant is preserved.
LEMMA StepType == IndInv /\ Next => TypeOK'
<1> SUFFICES ASSUME IndInv, Next PROVE TypeOK'
  OBVIOUS
<1> USE AuctionAssumption DEF IndInv, TypeOK, tables, Goto, Calls
<1>1. ASSUME NEW t \in Tasks, NEW p \in Agents, NEW d \in {"never", "future"}, PostTask(t, p, d) PROVE TypeOK'
  BY <1>1 DEF PostTask
<1>2. ASSUME NEW t \in Tasks, DeadlinePasses(t) PROVE TypeOK'
  BY <1>2 DEF DeadlinePasses
<1>3. ASSUME NEW batch \in SUBSET Tasks, ExpireTasks(batch) PROVE TypeOK'
  BY <1>3 DEF ExpireTasks
<1>4. ASSUME NEW c \in BidCalls, NEW t \in Tasks, NEW a \in Agents, BidCheck(c, t, a) PROVE TypeOK'
  BY <1>4 DEF BidCheck, Bids
<1>5. ASSUME NEW c \in BidCalls, CreateBid(c) PROVE TypeOK'
  BY <1>5 DEF CreateBid, CallsMatch
<1>6. ASSUME NEW c \in AwardCalls, NEW t \in Tasks, NEW b \in Bids, AcceptCheck(c, t, b) PROVE TypeOK'
  BY <1>6 DEF AcceptCheck
<1>7. ASSUME NEW c \in AwardCalls, GetBid(c) PROVE TypeOK'
  BY <1>7 DEF GetBid
<1>8. ASSUME NEW c \in AwardCalls, AssignTask(c) PROVE TypeOK'
  <2>1. target[c] \in Bids /\ job[c] \in Tasks
    BY <1>8 DEF AssignTask, CallsMatch
  <2>2. target[c][2] \in Agents
    BY <2>1 DEF Bids
  <2> QED
    BY <1>8, <2>1, <2>2 DEF AssignTask
<1>9. ASSUME NEW c \in AwardCalls, AcceptWinner(c) PROVE TypeOK'
  BY <1>9 DEF AcceptWinner, UpdateBidStatus
<1>10. ASSUME NEW c \in AwardCalls, GetBids(c) PROVE TypeOK'
  BY <1>10 DEF GetBids
<1>11. ASSUME NEW c \in AwardCalls, NEW b \in Bids, RejectLoser(c, b) PROVE TypeOK'
  BY <1>11 DEF RejectLoser, UpdateBidStatus
<1>12. ASSUME NEW c \in AwardCalls, EndAward(c) PROVE TypeOK'
  <2>1. job[c] \in Tasks /\ assigned[job[c]] \in Agents
    BY <1>12 DEF EndAward, CallsMatch, HasAssignee
  <2>2. dm' \in SUBSET Bids
    BY <1>12, <2>1 DEF EndAward, Bids
  <2> QED
    BY <1>12, <2>2 DEF EndAward
<1>13. ASSUME NEW c \in DoneCalls, NEW t \in Tasks, NEW a \in Agents, NEW e \in Agents \cup {None},
              DoneRead(c, t, a, e) PROVE TypeOK'
  BY <1>13 DEF DoneRead, Bids
<1>14. ASSUME NEW c \in DoneCalls, DoneCheck(c) PROVE TypeOK'
  BY <1>14 DEF DoneCheck, CallsMatch
<1>15. ASSUME NEW c \in DoneCalls, CompleteTask(c) PROVE TypeOK'
  BY <1>15 DEF CompleteTask
<1>16. ASSUME NEW c \in DoneCalls, NEW d \in Domains, RecordEntry(c, d) PROVE TypeOK'
  <2>1. job[c] \in Tasks /\ target[c][2] \in Agents
    BY <1>16 DEF RecordEntry, CallsMatch, Bids
  <2>2. ledger' \in SUBSET [call : DoneCalls, task : Tasks, agent : Agents, domain : Domains, est : Agents \cup {None}]
    BY <1>16, <2>1 DEF RecordEntry
  <2> QED
    BY <1>16, <2>2 DEF RecordEntry
<1>17. ASSUME NEW c \in DoneCalls, EndDone(c) PROVE TypeOK'
  BY <1>17 DEF EndDone
<1>18. ASSUME Restart PROVE TypeOK'
  BY <1>18 DEF Restart
<1> QED
  BY <1>1, <1>2, <1>3, <1>4, <1>5, <1>6, <1>7, <1>8, <1>9, <1>10, <1>11, <1>12, <1>13, <1>14,
     <1>15, <1>16, <1>17, <1>18, SMTT(30) DEF Next, BidStep, AwardStep, DoneStep
\* The facts about calls, bids and assignees are preserved.
LEMMA StepMatch == IndInv /\ Next => CallsMatch' /\ BidsForeign' /\ HasAssignee' /\ AssigneeHasBid'
<1> DEFINE Good == CallsMatch /\ BidsForeign /\ HasAssignee /\ AssigneeHasBid
<1> SUFFICES ASSUME IndInv, Next PROVE Good'
  OBVIOUS
<1> USE AuctionAssumption DEF IndInv, TypeOK, tables, Goto, Calls
<1>1. ASSUME NEW t \in Tasks, NEW p \in Agents, NEW d \in {"never", "future"}, PostTask(t, p, d) PROVE Good'
  <2>1. CallsMatch'
    BY <1>1 DEF PostTask, CallsMatch, BidsForeign, Awarded, Bids
  <2>2. BidsForeign'
    BY <1>1 DEF PostTask, BidsForeign, CallsMatch, Bids
  <2>3. HasAssignee' /\ AssigneeHasBid'
    BY <1>1 DEF PostTask, HasAssignee, AssigneeHasBid, BidsForeign, CallsMatch, Awarded, Bids
  <2> QED
    BY <2>1, <2>2, <2>3
<1>2. ASSUME NEW t \in Tasks, DeadlinePasses(t) PROVE Good'
  <2>1. CallsMatch'
    BY <1>2 DEF DeadlinePasses, CallsMatch, BidsForeign, Awarded, Bids
  <2>2. BidsForeign'
    BY <1>2 DEF DeadlinePasses, BidsForeign, CallsMatch, Bids
  <2>3. HasAssignee' /\ AssigneeHasBid'
    BY <1>2 DEF DeadlinePasses, HasAssignee, AssigneeHasBid, BidsForeign, CallsMatch, Awarded, Bids
  <2> QED
    BY <2>1, <2>2, <2>3
<1>3. ASSUME NEW batch \in SUBSET Tasks, ExpireTasks(batch) PROVE Good'
  <2>1. CallsMatch'
    BY <1>3 DEF ExpireTasks, CallsMatch, BidsForeign, Awarded, Bids, Overdue
  <2>2. BidsForeign'
    BY <1>3 DEF ExpireTasks, BidsForeign, CallsMatch, Bids, Overdue
  <2>3. HasAssignee' /\ AssigneeHasBid'
    BY <1>3 DEF ExpireTasks, HasAssignee, AssigneeHasBid, BidsForeign, CallsMatch, Awarded, Bids, Overdue
  <2> QED
    BY <2>1, <2>2, <2>3
<1>4. ASSUME NEW c \in BidCalls, NEW t \in Tasks, NEW a \in Agents, BidCheck(c, t, a) PROVE Good'
  <2>1. CallsMatch'
    BY <1>4 DEF BidCheck, CallsMatch, BidsForeign, Awarded, Bids
  <2>2. BidsForeign'
    BY <1>4 DEF BidCheck, BidsForeign, CallsMatch, Bids
  <2>3. HasAssignee' /\ AssigneeHasBid'
    BY <1>4 DEF BidCheck, HasAssignee, AssigneeHasBid, BidsForeign, CallsMatch, Awarded, Bids
  <2> QED
    BY <2>1, <2>2, <2>3
<1>5. ASSUME NEW c \in BidCalls, CreateBid(c) PROVE Good'
  <2>1. CallsMatch'
    BY <1>5 DEF CreateBid, CallsMatch, BidsForeign, Awarded, Bids
  <2>2. BidsForeign'
    BY <1>5 DEF CreateBid, BidsForeign, CallsMatch, Bids
  <2>3. HasAssignee' /\ AssigneeHasBid'
    BY <1>5 DEF CreateBid, HasAssignee, AssigneeHasBid, BidsForeign, CallsMatch, Awarded, Bids
  <2> QED
    BY <2>1, <2>2, <2>3
<1>6. ASSUME NEW c \in AwardCalls, NEW t \in Tasks, NEW b \in Bids, AcceptCheck(c, t, b) PROVE Good'
  <2>1. CallsMatch'
    BY <1>6 DEF AcceptCheck, CallsMatch, BidsForeign, Awarded, Bids
  <2>2. BidsForeign'
    BY <1>6 DEF AcceptCheck, BidsForeign, CallsMatch, Bids
  <2>3. HasAssignee' /\ AssigneeHasBid'
    BY <1>6 DEF AcceptCheck, HasAssignee, AssigneeHasBid, BidsForeign, CallsMatch, Awarded, Bids
  <2> QED
    BY <2>1, <2>2, <2>3
<1>7. ASSUME NEW c \in AwardCalls, GetBid(c) PROVE Good'
  <2>1. CallsMatch'
    BY <1>7 DEF GetBid, CallsMatch, BidsForeign, Awarded, Bids
  <2>2. BidsForeign'
    BY <1>7 DEF GetBid, BidsForeign, CallsMatch, Bids
  <2>3. HasAssignee' /\ AssigneeHasBid'
    BY <1>7 DEF GetBid, HasAssignee, AssigneeHasBid, BidsForeign, CallsMatch, Awarded, Bids
  <2> QED
    BY <2>1, <2>2, <2>3
<1>8. ASSUME NEW c \in AwardCalls, AssignTask(c) PROVE Good'
  <2>1. CallsMatch'
    BY <1>8 DEF AssignTask, CallsMatch, BidsForeign, Awarded, Bids
  <2>2. BidsForeign'
    BY <1>8 DEF AssignTask, BidsForeign, CallsMatch, Bids
  <2>3. HasAssignee' /\ AssigneeHasBid'
    BY <1>8 DEF AssignTask, HasAssignee, AssigneeHasBid, BidsForeign, CallsMatch, Awarded, Bids
  <2> QED
    BY <2>1, <2>2, <2>3
<1>9. ASSUME NEW c \in AwardCalls, AcceptWinner(c) PROVE Good'
  <2>1. CallsMatch'
    BY <1>9 DEF AcceptWinner, CallsMatch, BidsForeign, Awarded, Bids, UpdateBidStatus
  <2>2. BidsForeign'
    BY <1>9 DEF AcceptWinner, BidsForeign, CallsMatch, Bids, UpdateBidStatus
  <2>3. HasAssignee' /\ AssigneeHasBid'
    BY <1>9 DEF AcceptWinner, HasAssignee, AssigneeHasBid, BidsForeign, CallsMatch, Awarded, Bids, UpdateBidStatus
  <2> QED
    BY <2>1, <2>2, <2>3
<1>10. ASSUME NEW c \in AwardCalls, GetBids(c) PROVE Good'
  <2>1. CallsMatch'
    BY <1>10 DEF GetBids, CallsMatch, BidsForeign, Awarded, Bids
  <2>2. BidsForeign'
    BY <1>10 DEF GetBids, BidsForeign, CallsMatch, Bids
  <2>3. HasAssignee' /\ AssigneeHasBid'
    BY <1>10 DEF GetBids, HasAssignee, AssigneeHasBid, BidsForeign, CallsMatch, Awarded, Bids
  <2> QED
    BY <2>1, <2>2, <2>3
<1>11. ASSUME NEW c \in AwardCalls, NEW b \in Bids, RejectLoser(c, b) PROVE Good'
  <2>1. CallsMatch'
    BY <1>11 DEF RejectLoser, CallsMatch, BidsForeign, Awarded, Bids, UpdateBidStatus
  <2>2. BidsForeign'
    BY <1>11 DEF RejectLoser, BidsForeign, CallsMatch, Bids, UpdateBidStatus
  <2>3. HasAssignee' /\ AssigneeHasBid'
    BY <1>11 DEF RejectLoser, HasAssignee, AssigneeHasBid, BidsForeign, CallsMatch, Awarded, Bids, UpdateBidStatus
  <2> QED
    BY <2>1, <2>2, <2>3
<1>12. ASSUME NEW c \in AwardCalls, EndAward(c) PROVE Good'
  <2>1. CallsMatch'
    BY <1>12 DEF EndAward, CallsMatch, BidsForeign, Awarded, Bids
  <2>2. BidsForeign'
    BY <1>12 DEF EndAward, BidsForeign, CallsMatch, Bids
  <2>3. HasAssignee' /\ AssigneeHasBid'
    BY <1>12 DEF EndAward, HasAssignee, AssigneeHasBid, BidsForeign, CallsMatch, Awarded, Bids
  <2> QED
    BY <2>1, <2>2, <2>3
<1>13. ASSUME NEW c \in DoneCalls, NEW t \in Tasks, NEW a \in Agents, NEW e \in Agents \cup {None},
              DoneRead(c, t, a, e) PROVE Good'
  <2>1. CallsMatch'
    BY <1>13 DEF DoneRead, CallsMatch, BidsForeign, Awarded, Bids
  <2>2. BidsForeign'
    BY <1>13 DEF DoneRead, BidsForeign, CallsMatch, Bids
  <2>3. HasAssignee' /\ AssigneeHasBid'
    BY <1>13 DEF DoneRead, HasAssignee, AssigneeHasBid, BidsForeign, CallsMatch, Awarded, Bids
  <2> QED
    BY <2>1, <2>2, <2>3
<1>14. ASSUME NEW c \in DoneCalls, DoneCheck(c) PROVE Good'
  <2>1. CallsMatch'
    BY <1>14 DEF DoneCheck, CallsMatch, BidsForeign, Awarded, Bids
  <2>2. BidsForeign'
    BY <1>14 DEF DoneCheck, BidsForeign, CallsMatch, Bids
  <2>3. HasAssignee' /\ AssigneeHasBid'
    BY <1>14 DEF DoneCheck, HasAssignee, AssigneeHasBid, BidsForeign, CallsMatch, Awarded, Bids
  <2> QED
    BY <2>1, <2>2, <2>3
<1>15. ASSUME NEW c \in DoneCalls, CompleteTask(c) PROVE Good'
  <2>1. CallsMatch'
    BY <1>15 DEF CompleteTask, CallsMatch, BidsForeign, Awarded, Bids
  <2>2. BidsForeign'
    BY <1>15 DEF CompleteTask, BidsForeign, CallsMatch, Bids
  <2>3. HasAssignee' /\ AssigneeHasBid'
    BY <1>15 DEF CompleteTask, HasAssignee, AssigneeHasBid, BidsForeign, CallsMatch, Awarded, Bids
  <2> QED
    BY <2>1, <2>2, <2>3
<1>16. ASSUME NEW c \in DoneCalls, NEW d \in Domains, RecordEntry(c, d) PROVE Good'
  <2>1. CallsMatch'
    BY <1>16 DEF RecordEntry, CallsMatch, BidsForeign, Awarded, Bids
  <2>2. BidsForeign'
    BY <1>16 DEF RecordEntry, BidsForeign, CallsMatch, Bids
  <2>3. HasAssignee' /\ AssigneeHasBid'
    BY <1>16 DEF RecordEntry, HasAssignee, AssigneeHasBid, BidsForeign, CallsMatch, Awarded, Bids
  <2> QED
    BY <2>1, <2>2, <2>3
<1>17. ASSUME NEW c \in DoneCalls, EndDone(c) PROVE Good'
  <2>1. CallsMatch'
    BY <1>17 DEF EndDone, CallsMatch, BidsForeign, Awarded, Bids
  <2>2. BidsForeign'
    BY <1>17 DEF EndDone, BidsForeign, CallsMatch, Bids
  <2>3. HasAssignee' /\ AssigneeHasBid'
    BY <1>17 DEF EndDone, HasAssignee, AssigneeHasBid, BidsForeign, CallsMatch, Awarded, Bids
  <2> QED
    BY <2>1, <2>2, <2>3
<1>18. ASSUME Restart PROVE Good'
  <2>1. CallsMatch'
    BY <1>18 DEF Restart, CallsMatch, BidsForeign, Awarded, Bids
  <2>2. BidsForeign'
    BY <1>18 DEF Restart, BidsForeign, CallsMatch, Bids
  <2>3. HasAssignee' /\ AssigneeHasBid'
    BY <1>18 DEF Restart, HasAssignee, AssigneeHasBid, BidsForeign, CallsMatch, Awarded, Bids
  <2> QED
    BY <2>1, <2>2, <2>3
<1> QED
  BY <1>1, <1>2, <1>3, <1>4, <1>5, <1>6, <1>7, <1>8, <1>9,
     <1>10, <1>11, <1>12, <1>13, <1>14, <1>15, <1>16, <1>17, <1>18 DEF Next, BidStep, AwardStep, DoneStep
\* Together the facts form an inductive invariant.
LEMMA Inductive == Spec => []IndInv
<1>1. Init => IndInv
  BY InitInv
<1>2. IndInv /\ [Next]_vars => IndInv'
  <2> SUFFICES ASSUME IndInv, [Next]_vars PROVE IndInv'
    OBVIOUS
  <2>1. CASE Next
    BY <2>1, StepType, StepMatch DEF IndInv
  <2>2. CASE UNCHANGED vars
    BY <2>2 DEF vars, tables, IndInv, TypeOK, CallsMatch, BidsForeign, HasAssignee, AssigneeHasBid, Awarded
  <2> QED
    BY <2>1, <2>2
<1> QED
  BY <1>1, <1>2, PTL DEF Spec

\* Tables and calls keep their types.
THEOREM TypeCorrect == Spec => []TypeOK
<1>1. IndInv => TypeOK
  BY DEF IndInv
<1> QED
  BY <1>1, Inductive, PTL

\* However many awards, bids, completions and expiries run at once, a task is
\* only assigned to an agent who has bid on this task and did not post it.
THEOREM BidBeforeAward == Spec => []AssigneeHasBid
<1>1. IndInv => AssigneeHasBid
  BY DEF IndInv
<1> QED
  BY <1>1, Inductive, PTL

-----------------------------------------------------------------------------
(* The ledger: who earned what can be traced to the award call. *)

\* The bids some award call has written into the task, and has accepted; the
\* tasks with one award call.
Assigning == {b \in Bids : \E c \in AwardCalls : job[c] = b[1] /\ target[c] = b /\ at[c] \in HasAssigned}
Accepting == {b \in Bids : \E c \in AwardCalls : job[c] = b[1] /\ target[c] = b /\ at[c] \in HasAccepted}
Once      == {t \in Tasks : AwardedOnce(t)}

Traced ==
  /\ \A c \in AwardCalls : at[c] = "start" => job[c] = None
  /\ \A t \in Tasks, a \in Agents : bid[<<t, a>>] = "accepted" => <<t, a>> \in Accepting
  /\ \A t \in Tasks : Awarded(t) => <<t, assigned[t]>> \in Assigning
  /\ \A c \in DoneCalls : at[c] # "start" /\ est[c] # None => <<job[c], est[c]>> \in Accepting
  /\ \A e \in ledger : e.est # None => <<e.task, e.est>> \in Accepting

\* What a completing call has checked stays true unless there is a second award.
Checked ==
  /\ \A c \in DoneCalls :
       /\ at[c] \in {"update", "record"} /\ job[c] \in Once => assigned[job[c]] = target[c][2]
       /\ at[c] = "record" /\ job[c] \in Once => task[job[c]] = "completed"
  /\ \A e \in ledger : e.task \in Once => task[e.task] = "completed" /\ assigned[e.task] = e.agent

LedgerInv == IndInv /\ Traced /\ Checked

LEMMA InitLedger == Init => Traced /\ Checked
BY AuctionAssumption DEF Init, Traced, Checked, Awarded, Calls, Bids

\* A call keeps its task and bid, so an award that happened has happened.
LEMMA AwardsStay ==
  ASSUME IndInv, Traced, Next
  PROVE  /\ Accepting \subseteq Accepting' /\ Assigning \subseteq Assigning'
         /\ Once' \subseteq Once
<1> DEFINE Moves(c) == /\ job'[c] = job[c] \/ at[c] = "start"
                       /\ target'[c] = target[c] \/ at[c] = "start"
                       /\ at[c] \in HasAccepted => at'[c] \in HasAccepted
                       /\ at[c] \in HasAssigned => at'[c] \in HasAssigned
<1>0. ASSUME NEW w \in AwardCalls PROVE Moves(w)
  <2> USE AuctionAssumption DEF IndInv, TypeOK, tables, Goto, Calls, HasAccepted, HasAssigned
  <2>1. ASSUME NEW t \in Tasks, NEW p \in Agents, NEW d \in {"never", "future"}, PostTask(t, p, d) PROVE Moves(w)
    BY <2>1 DEF PostTask, Traced
  <2>2. ASSUME NEW t \in Tasks, DeadlinePasses(t) PROVE Moves(w)
    BY <2>2 DEF DeadlinePasses, Traced
  <2>3. ASSUME NEW batch \in SUBSET Tasks, ExpireTasks(batch) PROVE Moves(w)
    BY <2>3 DEF ExpireTasks, Traced
  <2>4. ASSUME NEW c \in BidCalls, NEW t \in Tasks, NEW a \in Agents, BidCheck(c, t, a) PROVE Moves(w)
    BY <2>4 DEF BidCheck, Traced
  <2>5. ASSUME NEW c \in BidCalls, CreateBid(c) PROVE Moves(w)
    BY <2>5 DEF CreateBid, Traced
  <2>6. ASSUME NEW c \in AwardCalls, NEW t \in Tasks, NEW b \in Bids, AcceptCheck(c, t, b) PROVE Moves(w)
    BY <2>6 DEF AcceptCheck, Traced
  <2>7. ASSUME NEW c \in AwardCalls, GetBid(c) PROVE Moves(w)
    BY <2>7 DEF GetBid, Traced
  <2>8. ASSUME NEW c \in AwardCalls, AssignTask(c) PROVE Moves(w)
    BY <2>8 DEF AssignTask, Traced
  <2>9. ASSUME NEW c \in AwardCalls, AcceptWinner(c) PROVE Moves(w)
    BY <2>9 DEF AcceptWinner, Traced
  <2>10. ASSUME NEW c \in AwardCalls, GetBids(c) PROVE Moves(w)
    BY <2>10 DEF GetBids, Traced
  <2>11. ASSUME NEW c \in AwardCalls, NEW b \in Bids, RejectLoser(c, b) PROVE Moves(w)
    BY <2>11 DEF RejectLoser, Traced
  <2>12. ASSUME NEW c \in AwardCalls, EndAward(c) PROVE Moves(w)
    BY <2>12 DEF EndAward, Traced
  <2>13. ASSUME NEW c \in DoneCalls, NEW t \in Tasks, NEW a \in Agents, NEW e \in Agents \cup {None},
                DoneRead(c, t, a, e) PROVE Moves(w)
    BY <2>13 DEF DoneRead, Traced
  <2>14. ASSUME NEW c \in DoneCalls, DoneCheck(c) PROVE Moves(w)
    BY <2>14 DEF DoneCheck, Traced
  <2>15. ASSUME NEW c \in DoneCalls, CompleteTask(c) PROVE Moves(w)
    BY <2>15 DEF CompleteTask, Traced
  <2>16. ASSUME NEW c \in DoneCalls, NEW d \in Domains, RecordEntry(c, d) PROVE Moves(w)
    BY <2>16 DEF RecordEntry, Traced
  <2>17. ASSUME NEW c \in DoneCalls, EndDone(c) PROVE Moves(w)
    BY <2>17 DEF EndDone, Traced
  <2>18. ASSUME Restart PROVE Moves(w)
    BY <2>18 DEF Restart, Traced
  <2> QED
    BY <2>1, <2>2, <2>3, <2>4, <2>5, <2>6, <2>7, <2>8, <2>9,
       <2>10, <2>11, <2>12, <2>13, <2>14, <2>15, <2>16, <2>17, <2>18 DEF Next, BidStep, AwardStep, DoneStep
<1>1. \A c \in AwardCalls : job[c] \in Tasks => job'[c] = job[c]
  BY <1>0, AuctionAssumption DEF Traced
<1>2. Once' \subseteq Once
  BY <1>1 DEF Once, AwardedOnce
<1>3. Accepting \subseteq Accepting'
  BY <1>0 DEF Accepting, HasAccepted
<1>4. Assigning \subseteq Assigning'
  BY <1>0 DEF Assigning, HasAssigned
<1> QED
  BY <1>2, <1>3, <1>4

\* Everything in the bids, tasks and ledger stays traced to an award call.
LEMMA StepTraced == IndInv /\ Traced /\ Next => Traced'
<1> SUFFICES ASSUME IndInv, Traced, Next PROVE Traced'
  OBVIOUS
<1>0. Accepting \subseteq Accepting' /\ Assigning \subseteq Assigning'
  BY AwardsStay
<1> USE AuctionAssumption DEF IndInv, TypeOK, tables, Goto, Calls
<1>1. ASSUME NEW t \in Tasks, NEW p \in Agents, NEW d \in {"never", "future"}, PostTask(t, p, d) PROVE Traced'
  BY <1>1, <1>0 DEF PostTask, Traced, Awarded, CallsMatch, Bids
<1>2. ASSUME NEW t \in Tasks, DeadlinePasses(t) PROVE Traced'
  BY <1>2, <1>0 DEF DeadlinePasses, Traced, Awarded, CallsMatch, Bids
<1>3. ASSUME NEW batch \in SUBSET Tasks, ExpireTasks(batch) PROVE Traced'
  BY <1>3, <1>0 DEF ExpireTasks, Traced, Awarded, CallsMatch, Bids, Overdue
<1>4. ASSUME NEW c \in BidCalls, NEW t \in Tasks, NEW a \in Agents, BidCheck(c, t, a) PROVE Traced'
  BY <1>4, <1>0 DEF BidCheck, Traced, Awarded, CallsMatch, Bids
<1>5. ASSUME NEW c \in BidCalls, CreateBid(c) PROVE Traced'
  BY <1>5, <1>0 DEF CreateBid, Traced, Awarded, CallsMatch, Bids
<1>6. ASSUME NEW c \in AwardCalls, NEW t \in Tasks, NEW b \in Bids, AcceptCheck(c, t, b) PROVE Traced'
  BY <1>6, <1>0 DEF AcceptCheck, Traced, Awarded, CallsMatch, Bids
<1>7. ASSUME NEW c \in AwardCalls, GetBid(c) PROVE Traced'
  BY <1>7, <1>0 DEF GetBid, Traced, Awarded, CallsMatch, Bids
<1>8. ASSUME NEW c \in AwardCalls, AssignTask(c) PROVE Traced'
  <2>1. target[c] \in Bids /\ job[c] \in Tasks /\ target[c][1] = job[c]
    BY <1>8 DEF AssignTask, CallsMatch
  <2>2. target[c] = <<job[c], target[c][2]>>
    BY <2>1 DEF Bids
  <2>3. target[c] \in Assigning'
    BY <1>8, <2>1 DEF AssignTask, Assigning, HasAssigned
  <2> QED
    BY <1>8, <1>0, <2>1, <2>2, <2>3, SMTT(30) DEF AssignTask, Traced, Awarded
<1>9. ASSUME NEW c \in AwardCalls, AcceptWinner(c) PROVE Traced'
  <2>1. target[c] \in Bids /\ job[c] \in Tasks /\ target[c][1] = job[c]
    BY <1>9 DEF AcceptWinner, CallsMatch
  <2>2. target[c] = <<job[c], target[c][2]>>
    BY <2>1 DEF Bids
  <2>3. target[c] \in Accepting'
    BY <1>9, <2>1 DEF AcceptWinner, Accepting, HasAccepted
  <2>4. \A t \in Tasks, a \in Agents : <<t, a>> # target[c] => bid'[<<t, a>>] = bid[<<t, a>>]
    BY <1>9 DEF AcceptWinner, UpdateBidStatus, Bids
  <2> QED
    BY <1>9, <1>0, <2>1, <2>2, <2>3, <2>4 DEF AcceptWinner, Traced, Awarded
<1>10. ASSUME NEW c \in AwardCalls, GetBids(c) PROVE Traced'
  BY <1>10, <1>0 DEF GetBids, Traced, Awarded, CallsMatch, Bids
<1>11. ASSUME NEW c \in AwardCalls, NEW b \in Bids, RejectLoser(c, b) PROVE Traced'
  BY <1>11, <1>0 DEF RejectLoser, Traced, Awarded, CallsMatch, Bids, UpdateBidStatus
<1>12. ASSUME NEW c \in AwardCalls, EndAward(c) PROVE Traced'
  BY <1>12, <1>0 DEF EndAward, Traced, Awarded, CallsMatch, Bids
<1>13. ASSUME NEW c \in DoneCalls, NEW t \in Tasks, NEW a \in Agents, NEW e \in Agents \cup {None},
              DoneRead(c, t, a, e) PROVE Traced'
  BY <1>13, <1>0 DEF DoneRead, Traced, Awarded, CallsMatch, Bids
<1>14. ASSUME NEW c \in DoneCalls, DoneCheck(c) PROVE Traced'
  BY <1>14, <1>0 DEF DoneCheck, Traced, Awarded, CallsMatch, Bids
<1>15. ASSUME NEW c \in DoneCalls, CompleteTask(c) PROVE Traced'
  BY <1>15, <1>0 DEF CompleteTask, Traced, Awarded, CallsMatch, Bids
<1>16. ASSUME NEW c \in DoneCalls, NEW d \in Domains, RecordEntry(c, d) PROVE Traced'
  BY <1>16, <1>0 DEF RecordEntry, Traced, Awarded, CallsMatch, Bids
<1>17. ASSUME NEW c \in DoneCalls, EndDone(c) PROVE Traced'
  BY <1>17, <1>0 DEF EndDone, Traced, Awarded, CallsMatch, Bids
<1>18. ASSUME Restart PROVE Traced'
  BY <1>18, <1>0 DEF Restart, Traced, Awarded, CallsMatch, Bids
<1> QED
  BY <1>1, <1>2, <1>3, <1>4, <1>5, <1>6, <1>7, <1>8, <1>9,
     <1>10, <1>11, <1>12, <1>13, <1>14, <1>15, <1>16, <1>17, <1>18 DEF Next, BidStep, AwardStep, DoneStep

\* A task with one award call is not awarded while that call is about to assign it.
LEMMA NotYetAwarded ==
  ASSUME IndInv, Traced, NEW c \in AwardCalls, at[c] = "assign", job[c] \in Once
  PROVE  ~Awarded(job[c])
BY ZenonT(40) DEF Traced, Assigning, HasAssigned, Once, AwardedOnce, IndInv, CallsMatch

\* With one award call, what the completing calls have checked stays true.
LEMMA StepChecked == LedgerInv /\ Next => Checked'
<1> SUFFICES ASSUME LedgerInv, Next PROVE Checked'
  OBVIOUS
<1>0. Once' \subseteq Once
  BY AwardsStay DEF LedgerInv
<1> USE AuctionAssumption DEF LedgerInv, IndInv, TypeOK, tables, Goto, Calls
<1>1. ASSUME NEW t \in Tasks, NEW p \in Agents, NEW d \in {"never", "future"}, PostTask(t, p, d) PROVE Checked'
  BY <1>1, <1>0 DEF PostTask, Checked, CallsMatch, Awarded
<1>2. ASSUME NEW t \in Tasks, DeadlinePasses(t) PROVE Checked'
  BY <1>2, <1>0 DEF DeadlinePasses, Checked, CallsMatch, Awarded
<1>3. ASSUME NEW batch \in SUBSET Tasks, ExpireTasks(batch) PROVE Checked'
  BY <1>3, <1>0 DEF ExpireTasks, Checked, CallsMatch, Awarded, Overdue
<1>4. ASSUME NEW c \in BidCalls, NEW t \in Tasks, NEW a \in Agents, BidCheck(c, t, a) PROVE Checked'
  BY <1>4, <1>0 DEF BidCheck, Checked, CallsMatch, Awarded
<1>5. ASSUME NEW c \in BidCalls, CreateBid(c) PROVE Checked'
  BY <1>5, <1>0 DEF CreateBid, Checked, CallsMatch, Awarded
<1>6. ASSUME NEW c \in AwardCalls, NEW t \in Tasks, NEW b \in Bids, AcceptCheck(c, t, b) PROVE Checked'
  BY <1>6, <1>0 DEF AcceptCheck, Checked, CallsMatch, Awarded
<1>7. ASSUME NEW c \in AwardCalls, GetBid(c) PROVE Checked'
  BY <1>7, <1>0 DEF GetBid, Checked, CallsMatch, Awarded
<1>8. ASSUME NEW c \in AwardCalls, AssignTask(c) PROVE Checked'
  <2>1. \A t \in Tasks : t \in Once' /\ Awarded(t) => task'[t] = task[t] /\ assigned'[t] = assigned[t]
    BY <1>8, <1>0, NotYetAwarded DEF AssignTask
  <2>2. \A e \in ledger : e.task \in Tasks
    OBVIOUS
  <2> QED
    BY <1>8, <1>0, <2>1, <2>2 DEF AssignTask, Checked, CallsMatch, Awarded
<1>9. ASSUME NEW c \in AwardCalls, AcceptWinner(c) PROVE Checked'
  BY <1>9, <1>0 DEF AcceptWinner, Checked, CallsMatch, Awarded, UpdateBidStatus
<1>10. ASSUME NEW c \in AwardCalls, GetBids(c) PROVE Checked'
  BY <1>10, <1>0 DEF GetBids, Checked, CallsMatch, Awarded
<1>11. ASSUME NEW c \in AwardCalls, NEW b \in Bids, RejectLoser(c, b) PROVE Checked'
  BY <1>11, <1>0 DEF RejectLoser, Checked, CallsMatch, Awarded, UpdateBidStatus
<1>12. ASSUME NEW c \in AwardCalls, EndAward(c) PROVE Checked'
  BY <1>12, <1>0 DEF EndAward, Checked, CallsMatch, Awarded
<1>13. ASSUME NEW c \in DoneCalls, NEW t \in Tasks, NEW a \in Agents, NEW e \in Agents \cup {None},
              DoneRead(c, t, a, e) PROVE Checked'
  BY <1>13, <1>0 DEF DoneRead, Checked, CallsMatch, Awarded
<1>14. ASSUME NEW c \in DoneCalls, DoneCheck(c) PROVE Checked'
  BY <1>14, <1>0 DEF DoneCheck, Checked, CallsMatch, Awarded
<1>15. ASSUME NEW c \in DoneCalls, CompleteTask(c) PROVE Checked'
  BY <1>15, <1>0 DEF CompleteTask, Checked, CallsMatch, Awarded
<1>16. ASSUME NEW c \in DoneCalls, NEW d \in Domains, RecordEntry(c, d) PROVE Checked'
  BY <1>16, <1>0 DEF RecordEntry, Checked, CallsMatch, Awarded
<1>17. ASSUME NEW c \in DoneCalls, EndDone(c) PROVE Checked'
  BY <1>17, <1>0 DEF EndDone, Checked, CallsMatch, Awarded
<1>18. ASSUME Restart PROVE Checked'
  BY <1>18, <1>0 DEF Restart, Checked, CallsMatch, Awarded
<1> QED
  BY <1>1, <1>2, <1>3, <1>4, <1>5, <1>6, <1>7, <1>8, <1>9,
     <1>10, <1>11, <1>12, <1>13, <1>14, <1>15, <1>16, <1>17, <1>18 DEF Next, BidStep, AwardStep, DoneStep

\* Whoever calls mark_task_done, however often, and whatever it has read before:
\* with one award, the ledger credits the assignee of a completed task with an
\* estimate of its own.
THEOREM LedgerEarned == Spec => []ReputationEarned
<1>1. Init => LedgerInv
  BY InitInv, InitLedger DEF LedgerInv
<1>2. LedgerInv /\ [Next]_vars => LedgerInv'
  <2> SUFFICES ASSUME LedgerInv, [Next]_vars PROVE LedgerInv'
    OBVIOUS
  <2>1. CASE Next
    BY <2>1, StepType, StepMatch, StepTraced, StepChecked DEF LedgerInv, IndInv
  <2>2. CASE UNCHANGED vars
    BY <2>2 DEF vars, tables, LedgerInv, IndInv, TypeOK, CallsMatch, BidsForeign, HasAssignee,
                AssigneeHasBid, Awarded, Traced, Checked, Accepting, Assigning, Once, AwardedOnce
  <2> QED
    BY <2>1, <2>2
<1>3. LedgerInv => ReputationEarned
  <2> SUFFICES ASSUME LedgerInv, NEW e \in ledger, AwardedOnce(e.task)
               PROVE  task[e.task] = "completed" /\ assigned[e.task] = e.agent /\ e.est \in {e.agent, None}
    BY DEF ReputationEarned
  <2>1. e.task \in Tasks /\ e.task \in Once /\ e.est \in Agents \cup {None}
    BY DEF LedgerInv, IndInv, TypeOK, Once
  <2>2. task[e.task] = "completed" /\ assigned[e.task] = e.agent
    BY <2>1 DEF LedgerInv, Checked
  <2>3. ASSUME e.est # None PROVE e.est = e.agent
    <3>1. <<e.task, e.est>> \in Accepting /\ <<e.task, e.agent>> \in Assigning
      BY <2>1, <2>2, <2>3 DEF LedgerInv, Traced, Awarded
    <3>2. PICK c \in AwardCalls : job[c] = e.task /\ target[c] = <<e.task, e.est>>
      BY <3>1 DEF Accepting
    <3>3. PICK d \in AwardCalls : job[d] = e.task /\ target[d] = <<e.task, e.agent>>
      BY <3>1 DEF Assigning
    <3> QED
      BY <3>2, <3>3 DEF AwardedOnce
  <2> QED
    BY <2>2, <2>3
<1> QED
  BY <1>1, <1>2, <1>3, PTL DEF Spec

-----------------------------------------------------------------------------
(* The bids of a task agree with the task. *)

\* An award rejects other bids of its own task only, and the bid it has
\* accepted stays accepted as long as it is the only award of the task.
Marked ==
  \A w \in AwardCalls :
    /\ at[w] = "reject" => \A b \in rest[w] : b[1] = job[w] /\ b # target[w]
    /\ (/\ restarts = 0 /\ job[w] \in Once
        /\ at[w] \in {"list", "reject"} \/ (at[w] = "end" /\ Awarded(job[w])))
       => target[w][1] = job[w] /\ bid[target[w]] = "accepted"

\* A task whose only award call has not assigned it is not awarded.
LEMMA OnlyItsCallAwards ==
  ASSUME IndInv, Traced, NEW w \in AwardCalls, job[w] \in Once, at[w] \notin HasAssigned
  PROVE  ~Awarded(job[w])
<1> SUFFICES ASSUME Awarded(job[w]) PROVE FALSE
  OBVIOUS
<1>1. <<job[w], assigned[job[w]]>> \in Assigning
  BY DEF Traced, Once
<1>2. PICK c \in AwardCalls : job[c] = job[w] /\ at[c] \in HasAssigned
  BY <1>1 DEF Assigning
<1> QED
  BY <1>2 DEF Once, AwardedOnce

\* With one award call, what it has marked stays marked.
LEMMA StepMarked == IndInv /\ Traced /\ Marked /\ Next => Marked'
<1> SUFFICES ASSUME IndInv, Traced, Marked, Next PROVE Marked'
  OBVIOUS
<1>0. Once' \subseteq Once
  BY AwardsStay
<1> USE AuctionAssumption DEF IndInv, TypeOK, tables, Goto, Calls
<1>1. ASSUME NEW t \in Tasks, NEW p \in Agents, NEW d \in {"never", "future"}, PostTask(t, p, d) PROVE Marked'
  BY <1>1, <1>0 DEF PostTask, Marked, CallsMatch, Awarded
<1>2. ASSUME NEW t \in Tasks, DeadlinePasses(t) PROVE Marked'
  BY <1>2, <1>0 DEF DeadlinePasses, Marked, CallsMatch, Awarded
<1>3. ASSUME NEW batch \in SUBSET Tasks, ExpireTasks(batch) PROVE Marked'
  BY <1>3, <1>0 DEF ExpireTasks, Overdue, Marked, CallsMatch, Awarded
<1>4. ASSUME NEW c \in BidCalls, NEW t \in Tasks, NEW a \in Agents, BidCheck(c, t, a) PROVE Marked'
  BY <1>4, <1>0 DEF BidCheck, Marked, CallsMatch, Awarded
<1>5. ASSUME NEW c \in BidCalls, CreateBid(c) PROVE Marked'
  BY <1>5, <1>0 DEF CreateBid, Marked, CallsMatch, Awarded
<1>6. ASSUME NEW c \in AwardCalls, NEW t \in Tasks, NEW b \in Bids, AcceptCheck(c, t, b) PROVE Marked'
  BY <1>6, <1>0 DEF AcceptCheck, Marked, CallsMatch, Awarded
<1>7. ASSUME NEW c \in AwardCalls, GetBid(c) PROVE Marked'
  <2>1. job[c] \in Once => ~Awarded(job[c])
    BY <1>7, OnlyItsCallAwards DEF GetBid, HasAssigned
  <2> QED
    BY <1>7, <1>0, <2>1 DEF GetBid, Marked, CallsMatch, Awarded
<1>8. ASSUME NEW c \in AwardCalls, AssignTask(c) PROVE Marked'
  <2>1. ASSUME NEW w \in AwardCalls, w # c, job[w] \in Once PROVE job[w] # job[c]
    BY <2>1 DEF Once, AwardedOnce
  <2> QED
    BY <1>8, <1>0, <2>1 DEF AssignTask, Marked, CallsMatch, Awarded
<1>9. ASSUME NEW c \in AwardCalls, AcceptWinner(c) PROVE Marked'
  BY <1>9, <1>0 DEF AcceptWinner, UpdateBidStatus, Marked, CallsMatch, Awarded
<1>10. ASSUME NEW c \in AwardCalls, GetBids(c) PROVE Marked'
  BY <1>10, <1>0 DEF GetBids, Marked, CallsMatch, Awarded
<1>11. ASSUME NEW c \in AwardCalls, NEW b \in Bids, RejectLoser(c, b) PROVE Marked'
  <2>1. b[1] = job[c] /\ b # target[c]
    BY <1>11 DEF RejectLoser, Marked
  <2>2. ASSUME NEW w \in AwardCalls, job[w] \in Once, target[w][1] = job[w] PROVE b # target[w]
    BY <2>1, <2>2 DEF Once, AwardedOnce
  <2>3. ASSUME NEW w \in AwardCalls, bid[target[w]] = "accepted", target[w] \in Bids, b # target[w]
        PROVE  bid'[target[w]] = "accepted"
    BY <1>11, <2>3 DEF RejectLoser, UpdateBidStatus
  <2> QED
    BY <1>11, <1>0, <2>2, <2>3 DEF RejectLoser, Marked, CallsMatch, Awarded
<1>12. ASSUME NEW c \in AwardCalls, EndAward(c) PROVE Marked'
  BY <1>12, <1>0 DEF EndAward, Marked, CallsMatch, Awarded
<1>13. ASSUME NEW c \in DoneCalls, NEW t \in Tasks, NEW a \in Agents, NEW e \in Agents \cup {None},
              DoneRead(c, t, a, e) PROVE Marked'
  BY <1>13, <1>0 DEF DoneRead, Marked, CallsMatch, Awarded
<1>14. ASSUME NEW c \in DoneCalls, DoneCheck(c) PROVE Marked'
  BY <1>14, <1>0 DEF DoneCheck, Marked, CallsMatch, Awarded
<1>15. ASSUME NEW c \in DoneCalls, CompleteTask(c) PROVE Marked'
  BY <1>15, <1>0 DEF CompleteTask, Marked, CallsMatch, Awarded
<1>16. ASSUME NEW c \in DoneCalls, NEW d \in Domains, RecordEntry(c, d) PROVE Marked'
  BY <1>16, <1>0 DEF RecordEntry, Marked, CallsMatch, Awarded
<1>17. ASSUME NEW c \in DoneCalls, EndDone(c) PROVE Marked'
  BY <1>17, <1>0 DEF EndDone, Marked, CallsMatch, Awarded
<1>18. ASSUME Restart PROVE Marked'
  BY <1>18, <1>0 DEF Restart, Marked, CallsMatch, Awarded
<1> QED
  BY <1>1, <1>2, <1>3, <1>4, <1>5, <1>6, <1>7, <1>8, <1>9,
     <1>10, <1>11, <1>12, <1>13, <1>14, <1>15, <1>16, <1>17, <1>18 DEF Next, BidStep, AwardStep, DoneStep

\* One award at a time: when the award of a task is through, exactly the bid of
\* the agent the task is assigned to is accepted, whatever late bids,
\* completions and expiries arrived between its statements.
THEOREM BidsAgreeWithTask == Spec => []AwardConsistent
<1> DEFINE Inv == IndInv /\ Traced /\ Marked
<1>1. Init => Inv
  BY InitInv, InitLedger DEF Init, Marked, Awarded, Calls
<1>2. Inv /\ [Next]_vars => Inv'
  <2> SUFFICES ASSUME Inv, [Next]_vars PROVE Inv'
    OBVIOUS
  <2>1. CASE Next
    BY <2>1, StepType, StepMatch, StepTraced, StepMarked DEF IndInv
  <2>2. CASE UNCHANGED vars
    BY <2>2 DEF vars, tables, IndInv, TypeOK, CallsMatch, BidsForeign, HasAssignee, AssigneeHasBid,
                Awarded, Traced, Marked, Accepting, Assigning, Once, AwardedOnce
  <2> QED
    BY <2>1, <2>2
<1>3. Inv => AwardConsistent
  <2> SUFFICES ASSUME Inv, NEW t \in Tasks, restarts = 0, Awarded(t), AwardedOnce(t),
                      \A c \in AwardCalls : job[c] = t => ~InProgress(c)
               PROVE  {a \in Agents : bid[<<t, a>>] = "accepted"} = {assigned[t]}
    BY DEF AwardConsistent
  <2>1. assigned[t] \in Agents /\ t \in Once
    BY DEF IndInv, HasAssignee, Once
  <2>2. PICK c \in AwardCalls : job[c] = t /\ target[c] = <<t, assigned[t]>> /\ at[c] \in HasAssigned
    <3>1. <<t, assigned[t]>> \in Assigning
      BY DEF Traced
    <3> QED
      BY <3>1 DEF Assigning
  <2>3. bid[<<t, assigned[t]>>] = "accepted"
    BY <2>1, <2>2 DEF Marked, InProgress, HasAssigned
  <2>4. ASSUME NEW a \in Agents, bid[<<t, a>>] = "accepted" PROVE a = assigned[t]
    <3>1. <<t, a>> \in Accepting
      BY <2>4 DEF Traced
    <3>2. PICK d \in AwardCalls : job[d] = t /\ target[d] = <<t, a>>
      BY <3>1 DEF Accepting
    <3> QED
      BY <2>2, <3>2 DEF AwardedOnce
  <2> QED
    BY <2>1, <2>3, <2>4
<1> QED
  BY <1>1, <1>2, <1>3, PTL DEF Spec

-----------------------------------------------------------------------------
(* Tables that are sequences.                                              *)

\* Rows appended to a table that is a sequence.
LEMMA AppendRow ==
  ASSUME NEW S, NEW s \in Seq(S), NEW e \in S
  PROVE  /\ Append(s, e) \in Seq(S) /\ Len(Append(s, e)) = Len(s) + 1
         /\ \A j \in 1..Len(s) : j \in 1..Len(Append(s, e)) /\ Append(s, e)[j] = s[j]
         /\ Append(s, e)[Len(s) + 1] = e
OBVIOUS

-----------------------------------------------------------------------------
(* Secrets.                                                                *)

MasterKeys == Processes \union {NoMasterKey}

StoreProcess == [pc : {"closed", "write", "open", "revoke"}, key : MasterKeys, row : Nat]

SecretRow == [name : SecretNames, scope : Scopes, key : MasterKeys, revoked : BOOLEAN]

SecretsRows ==
  /\ keyFile \in MasterKeys
  /\ procs \in [Processes -> StoreProcess]
  /\ secretRows \in Seq(SecretRow)
  /\ split \in BOOLEAN

\* A process that holds the store open.
Opened(p) == procs[p].pc \in {"open", "revoke"}

\* A store that is open, and a row in it, have a key; until there is a key file
\* there is neither; and unless two keys were generated, there is one key.
KeysSound ==
  /\ \A p \in Processes : Opened(p) => procs[p].key # NoMasterKey /\ keyFile # NoMasterKey
  /\ \A i \in 1..Len(secretRows) : secretRows[i].key # NoMasterKey /\ keyFile # NoMasterKey
  /\ ~split => /\ \A p \in Processes : Opened(p) => procs[p].key = keyFile
               /\ \A i \in 1..Len(secretRows) : secretRows[i].key = keyFile

\* A revocation is about a row that exists.
RevocationsSound == \A p \in Processes : procs[p].pc = "revoke" => procs[p].row \in 1..Len(secretRows)

SecretsInv == SecretsRows /\ KeysSound /\ RevocationsSound /\ OneLive

\* What no statement does: rows go away, or what was revoked comes back.
RowsStay ==
  /\ Len(secretRows) <= Len(secretRows')
  /\ \A i \in 1..Len(secretRows) : /\ secretRows[i].revoked => secretRows'[i].revoked
                                   /\ secretRows'[i].name = secretRows[i].name
                                   /\ secretRows'[i].scope = secretRows[i].scope
                                   /\ secretRows'[i].key = secretRows[i].key

LEMMA SecretsInitInv == SecretsInit => SecretsInv
<1> SUFFICES ASSUME SecretsInit PROVE SecretsInv
  OBVIOUS
<1>1. Closed \in StoreProcess /\ Closed.pc = "closed"
  BY DEF Closed, StoreProcess, MasterKeys
<1>2. 1..Len(secretRows) = {} /\ secretRows \in Seq(SecretRow)
  BY DEF SecretsInit
<1>3. \A p \in Processes : procs[p] = Closed
  BY DEF SecretsInit
<1>4. SecretsRows
  BY <1>1, <1>2 DEF SecretsInit, SecretsRows, MasterKeys
<1> QED
  BY <1>1, <1>2, <1>3, <1>4 DEF SecretsInv, KeysSound, RevocationsSound, OneLive, Opened

LEMMA ProcessMoves ==
  ASSUME SecretsRows, NEW p \in Processes, NEW rec \in StoreProcess, procs' = [procs EXCEPT ![p] = rec]
  PROVE  /\ procs' \in [Processes -> StoreProcess] /\ procs'[p] = rec
         /\ \A o \in Processes : o # p => procs'[o] = procs[o]
BY DEF SecretsRows

\* Only the processes and the key file change.
LEMMA StoreOpensOrCloses ==
  ASSUME SecretsInv, NEW p \in Processes,
         loadOrCreateMasterKey(p) \/ WriteMasterKey(p) \/ CloseStore(p)
  PROVE  SecretsInv' /\ RowsStay
<1>r. SecretsRows /\ KeysSound /\ RevocationsSound /\ OneLive /\ p # NoMasterKey /\ p \in MasterKeys
  BY SecretsAssumption DEF SecretsInv, MasterKeys
<1>0. procs[p] \in StoreProcess /\ NoMasterKey \in MasterKeys /\ keyFile \in MasterKeys
  BY <1>r DEF SecretsRows, MasterKeys
<1>s. UNCHANGED secretRows
  BY DEF loadOrCreateMasterKey, WriteMasterKey, CloseStore
<1>t. OneLive' /\ RowsStay
  <2>1. Len(secretRows) \in Nat
    BY <1>r, LenProperties DEF SecretsRows
  <2> QED BY <1>r, <1>s, <2>1 DEF OneLive, LiveRow, RowsStay
<1>1. CASE loadOrCreateMasterKey(p)
  <2> DEFINE rec == IF keyFile # NoMasterKey
                    THEN [pc |-> "open", key |-> keyFile, row |-> 0]
                    ELSE [pc |-> "write", key |-> NoMasterKey, row |-> 0]
  <2>1. /\ rec \in StoreProcess /\ rec.pc \in {"open", "write"}
        /\ rec.pc = "open" => keyFile # NoMasterKey /\ rec.key = keyFile
    BY <1>0 DEF StoreProcess
  <2>2. procs' = [procs EXCEPT ![p] = rec] /\ UNCHANGED <<keyFile, secretRows, split>>
    BY <1>1 DEF loadOrCreateMasterKey
  <2> HIDE DEF rec
  <2>3. /\ procs' \in [Processes -> StoreProcess] /\ procs'[p] = rec
        /\ \A o \in Processes : o # p => procs'[o] = procs[o]
    BY <1>r, <2>1, <2>2, ProcessMoves
  <2>4. SecretsRows'
    BY <1>r, <2>2, <2>3 DEF SecretsRows
  <2>5. KeysSound'
    BY <1>r, <2>1, <2>2, <2>3 DEF KeysSound, Opened
  <2>6. RevocationsSound'
    BY <1>r, <2>1, <2>2, <2>3 DEF RevocationsSound
  <2> QED BY <1>t, <2>4, <2>5, <2>6 DEF SecretsInv
<1>2. CASE WriteMasterKey(p)
  <2> DEFINE rec == [pc |-> "open", key |-> p, row |-> 0]
  <2>1. rec \in StoreProcess /\ rec.pc = "open" /\ rec.key = p
    BY <1>r DEF StoreProcess
  <2>2. /\ procs' = [procs EXCEPT ![p] = rec] /\ keyFile' = p /\ split' = (split \/ keyFile # NoMasterKey)
        /\ UNCHANGED secretRows
    BY <1>2 DEF WriteMasterKey
  <2> HIDE DEF rec
  <2>3. /\ procs' \in [Processes -> StoreProcess] /\ procs'[p] = rec
        /\ \A o \in Processes : o # p => procs'[o] = procs[o]
    BY <1>r, <2>1, <2>2, ProcessMoves
  <2>4. SecretsRows'
    BY <1>r, <2>2, <2>3 DEF SecretsRows
  <2>5. KeysSound'
    BY <1>r, <2>1, <2>2, <2>3 DEF KeysSound, Opened
  <2>6. RevocationsSound'
    BY <1>r, <2>1, <2>2, <2>3 DEF RevocationsSound
  <2> QED BY <1>t, <2>4, <2>5, <2>6 DEF SecretsInv
<1>3. CASE CloseStore(p)
  <2>1. Closed \in StoreProcess /\ Closed.pc = "closed"
    BY <1>0 DEF Closed, StoreProcess
  <2>2. procs' = [procs EXCEPT ![p] = Closed] /\ UNCHANGED <<keyFile, secretRows, split>>
    BY <1>3 DEF CloseStore
  <2>3. /\ procs' \in [Processes -> StoreProcess] /\ procs'[p] = Closed
        /\ \A o \in Processes : o # p => procs'[o] = procs[o]
    BY <1>r, <2>1, <2>2, ProcessMoves
  <2>4. SecretsRows'
    BY <1>r, <2>2, <2>3 DEF SecretsRows
  <2>5. KeysSound'
    BY <1>r, <2>1, <2>2, <2>3 DEF KeysSound, Opened
  <2>6. RevocationsSound'
    BY <1>r, <2>1, <2>2, <2>3 DEF RevocationsSound
  <2> QED BY <1>t, <2>4, <2>5, <2>6 DEF SecretsInv
<1> QED
  BY <1>1, <1>2, <1>3

LEMMA SecretIsSet ==
  ASSUME SecretsInv, NEW p \in Processes, NEW name \in SecretNames, NEW scope \in Scopes,
         SetSecret(p, name, scope)
  PROVE  SecretsInv' /\ RowsStay
<1>r. SecretsRows /\ KeysSound /\ RevocationsSound /\ OneLive /\ procs[p] \in StoreProcess
  BY DEF SecretsInv, SecretsRows
<1>z. PICK size \in Nat : size = Len(secretRows)
  BY <1>r, LenProperties DEF SecretsRows
<1>k. PICK key \in MasterKeys : key = procs[p].key
  BY <1>r DEF StoreProcess
<1> DEFINE old == [i \in 1..Len(secretRows) |->
              IF secretRows[i].name = name /\ secretRows[i].scope = scope
              THEN [secretRows[i] EXCEPT !.revoked = TRUE] ELSE secretRows[i]]
           row == [name |-> name, scope |-> scope, key |-> key, revoked |-> FALSE]
<1>1. row \in SecretRow /\ row.name = name /\ row.scope = scope /\ row.key = key /\ ~row.revoked
  BY DEF SecretRow
<1>2. \A i \in 1..size : /\ secretRows[i] \in SecretRow
                         /\ old[i] \in SecretRow /\ old[i].name = secretRows[i].name
                         /\ old[i].scope = secretRows[i].scope /\ old[i].key = secretRows[i].key
                         /\ secretRows[i].revoked => old[i].revoked
                         /\ secretRows[i].name = name /\ secretRows[i].scope = scope => old[i].revoked
  <2>1. \A i \in 1..size : secretRows[i] \in SecretRow
    BY <1>r, <1>z, ElementOfSeq DEF SecretsRows
  <2> QED BY <2>1, <1>z DEF SecretRow
<1>3. old \in Seq(SecretRow) /\ Len(old) = size
  BY <1>2, <1>z
<1>4. /\ secretRows' = Append(old, row) /\ procs[p].pc = "open"
      /\ UNCHANGED <<keyFile, procs, split>>
  BY <1>k DEF SetSecret, encrypt
<1> HIDE DEF old, row
<1>5. /\ secretRows' \in Seq(SecretRow) /\ Len(secretRows') = size + 1 /\ secretRows'[size + 1] = row
      /\ \A i \in 1..size : secretRows'[i] = old[i]
  BY <1>1, <1>3, <1>4, AppendRow
<1>6. SecretsRows'
  BY <1>r, <1>4, <1>5 DEF SecretsRows
<1>7. KeysSound'
  <2>1. Opened(p)
    BY <1>4 DEF Opened
  <2>2. \A i \in 1..(size + 1) : /\ secretRows'[i].key # NoMasterKey /\ keyFile # NoMasterKey
                                 /\ ~split => secretRows'[i].key = keyFile
    BY <1>r, <1>z, <1>1, <1>2, <1>5, <1>k, <2>1 DEF KeysSound
  <2> QED BY <1>r, <2>2, <1>4, <1>5 DEF KeysSound, Opened
<1>8. RevocationsSound'
  BY <1>r, <1>z, <1>4, <1>5 DEF RevocationsSound
<1>9. OneLive'
  <2> SUFFICES ASSUME NEW i \in 1..(size + 1), NEW j \in 1..(size + 1),
                      ~secretRows'[i].revoked, ~secretRows'[j].revoked,
                      secretRows'[i].name = secretRows'[j].name, secretRows'[i].scope = secretRows'[j].scope
               PROVE  i = j
    BY <1>5 DEF OneLive, LiveRow
  <2>1. CASE i \in 1..size /\ j \in 1..size
    <3>1. /\ ~secretRows[i].revoked /\ ~secretRows[j].revoked
          /\ secretRows[i].name = secretRows[j].name /\ secretRows[i].scope = secretRows[j].scope
      BY <2>1, <1>2, <1>5
    <3> QED BY <3>1, <2>1, <1>r, <1>z DEF OneLive, LiveRow
  <2>2. CASE i = size + 1 /\ j \in 1..size
    BY <2>2, <1>1, <1>2, <1>5
  <2>3. CASE j = size + 1 /\ i \in 1..size
    BY <2>3, <1>1, <1>2, <1>5
  <2> QED BY <2>1, <2>2, <2>3
<1>10. RowsStay
  BY <1>z, <1>2, <1>5 DEF RowsStay
<1> QED
  BY <1>6, <1>7, <1>8, <1>9, <1>10 DEF SecretsInv

LEMMA SecretIsRevoked ==
  ASSUME SecretsInv, NEW p \in Processes,
         RevokeRow(p) \/ \E i \in 1..Len(secretRows) : Revoke(p, i)
  PROVE  SecretsInv' /\ RowsStay
<1>r. SecretsRows /\ KeysSound /\ RevocationsSound /\ OneLive /\ procs[p] \in StoreProcess
  BY DEF SecretsInv, SecretsRows
<1>z. PICK size \in Nat : size = Len(secretRows)
  BY <1>r, LenProperties DEF SecretsRows
<1>1. ASSUME NEW i \in 1..Len(secretRows), Revoke(p, i) PROVE SecretsInv' /\ RowsStay
  <2> DEFINE rec == [procs[p] EXCEPT !.pc = "revoke", !.row = i]
  <2>1. rec \in StoreProcess /\ rec.pc = "revoke" /\ rec.row = i /\ rec.key = procs[p].key
    <3>1. i \in Nat
      BY <1>z
    <3> QED BY <1>r, <3>1 DEF StoreProcess
  <2>2. procs' = [procs EXCEPT ![p] = rec] /\ procs[p].pc = "open" /\ UNCHANGED <<keyFile, secretRows, split>>
    <3>1. procs' = [procs EXCEPT ![p].pc = "revoke", ![p].row = i]
      BY <1>1 DEF Revoke
    <3>2. [procs EXCEPT ![p].pc = "revoke", ![p].row = i] = [procs EXCEPT ![p] = rec]
      BY <1>r DEF SecretsRows
    <3> QED BY <1>1, <3>1, <3>2 DEF Revoke
  <2> HIDE DEF rec
  <2>3. /\ procs' \in [Processes -> StoreProcess] /\ procs'[p] = rec
        /\ \A o \in Processes : o # p => procs'[o] = procs[o]
    BY <1>r, <2>1, <2>2, ProcessMoves
  <2>4. SecretsRows'
    BY <1>r, <2>2, <2>3 DEF SecretsRows
  <2>5. KeysSound'
    BY <1>r, <2>1, <2>2, <2>3 DEF KeysSound, Opened
  <2>6. RevocationsSound'
    BY <1>r, <2>1, <2>2, <2>3 DEF RevocationsSound
  <2>7. OneLive' /\ RowsStay
    BY <1>r, <1>z, <2>2 DEF OneLive, LiveRow, RowsStay
  <2> QED BY <2>4, <2>5, <2>6, <2>7 DEF SecretsInv
<1>2. CASE RevokeRow(p)
  <2>i. PICK i \in 1..size : i = procs[p].row
    BY <1>2, <1>r, <1>z DEF RevokeRow, RevocationsSound
  <2>0. \A k \in 1..size : secretRows[k] \in SecretRow
    BY <1>r, <1>z, ElementOfSeq DEF SecretsRows
  <2> DEFINE rec == [procs[p] EXCEPT !.pc = "open", !.row = 0]
             row == [secretRows[i] EXCEPT !.revoked = TRUE]
  <2>1. rec \in StoreProcess /\ rec.pc = "open" /\ rec.key = procs[p].key
    BY <1>r DEF StoreProcess
  <2>8. row \in SecretRow /\ row.revoked /\ row.name = secretRows[i].name /\ row.scope = secretRows[i].scope
        /\ row.key = secretRows[i].key
    BY <2>0 DEF SecretRow
  <2>2. /\ procs' = [procs EXCEPT ![p] = rec] /\ procs[p].pc = "revoke"
        /\ secretRows' = [secretRows EXCEPT ![i] = row] /\ UNCHANGED <<keyFile, split>>
    BY <1>2, <1>r, <2>i DEF RevokeRow, SecretsRows
  <2> HIDE DEF rec, row
  <2>3. /\ procs' \in [Processes -> StoreProcess] /\ procs'[p] = rec
        /\ \A o \in Processes : o # p => procs'[o] = procs[o]
    BY <1>r, <2>1, <2>2, ProcessMoves
  <2>9. /\ secretRows' \in Seq(SecretRow) /\ Len(secretRows') = size /\ secretRows'[i] = row
        /\ \A k \in 1..size : k # i => secretRows'[k] = secretRows[k]
    <3>1. secretRows \in Seq(SecretRow)
      BY <1>r DEF SecretsRows
    <3> QED BY <3>1, <2>2, <2>8, <1>z
  <2>4. SecretsRows'
    BY <1>r, <2>2, <2>3, <2>9 DEF SecretsRows
  <2>10. \A k \in 1..size : /\ secretRows'[k].name = secretRows[k].name /\ secretRows'[k].scope = secretRows[k].scope
                            /\ secretRows'[k].key = secretRows[k].key
                            /\ secretRows[k].revoked => secretRows'[k].revoked
    BY <2>8, <2>9
  <2>5. KeysSound'
    BY <1>r, <1>z, <2>1, <2>2, <2>3, <2>9, <2>10 DEF KeysSound, Opened
  <2>6. RevocationsSound'
    BY <1>r, <1>z, <2>1, <2>2, <2>3, <2>9 DEF RevocationsSound
  <2>7. OneLive'
    BY <1>r, <1>z, <2>9, <2>10 DEF OneLive, LiveRow
  <2>11. RowsStay
    BY <1>z, <2>9, <2>10 DEF RowsStay
  <2> QED BY <2>4, <2>5, <2>6, <2>7, <2>11 DEF SecretsInv
<1> QED
  BY <1>1, <1>2

LEMMA SecretsStep == SecretsInv /\ [SecretsNext]_seVars => SecretsInv' /\ RowsStay
<1> SUFFICES ASSUME SecretsInv, [SecretsNext]_seVars PROVE SecretsInv' /\ RowsStay
  OBVIOUS
<1>1. ASSUME UNCHANGED <<keyFile, procs, secretRows, split>> PROVE SecretsInv' /\ RowsStay
  <2>1. Len(secretRows) \in Nat
    BY LenProperties DEF SecretsInv, SecretsRows
  <2> QED
    BY <1>1, <2>1 DEF SecretsInv, SecretsRows, KeysSound, Opened, RevocationsSound, OneLive, LiveRow, RowsStay
<1>2. CASE \E n \in SecretNames : handleRequestResource(n)
  BY <1>1, <1>2 DEF handleRequestResource
<1>3. CASE UNCHANGED seVars
  BY <1>1, <1>3 DEF seVars
<1>4. ASSUME NEW p \in Processes, NEW n \in SecretNames, NEW s \in Scopes, setCmd(p, n, s)
      PROVE  SecretsInv' /\ RowsStay
  BY <1>4, SecretIsSet DEF setCmd
<1> QED
  BY <1>2, <1>3, <1>4, StoreOpensOrCloses, SecretIsRevoked DEF SecretsNext

LEMMA ScopesOrdered ==
  /\ Scopes = {"user", "agent", "task"}
  /\ ScopeOrder["user"] = 1 /\ ScopeOrder["agent"] = 2 /\ ScopeOrder["task"] = 3
BY DEF Scopes, ScopeOrder

\* Of some scopes one is the narrowest, and the order tells scopes apart.
LEMMA NarrowestScope ==
  /\ \A S \in SUBSET Scopes : S # {} => \E s \in S : \A r \in S : ScopeOrder[r] <= ScopeOrder[s]
  /\ \A r, s \in Scopes : ScopeOrder[r] <= ScopeOrder[s] /\ ScopeOrder[s] <= ScopeOrder[r] => r = s
<1>1. ASSUME NEW S \in SUBSET Scopes, S # {}
      PROVE  \E s \in S : \A r \in S : ScopeOrder[r] <= ScopeOrder[s]
  <2>1. CASE "task" \in S
    BY <2>1, ScopesOrdered
  <2>2. CASE "task" \notin S /\ "agent" \in S
    BY <2>2, ScopesOrdered
  <2>3. CASE "task" \notin S /\ "agent" \notin S
    <3>1. PICK s \in S : TRUE
      BY <1>1
    <3>2. \A r \in S : r = "user"
      BY <2>3, ScopesOrdered
    <3>3. \A r \in S : ScopeOrder[r] <= ScopeOrder[s]
      BY <3>2, ScopesOrdered
    <3> QED BY <3>1, <3>3
  <2> QED BY <2>1, <2>2, <2>3
<1> QED
  BY <1>1, ScopesOrdered

\* Of one number the largest is that number.
LEMMA MaxOfOne == ASSUME NEW i \in Nat PROVE Max({i}) = i
BY DEF Max

\* BuildEnvMap, Get: what a run gets for a name is what Get returns for the
\* narrowest scope that has a value, and it can be decrypted.
LEMMA EnvNarrowest == SecretsInv => EnvIsNarrowest
<1> SUFFICES ASSUME SecretsInv, NEW p \in Processes, NEW forTask \in BOOLEAN,
                    procs[p].pc = "open", ~BuildFails(p, RowsOf(RunScopes(forTask)))
             PROVE  LET env == BuildEnvMap(p, forTask) IN
                    /\ ~forTask => DOMAIN env = handleListResources
                    /\ \A n \in DOMAIN env :
                          LET scopes == {s \in RunScopes(forTask) : <<n, s>> \in List({s})}
                              top == CHOOSE s \in scopes : \A r \in scopes : ScopeOrder[r] <= ScopeOrder[s]
                          IN env[n] = GetSecret(p, n, top)
  BY DEF EnvIsNarrowest
<1> DEFINE rows == RowsOf(RunScopes(forTask))
           names == {secretRows[i].name : i \in rows}
           Best(n, i) == /\ secretRows[i].name = n
                         /\ \A j \in rows : secretRows[j].name = n => Narrower(i, j)
<1>0. SecretsRows /\ OneLive /\ RunScopes(forTask) \subseteq Scopes
  BY DEF SecretsInv, RunScopes, Scopes, ScopeOrder
<1>1. /\ rows \subseteq 1..Len(secretRows)
      /\ \A i \in rows : /\ ~secretRows[i].revoked /\ secretRows[i].scope \in RunScopes(forTask)
                         /\ i \in Nat
      /\ \A i \in 1..Len(secretRows) : ~secretRows[i].revoked /\ secretRows[i].scope \in RunScopes(forTask) => i \in rows
  BY DEF RowsOf, LiveRow
<1>e. BuildEnvMap(p, forTask) = [n \in names |-> CHOOSE i \in rows : Best(n, i)]
  BY DEF BuildEnvMap
<1>2. ~forTask => names = handleListResources
  <2> SUFFICES ASSUME ~forTask PROVE names = handleListResources
    OBVIOUS
  <2>1. RunScopes(forTask) = {"user", "agent"}
    BY DEF RunScopes
  <2>2. \A e : e \in List({"user", "agent"}) <=> \E i \in rows : e = <<secretRows[i].name, secretRows[i].scope>>
    BY <2>1 DEF List
  <2>3. \A x : x \in handleListResources <=> \E e \in List({"user", "agent"}) : x = e[1]
    BY DEF handleListResources
  <2>4. \A x, y : <<x, y>>[1] = x
    OBVIOUS
  <2>5. \A x : x \in handleListResources <=> \E i \in rows : x = secretRows[i].name
    <3> DEFINE Pair(i) == <<secretRows[i].name, secretRows[i].scope>>
    <3>1. \A i : Pair(i)[1] = secretRows[i].name
      BY <2>4
    <3>2. \A e : e \in List({"user", "agent"}) <=> \E i \in rows : e = Pair(i)
      BY <2>2
    <3> HIDE DEF rows, Pair
    <3> QED BY <2>3, <3>1, <3>2
  <2> HIDE DEF rows
  <2> QED BY <2>5
<1>3. ASSUME NEW n \in names
      PROVE  LET scopes == {s \in RunScopes(forTask) : <<n, s>> \in List({s})}
                 top == CHOOSE s \in scopes : \A r \in scopes : ScopeOrder[r] <= ScopeOrder[s]
             IN (CHOOSE i \in rows : Best(n, i)) = GetSecret(p, n, top)
  <2> DEFINE scopes == {s \in RunScopes(forTask) : <<n, s>> \in List({s})}
             Top(s) == \A r \in scopes : ScopeOrder[r] <= ScopeOrder[s]
             top == CHOOSE s \in scopes : Top(s)
  <2>1. \A s : s \in scopes <=> \E i \in rows : secretRows[i].name = n /\ secretRows[i].scope = s
    <3>1. \A s : \A e : e \in List({s}) <=> \E i \in RowsOf({s}) : e = <<secretRows[i].name, secretRows[i].scope>>
      BY DEF List
    <3>2. \A s \in RunScopes(forTask) : \A i : i \in RowsOf({s}) <=> i \in rows /\ secretRows[i].scope = s
      BY <1>1 DEF RowsOf, LiveRow
    <3>3. \A x, y, v, w : <<x, y>> = <<v, w>> <=> x = v /\ y = w
      OBVIOUS
    <3>4. \A s \in RunScopes(forTask) : <<n, s>> \in List({s}) <=>
             \E i \in rows : secretRows[i].scope = s /\ secretRows[i].name = n
      <4> SUFFICES ASSUME NEW s \in RunScopes(forTask)
                   PROVE  <<n, s>> \in List({s}) <=> \E i \in rows : secretRows[i].scope = s /\ secretRows[i].name = n
        OBVIOUS
      <4> DEFINE Pair(i) == <<secretRows[i].name, secretRows[i].scope>>
                 pair == <<n, s>>
      <4>1. pair \in List({s}) <=> \E i \in RowsOf({s}) : pair = Pair(i)
        BY <3>1
      <4>2. \A i : pair = Pair(i) <=> n = secretRows[i].name /\ s = secretRows[i].scope
        BY <3>3
      <4>3. \A i : i \in RowsOf({s}) <=> i \in rows /\ secretRows[i].scope = s
        BY <3>2
      <4> HIDE DEF rows, Pair, pair
      <4>4. pair \in List({s}) <=> \E i \in rows : secretRows[i].scope = s /\ secretRows[i].name = n
        BY <4>1, <4>2, <4>3
      <4> QED BY <4>4 DEF pair
    <3> QED BY <3>4, <1>1
  <2>2. scopes # {} /\ scopes \subseteq Scopes
    BY <2>1, <1>0
  <2>3. top \in scopes /\ Top(top)
    <3>1. \E s \in scopes : Top(s)
      BY <2>2, NarrowestScope
    <3> QED BY <3>1
  <2> HIDE DEF top, scopes
  <2>4. PICK i \in rows : secretRows[i].name = n /\ secretRows[i].scope = top
    BY <2>1, <2>3
  <2>5. Best(n, i)
    BY <2>1, <2>3, <2>4 DEF Narrower
  <2>6. \A k \in rows : secretRows[k].name = n /\ secretRows[k].scope = top => k = i
    BY <1>0, <1>1, <2>4 DEF OneLive, LiveRow
  <2>7. \A k \in rows : Best(n, k) => k = i
    <3> SUFFICES ASSUME NEW k \in rows, Best(n, k) PROVE k = i
      OBVIOUS
    <3>1. secretRows[k].scope \in scopes /\ secretRows[k].scope \in Scopes /\ top \in Scopes
      BY <2>1, <2>2, <2>3
    <3>2. ScopeOrder[secretRows[k].scope] >= ScopeOrder[top]
      BY <2>4 DEF Narrower
    <3>3. ScopeOrder[secretRows[k].scope] <= ScopeOrder[top]
      BY <2>3, <3>1
    <3>4. secretRows[k].scope = top
      BY <3>1, <3>2, <3>3, NarrowestScope, ScopesOrdered
    <3> QED BY <3>4, <2>6
  <2>8. (CHOOSE k \in rows : Best(n, k)) = i
    <3> HIDE DEF Best, rows
    <3> QED BY <2>5, <2>7
  <2>9. CanDecrypt(p, i)
    <3>1. Met(rows, i) = {}
      <4> SUFFICES ASSUME NEW j \in rows, j < i, secretRows[j].name = n, Narrower(j, i) PROVE FALSE
        BY <2>4 DEF Met
      <4>1. secretRows[j].scope \in Scopes /\ top \in Scopes
        BY <1>0, <1>1, <2>2, <2>3
      <4>2. ScopeOrder[secretRows[j].scope] <= ScopeOrder[top] /\ ScopeOrder[top] <= ScopeOrder[secretRows[j].scope]
        BY <2>4, <2>5, <4>1, ScopesOrdered DEF Narrower
      <4>3. secretRows[j].scope = top
        BY <4>1, <4>2, NarrowestScope
      <4> QED BY <4>3, <2>6, <1>1
    <3> QED BY <3>1 DEF BuildFails
  <2>10. {k \in RowsOf({top}) : secretRows[k].name = n} = {i}
    <3>1. \A k : k \in RowsOf({top}) <=> k \in rows /\ secretRows[k].scope = top
      BY <1>1, <2>2, <2>3, <2>1 DEF RowsOf, LiveRow
    <3> QED BY <3>1, <2>4, <2>6
  <2>11. GetSecret(p, n, top) = i
    BY <2>9, <2>10, <1>1, MaxOfOne DEF GetSecret
  <2> QED BY <2>8, <2>11 DEF top, scopes
<1> HIDE DEF rows
<1>4. DOMAIN BuildEnvMap(p, forTask) = names
  BY <1>e
<1>5. \A n \in names : BuildEnvMap(p, forTask)[n] = CHOOSE i \in rows : Best(n, i)
  BY <1>e
<1> QED
  BY <1>2, <1>3, <1>4, <1>5

LEMMA SecretsInvSafe == SecretsInv => SecretsSafe
<1> SUFFICES ASSUME SecretsInv PROVE SecretsSafe
  OBVIOUS
<1>1. SecretsTypeOK
  BY DEF SecretsInv, SecretsRows, KeysSound, Opened, SecretsTypeOK, MasterKeys
<1>2. ListedIsReadable
  BY DEF SecretsInv, SecretsRows, KeysSound, Opened, ListedIsReadable, CanDecrypt
<1> QED
  BY <1>1, <1>2, EnvNarrowest DEF SecretsSafe, SecretsInv

\* Secrets, for any processes, names and number of rows: of a name and scope
\* one value is live, a run gets the narrowest, and what is listed can be read
\* unless two processes generated a key each.
THEOREM SecretsCorrect == SecretsSpec => []SecretsSafe
<1>1. SecretsInit => SecretsInv
  BY SecretsInitInv
<1>2. SecretsInv /\ [SecretsNext]_seVars => SecretsInv'
  BY SecretsStep
<1>3. SecretsInv => SecretsSafe
  BY SecretsInvSafe
<1> QED
  BY <1>1, <1>2, <1>3, PTL DEF SecretsSpec

\* Set, Revoke: a value that was revoked does not come back.
THEOREM RevokedStays == SecretsSpec => RevokedForever
<1>1. SecretsInit => SecretsInv
  BY SecretsInitInv
<1>2. SecretsInv /\ [SecretsNext]_seVars => SecretsInv'
  BY SecretsStep
<1>3. SecretsInv /\ [SecretsNext]_seVars =>
        [\A i \in 1..Len(secretRows) : secretRows[i].revoked => secretRows'[i].revoked]_seVars
  BY SecretsStep DEF RowsStay
<1> QED
  BY <1>1, <1>2, <1>3, PTL DEF SecretsSpec, RevokedForever

-----------------------------------------------------------------------------
(* Kubernetes handlers.                                                    *)

HandlerRow == [agent : KhAgents \union {NoName}, image : KhImages \union {NoName}, active : BOOLEAN]

Registration == [agent : KhAgents \union {NoName}, image : KhImages \union {NoName}]

DispatchRow == [agent : KhAgents \union {NoName}, todo : Seq(HandlerIds), made : {"no", "pending", "failed"}]

JobRun == [handler : HandlerIds, agent : KhAgents, message : KhMessages, status : {"pending", "failed"}]

K8sRows ==
  /\ handler \in [HandlerIds -> HandlerRow]
  /\ nextHandler \in 1..(MaxHandlers + 1)
  /\ khReg \in [KhCalls -> Registration]
  /\ disp \in [KhMessages -> DispatchRow]
  /\ clusterJob \in [KhMessages -> 0..(MaxHandlers + 1)]
  /\ jobRuns \subseteq JobRun
  /\ khLost \subseteq KhMessages

\* AUTOINCREMENT: an id that was not given yet has no row, and ids do not come
\* back; an agent has one row for an image.
HandlersSound ==
  /\ \A h \in HandlerIds : /\ handler[h] = Gone \/ handler[h].agent \in KhAgents
                           /\ h >= nextHandler => handler[h] = Gone
  /\ \A h, g \in HandlerIds : /\ handler[h].agent \in KhAgents /\ handler[h].agent = handler[g].agent
                              /\ handler[h].image = handler[g].image
                              => h = g
  /\ \A c \in KhCalls : khReg[c] = NoReg \/ khReg[c].agent \in KhAgents

\* A dispatch works on handlers of its agent; while it waits to record a Job,
\* that Job is the one of the message; before it, there is none.
DispatchSound(m) ==
  /\ \A i \in 1..Len(disp[m].todo) : LET h == disp[m].todo[i] IN
        h < nextHandler /\ (handler[h] = Gone \/ handler[h].agent = disp[m].agent)
  /\ disp[m].todo # <<>> => disp[m].agent \in KhAgents
  /\ disp[m].made = "pending" => disp[m].todo # <<>> /\ clusterJob[m] = Head(disp[m].todo)
  /\ clusterJob[m] \in HandlerIds =>
        /\ clusterJob[m] < nextHandler
        /\ \/ handler[clusterJob[m]] = Gone \/ m \in khLost
           \/ disp[m].todo # <<>> /\ Head(disp[m].todo) = clusterJob[m] /\ disp[m].made = "pending"
           \/ \E r \in jobRuns : r.handler = clusterJob[m] /\ r.message = m /\ r.status = "pending"
  /\ disp[m].agent = NoName => clusterJob[m] = NoJob

\* A run belongs to its handler's agent.  One that is pending is the only one of
\* its message, and while the dispatch goes on its Job is there.
RunSound(r) ==
  /\ handler[r.handler] # Gone /\ handler[r.handler].agent = r.agent
  /\ disp[r.message].agent # NoName
  /\ r.status = "pending" =>
        /\ clusterJob[r.message] \in {r.handler, ByReactor, NoJob}
        /\ disp[r.message].todo # <<>> => clusterJob[r.message] = r.handler
        /\ disp[r.message].made # "pending"
        /\ \A q \in jobRuns : q.message = r.message /\ q.status = "pending" => q = r

DispatchesSound == (\A m \in KhMessages : DispatchSound(m)) /\ (\A r \in jobRuns : RunSound(r))

\* Registrations between COUNT and INSERT count as handlers: together they pass
\* the limit by less than the number of concurrent calls.
Registering(a) == {c \in KhCalls : khReg[c].agent = a}

LimitSound ==
  \A a \in KhAgents :
    Cardinality(HandlersOf(a)) + Cardinality(Registering(a)) <= MaxHandlersPerAgent - 1 + Cardinality(KhCalls)

K8sInv == K8sRows /\ HandlersSound /\ DispatchesSound /\ LimitSound

LEMMA K8sNames ==
  /\ Gone \in HandlerRow /\ Gone.agent = NoName
  /\ NoReg \in Registration /\ NoReg.agent = NoName
  /\ Undispatched \in DispatchRow /\ Undispatched.agent = NoName /\ Undispatched.todo = <<>>
  /\ Undispatched.made = "no"
  /\ NoName \notin KhAgents
  /\ \A h \in HandlerIds : h # NoJob /\ h # ByReactor /\ h \in Nat
BY K8sAssumption DEF Gone, HandlerRow, NoReg, Registration, Undispatched, DispatchRow, HandlerIds, NoJob, ByReactor

LEMMA K8sFinite ==
  ASSUME NEW a
  PROVE  /\ IsFiniteSet(HandlersOf(a)) /\ Cardinality(HandlersOf(a)) \in Nat
         /\ IsFiniteSet(Registering(a)) /\ Cardinality(Registering(a)) \in Nat
         /\ Cardinality(Registering(a)) <= Cardinality(KhCalls) /\ Cardinality(KhCalls) \in Nat
<1>1. IsFiniteSet(HandlerIds) /\ IsFiniteSet(KhCalls)
  BY K8sAssumption, FS_Interval DEF HandlerIds
<1>2. HandlersOf(a) \in SUBSET HandlerIds /\ Registering(a) \in SUBSET KhCalls
  BY DEF HandlersOf, Registering
<1>3. IsFiniteSet(HandlersOf(a)) /\ IsFiniteSet(Registering(a)) /\ Cardinality(Registering(a)) <= Cardinality(KhCalls)
  BY <1>1, <1>2, FS_Subset
<1> QED
  BY <1>1, <1>3, FS_CardinalityType

LEMMA K8sInitInv == K8sInit => K8sInv
<1> SUFFICES ASSUME K8sInit PROVE K8sInv
  OBVIOUS
<1>1. /\ \A h \in HandlerIds : handler[h] = Gone
      /\ \A c \in KhCalls : khReg[c] = NoReg
      /\ \A m \in KhMessages : disp[m] = Undispatched /\ clusterJob[m] = NoJob
      /\ jobRuns = {}
  BY DEF K8sInit
<1>2. K8sRows
  BY K8sNames, K8sAssumption DEF K8sInit, K8sRows, NoJob
<1>3. HandlersSound
  BY <1>1, K8sNames DEF HandlersSound
<1>4. DispatchesSound
  <2>1. \A m \in KhMessages : Len(disp[m].todo) = 0 /\ 1..0 = {}
    BY <1>1, K8sNames
  <2> QED BY <1>1, <2>1, K8sNames DEF DispatchesSound, DispatchSound
<1>5. LimitSound
  <2> SUFFICES ASSUME NEW a \in KhAgents
               PROVE  Cardinality(HandlersOf(a)) + Cardinality(Registering(a))
                         <= MaxHandlersPerAgent - 1 + Cardinality(KhCalls)
    BY DEF LimitSound
  <2>1. HandlersOf(a) = {}
    BY <1>1, K8sNames DEF HandlersOf
  <2>2. Cardinality(HandlersOf(a)) = 0
    BY <2>1, FS_EmptySet
  <2> QED BY <2>2, K8sFinite, K8sAssumption
<1> QED
  BY <1>2, <1>3, <1>4, <1>5 DEF K8sInv

\* What happens at other messages leaves a dispatch sound.
LEMMA DispatchStays ==
  ASSUME NEW m \in KhMessages, DispatchSound(m), disp'[m] = disp[m], clusterJob'[m] = clusterJob[m],
         UNCHANGED <<handler, nextHandler>>, khLost \subseteq khLost', jobRuns \subseteq jobRuns'
  PROVE  DispatchSound(m)'
BY DEF DispatchSound

\* The handlers and registrations are left alone.
LEMMA HandlersStay ==
  ASSUME K8sInv, UNCHANGED <<handler, nextHandler, khReg>>
  PROVE  HandlersSound' /\ LimitSound'
BY DEF K8sInv, HandlersSound, LimitSound, HandlersOf, Registering

LEMMA Registers ==
  ASSUME K8sInv, NEW c \in KhCalls, NEW a \in KhAgents, NEW image \in KhImages, RegisterHandler(c, a, image)
  PROVE  K8sInv'
<1>r. K8sRows /\ HandlersSound /\ DispatchesSound /\ LimitSound
  BY DEF K8sInv
<1> DEFINE reg == [agent |-> a, image |-> image]
<1>1. reg \in Registration /\ reg.agent = a
  BY DEF Registration
<1>2. /\ khReg' = [khReg EXCEPT ![c] = reg] /\ khReg[c] = NoReg /\ Cardinality(HandlersOf(a)) < MaxHandlersPerAgent
      /\ UNCHANGED <<handler, nextHandler, disp, clusterJob, jobRuns, khLost>>
  BY DEF RegisterHandler, CountHandlersByAgent
<1> HIDE DEF reg
<1>3. /\ khReg' \in [KhCalls -> Registration] /\ khReg'[c] = reg
      /\ \A d \in KhCalls : d # c => khReg'[d] = khReg[d]
  BY <1>r, <1>1, <1>2 DEF K8sRows
<1>4. K8sRows'
  BY <1>r, <1>2, <1>3 DEF K8sRows
<1>5. HandlersSound'
  BY <1>r, <1>1, <1>2, <1>3 DEF HandlersSound
<1>6. DispatchesSound'
  BY <1>r, <1>2 DEF DispatchesSound, DispatchSound, RunSound
<1>7. LimitSound'
  <2> SUFFICES ASSUME NEW b \in KhAgents
               PROVE  Cardinality(HandlersOf(b)') + Cardinality(Registering(b)')
                         <= MaxHandlersPerAgent - 1 + Cardinality(KhCalls)
    BY DEF LimitSound
  <2>h. HandlersOf(b)' = HandlersOf(b)
    BY <1>2 DEF HandlersOf
  <2>1. CASE b = a
    <3>1. Registering(b)' \in SUBSET KhCalls /\ IsFiniteSet(KhCalls)
      BY K8sAssumption DEF Registering
    <3>2. Cardinality(Registering(b)') <= Cardinality(KhCalls) /\ Cardinality(Registering(b)') \in Nat
      BY <3>1, FS_Subset, FS_CardinalityType
    <3> QED BY <2>1, <2>h, <3>2, <1>2, K8sFinite, K8sAssumption
  <2>2. CASE b # a
    <3>1. Registering(b)' = Registering(b)
      BY <2>2, <1>1, <1>2, <1>3, K8sNames DEF Registering
    <3> QED BY <2>h, <3>1, <1>r DEF LimitSound
  <2> QED BY <2>1, <2>2
<1> QED
  BY <1>4, <1>5, <1>6, <1>7 DEF K8sInv

LEMMA HandlerInserted ==
  ASSUME K8sInv, NEW c \in KhCalls, InsertHandler(c)
  PROVE  K8sInv'
<1>r. K8sRows /\ HandlersSound /\ DispatchesSound /\ LimitSound /\ khReg[c] \in Registration
  BY DEF K8sInv, K8sRows
<1>a. PICK a \in KhAgents : a = khReg[c].agent
  BY <1>r DEF InsertHandler, HandlersSound
<1>i. PICK image \in KhImages \union {NoName} : image = khReg[c].image
  BY <1>r DEF Registration
<1>n. PICK n \in HandlerIds : n = nextHandler
  BY DEF InsertHandler
<1>2. /\ khReg' = [khReg EXCEPT ![c] = NoReg] /\ UNCHANGED <<disp, clusterJob, jobRuns, khLost>>
      /\ \/ UNCHANGED <<handler, nextHandler>>
         \/ /\ ~ \E h \in HandlersOf(a) : handler[h].image = image
            /\ handler' = [handler EXCEPT ![n] = [agent |-> a, image |-> image, active |-> TRUE]]
            /\ nextHandler' = nextHandler + 1
  BY <1>a, <1>i, <1>n DEF InsertHandler
<1>3. /\ khReg' \in [KhCalls -> Registration] /\ khReg'[c] = NoReg
      /\ \A d \in KhCalls : d # c => khReg'[d] = khReg[d]
  BY <1>r, <1>2, K8sNames DEF K8sRows
<1>g. /\ Registering(a)' = Registering(a) \ {c} /\ c \in Registering(a)
      /\ \A b \in KhAgents : b # a => Registering(b)' = Registering(b)
  BY <1>a, <1>3, K8sNames DEF Registering
<1>c. Cardinality(Registering(a)') = Cardinality(Registering(a)) - 1
  BY <1>g, K8sFinite, FS_RemoveElement
<1>4. CASE UNCHANGED <<handler, nextHandler>>
  <2>1. K8sRows'
    BY <1>r, <1>2, <1>3, <1>4 DEF K8sRows
  <2>2. HandlersSound'
    BY <1>r, <1>3, <1>4 DEF HandlersSound
  <2>3. DispatchesSound'
    BY <1>r, <1>2, <1>4 DEF DispatchesSound, DispatchSound, RunSound
  <2>4. \A b : HandlersOf(b)' = HandlersOf(b)
    BY <1>4 DEF HandlersOf
  <2>5. ASSUME NEW b \in KhAgents
        PROVE  Cardinality(HandlersOf(b)') + Cardinality(Registering(b)')
                  <= MaxHandlersPerAgent - 1 + Cardinality(KhCalls)
    <3>1. /\ Cardinality(HandlersOf(b)) + Cardinality(Registering(b)) <= MaxHandlersPerAgent - 1 + Cardinality(KhCalls)
          /\ HandlersOf(b)' = HandlersOf(b)
      BY <1>r, <2>4 DEF LimitSound
    <3>2. Cardinality(Registering(b)') = Cardinality(Registering(b))
            \/ Cardinality(Registering(b)') = Cardinality(Registering(b)) - 1
      BY <1>c, <1>g
    <3> QED BY <3>1, <3>2, K8sFinite, K8sAssumption
  <2>6. LimitSound'
    BY <2>5 DEF LimitSound
  <2> QED BY <2>1, <2>2, <2>3, <2>6 DEF K8sInv
<1>5. ASSUME ~ \E h \in HandlersOf(a) : handler[h].image = image,
             handler' = [handler EXCEPT ![n] = [agent |-> a, image |-> image, active |-> TRUE]],
             nextHandler' = nextHandler + 1
      PROVE  K8sInv'
  <2> DEFINE row == [agent |-> a, image |-> image, active |-> TRUE]
  <2>0. row \in HandlerRow /\ row.agent = a /\ row.image = image
    BY DEF HandlerRow
  <2>s. handler' = [handler EXCEPT ![n] = row]
    BY <1>5
  <2> HIDE DEF row
  <2>1. /\ handler' \in [HandlerIds -> HandlerRow] /\ handler'[n] = row
        /\ \A h \in HandlerIds : h # n => handler'[h] = handler[h]
    BY <1>r, <2>0, <2>s DEF K8sRows
  <2>2. nextHandler' = n + 1 /\ n \in Nat /\ nextHandler' \in 1..(MaxHandlers + 1) /\ handler[n] = Gone
    BY <1>5, <1>n, <1>r, K8sAssumption DEF HandlerIds, HandlersSound
  <2>3. K8sRows'
    BY <1>r, <1>2, <1>3, <2>1, <2>2 DEF K8sRows
  <2>4. HandlersSound'
    <3>1. \A h \in HandlerIds : /\ handler'[h] = Gone \/ handler'[h].agent \in KhAgents
                                /\ h >= nextHandler' => handler'[h] = Gone
      <4> SUFFICES ASSUME NEW h \in HandlerIds
                   PROVE  /\ handler'[h] = Gone \/ handler'[h].agent \in KhAgents
                          /\ h >= nextHandler' => handler'[h] = Gone
        OBVIOUS
      <4>1. CASE h = n
        BY <4>1, <2>0, <2>1, <2>2
      <4>2. CASE h # n
        <5>1. h \in Nat /\ (h >= nextHandler' => h >= nextHandler)
          BY <1>n, <2>2, K8sNames
        <5>2. /\ handler[h] = Gone \/ handler[h].agent \in KhAgents
              /\ h >= nextHandler => handler[h] = Gone
          BY <1>r DEF HandlersSound
        <5> QED BY <4>2, <5>1, <5>2, <2>1
      <4> QED BY <4>1, <4>2
    <3>2. ASSUME NEW h \in HandlerIds, NEW g \in HandlerIds, handler'[h].agent \in KhAgents,
                 handler'[h].agent = handler'[g].agent, handler'[h].image = handler'[g].image
          PROVE  h = g
      <4>1. \A k \in HandlerIds : handler[k].agent = a => handler[k].image # image
        BY <1>5 DEF HandlersOf
      <4>2. CASE h # n /\ g # n
        BY <4>2, <3>2, <2>1, <1>r DEF HandlersSound
      <4>3. CASE h = n \/ g = n
        BY <4>1, <4>3, <3>2, <2>0, <2>1
      <4> QED BY <4>2, <4>3
    <3>3. \A d \in KhCalls : khReg'[d] = NoReg \/ khReg'[d].agent \in KhAgents
      BY <1>r, <1>3 DEF HandlersSound
    <3> QED BY <3>1, <3>2, <3>3 DEF HandlersSound
  <2>5. DispatchesSound'
    <3>1. \A h \in HandlerIds : h < nextHandler => h # n /\ h < nextHandler' /\ handler'[h] = handler[h]
      BY <1>n, <2>1, <2>2, K8sNames
    <3>2. \A h \in HandlerIds : handler[h] # Gone => handler'[h] = handler[h]
      BY <2>1, <2>2
    <3>3. ASSUME NEW m \in KhMessages PROVE DispatchSound(m)'
      <4>1. DispatchSound(m) /\ disp[m] \in DispatchRow
        BY <1>r DEF DispatchesSound, K8sRows
      <4>2. \A i \in 1..Len(disp[m].todo) : disp[m].todo[i] \in HandlerIds
        BY <4>1, ElementOfSeq DEF DispatchRow
      <4> QED BY <3>1, <4>1, <4>2, <1>2 DEF DispatchSound
    <3>4. ASSUME NEW r \in jobRuns PROVE RunSound(r)'
      BY <3>2, <1>r, <1>2 DEF DispatchesSound, RunSound, K8sRows, JobRun
    <3> QED BY <3>3, <3>4, <1>2 DEF DispatchesSound
  <2>6. LimitSound'
    <3> SUFFICES ASSUME NEW b \in KhAgents
                 PROVE  Cardinality(HandlersOf(b)') + Cardinality(Registering(b)')
                           <= MaxHandlersPerAgent - 1 + Cardinality(KhCalls)
      BY DEF LimitSound
    <3>0. Cardinality(HandlersOf(b)) + Cardinality(Registering(b)) <= MaxHandlersPerAgent - 1 + Cardinality(KhCalls)
      BY <1>r DEF LimitSound
    <3>1. CASE b = a
      <4>1. HandlersOf(a)' = HandlersOf(a) \union {n}
        BY <2>0, <2>1 DEF HandlersOf
      <4>2. n \notin HandlersOf(a)
        BY <2>2, K8sNames DEF HandlersOf
      <4>3. Cardinality(HandlersOf(a)') = Cardinality(HandlersOf(a)) + 1
        BY <4>1, <4>2, K8sFinite, FS_AddElement
      <4> QED BY <3>0, <3>1, <4>3, <1>c, K8sFinite, K8sAssumption
    <3>2. CASE b # a
      <4>1. HandlersOf(b)' = HandlersOf(b)
        BY <3>2, <2>0, <2>1, <2>2, K8sNames DEF HandlersOf
      <4> QED BY <3>0, <3>2, <4>1, <1>g
    <3> QED BY <3>1, <3>2
  <2> QED BY <2>3, <2>4, <2>5, <2>6 DEF K8sInv
<1> QED
  BY <1>2, <1>4, <1>5

LEMMA HandlerDeleted ==
  ASSUME K8sInv, NEW h \in HandlerIds, DeleteHandler(h)
  PROVE  K8sInv'
<1>r. K8sRows /\ HandlersSound /\ DispatchesSound /\ LimitSound
  BY DEF K8sInv
<1>1. /\ handler' \in [HandlerIds -> HandlerRow] /\ handler'[h] = Gone
      /\ \A g \in HandlerIds : g # h => handler'[g] = handler[g]
      /\ jobRuns' = {r \in jobRuns : r.handler # h}
      /\ UNCHANGED <<nextHandler, khReg, disp, clusterJob, khLost>>
  BY <1>r, K8sNames DEF DeleteHandler, K8sRows
<1>2. K8sRows'
  BY <1>r, <1>1 DEF K8sRows
<1>3. HandlersSound'
  BY <1>r, <1>1, K8sNames DEF HandlersSound
<1>4. DispatchesSound'
  <2>1. ASSUME NEW m \in KhMessages PROVE DispatchSound(m)'
    <3>1. DispatchSound(m) /\ disp[m] \in DispatchRow
      BY <1>r DEF DispatchesSound, K8sRows
    <3>2. \A i \in 1..Len(disp[m].todo) : disp[m].todo[i] \in HandlerIds
      BY <3>1, ElementOfSeq DEF DispatchRow
    <3>3. (\A i \in 1..Len(disp[m].todo) : LET g == disp[m].todo[i] IN
            g < nextHandler /\ (handler[g] = Gone \/ handler[g].agent = disp[m].agent))'
      BY <1>1, <3>1, <3>2 DEF DispatchSound
    <3>4. ASSUME clusterJob[m] \in HandlerIds
          PROVE  \/ handler'[clusterJob[m]] = Gone \/ m \in khLost
                 \/ disp[m].todo # <<>> /\ Head(disp[m].todo) = clusterJob[m] /\ disp[m].made = "pending"
                 \/ \E r \in jobRuns' : r.handler = clusterJob[m] /\ r.message = m /\ r.status = "pending"
      <4>1. CASE clusterJob[m] = h
        BY <4>1, <1>1
      <4>2. CASE clusterJob[m] # h
        BY <4>2, <3>1, <3>4, <1>1 DEF DispatchSound
      <4> QED BY <4>1, <4>2
    <3> QED BY <3>1, <3>3, <3>4, <1>1 DEF DispatchSound
  <2>2. ASSUME NEW r \in jobRuns' PROVE RunSound(r)'
    <3>1. r \in jobRuns /\ r.handler # h /\ r.handler \in HandlerIds /\ RunSound(r)
      BY <1>1, <1>r DEF DispatchesSound, K8sRows, JobRun
    <3> QED BY <3>1, <1>1 DEF RunSound
  <2> QED BY <2>1, <2>2 DEF DispatchesSound
<1>5. LimitSound'
  <2> SUFFICES ASSUME NEW b \in KhAgents
               PROVE  Cardinality(HandlersOf(b)') + Cardinality(Registering(b)')
                         <= MaxHandlersPerAgent - 1 + Cardinality(KhCalls)
    BY DEF LimitSound
  <2>1. HandlersOf(b)' \in SUBSET HandlersOf(b) /\ Registering(b)' = Registering(b)
    BY <1>1, K8sNames DEF HandlersOf, Registering
  <2>2. Cardinality(HandlersOf(b)') <= Cardinality(HandlersOf(b)) /\ IsFiniteSet(HandlersOf(b)')
    BY <2>1, K8sFinite, FS_Subset
  <2>3. Cardinality(HandlersOf(b)') \in Nat
    BY <2>2, FS_CardinalityType
  <2> QED BY <1>r, <2>1, <2>2, <2>3, K8sFinite, K8sAssumption DEF LimitSound
<1> QED
  BY <1>2, <1>3, <1>4, <1>5 DEF K8sInv

LEMMA Dispatches ==
  ASSUME K8sInv, NEW m \in KhMessages, NEW a \in KhAgents, K8sDispatch(m, a)
  PROVE  K8sInv'
<1>r. K8sRows /\ HandlersSound /\ DispatchesSound /\ LimitSound /\ DispatchSound(m)
  BY DEF K8sInv, DispatchesSound
<1> DEFINE active == GetActiveHandlersByEvent(a)
<1>t. PICK todo \in SetToSeqs(active) : disp' = [disp EXCEPT ![m] = [agent |-> a, todo |-> todo, made |-> "no"]]
  BY DEF K8sDispatch
<1>0. \A h \in active : h \in HandlerIds /\ handler[h].agent = a
  BY DEF GetActiveHandlersByEvent, HandlersOf
<1>f. Cardinality(active) \in Nat
  <2>1. active \in SUBSET HandlersOf(a)
    BY DEF GetActiveHandlersByEvent
  <2> QED BY <2>1, K8sFinite, FS_Subset, FS_CardinalityType
<1> HIDE DEF active
<1>1. todo \in Seq(HandlerIds) /\ \A i \in 1..Len(todo) : todo[i] \in active
  <2>1. todo \in [1..Cardinality(active) -> active]
    BY DEF SetToSeqs
  <2>2. todo \in Seq(active)
    BY <2>1, <1>f
  <2> QED BY <2>2, <1>0, ElementOfSeq
<1> DEFINE rec == [agent |-> a, todo |-> todo, made |-> "no"]
<1>2. rec \in DispatchRow /\ rec.agent = a /\ rec.todo = todo /\ rec.made = "no"
  BY <1>1 DEF DispatchRow
<1>3. /\ disp' = [disp EXCEPT ![m] = rec] /\ disp[m] = Undispatched
      /\ UNCHANGED <<handler, nextHandler, khReg, clusterJob, jobRuns, khLost>>
  BY <1>t DEF K8sDispatch
<1> HIDE DEF rec
<1>4. /\ disp' \in [KhMessages -> DispatchRow] /\ disp'[m] = rec
      /\ \A k \in KhMessages : k # m => disp'[k] = disp[k]
  BY <1>r, <1>2, <1>3 DEF K8sRows
<1>5. K8sRows'
  BY <1>r, <1>3, <1>4 DEF K8sRows
<1>n. \A r \in jobRuns : r.message \in KhMessages /\ r.message # m /\ RunSound(r)
  BY <1>r, <1>3, K8sNames DEF K8sRows, JobRun, DispatchesSound, RunSound
<1>6. ASSUME NEW k \in KhMessages PROVE DispatchSound(k)'
  <2>1. CASE k = m
    <3>1. clusterJob[m] = NoJob /\ clusterJob[m] \notin HandlerIds
      BY <1>r, <1>3, K8sNames DEF DispatchSound
    <3>2. \A i \in 1..Len(todo) : todo[i] < nextHandler /\ handler[todo[i]].agent = a
      <4> SUFFICES ASSUME NEW i \in 1..Len(todo) PROVE todo[i] < nextHandler /\ handler[todo[i]].agent = a
        OBVIOUS
      <4>1. todo[i] \in HandlerIds /\ handler[todo[i]].agent = a /\ todo[i] \in Nat
        BY <1>0, <1>1, K8sNames
      <4>2. handler[todo[i]] # Gone /\ nextHandler \in Nat
        BY <4>1, <1>r, K8sNames DEF K8sRows
      <4> QED BY <4>1, <4>2, <1>r DEF HandlersSound
    <3> QED BY <2>1, <3>1, <3>2, <1>2, <1>3, <1>4, K8sNames DEF DispatchSound
  <2>2. CASE k # m
    BY <2>2, <1>r, <1>3, <1>4, DispatchStays DEF DispatchesSound
  <2> QED BY <2>1, <2>2
<1>7. ASSUME NEW r \in jobRuns' PROVE RunSound(r)'
  BY <1>n, <1>3, <1>4 DEF RunSound
<1> QED
  BY <1>3, <1>5, <1>6, <1>7, HandlersStay DEF K8sInv, DispatchesSound

LEMMA JobCreated ==
  ASSUME K8sInv, NEW m \in KhMessages, NEW accepted \in BOOLEAN, CreateJob(m, accepted)
  PROVE  K8sInv'
<1>r. K8sRows /\ DispatchesSound /\ DispatchSound(m) /\ disp[m] \in DispatchRow /\ clusterJob[m] \in 0..(MaxHandlers + 1)
  BY DEF K8sInv, DispatchesSound, K8sRows
<1>t. disp[m].todo # <<>> /\ disp[m].made = "no"
  BY DEF CreateJob
<1>h. PICK h \in HandlerIds : h = Head(disp[m].todo)
  <2>1. disp[m].todo \in Seq(HandlerIds)
    BY <1>r DEF DispatchRow
  <2> QED BY <1>t, <2>1
<1>o. PICK ok \in BOOLEAN : ok = (accepted /\ clusterJob[m] = NoJob)
  OBVIOUS
<1> DEFINE rec == [disp[m] EXCEPT !.made = IF ok THEN "pending" ELSE "failed"]
<1>1. /\ rec \in DispatchRow /\ rec.agent = disp[m].agent /\ rec.todo = disp[m].todo
      /\ rec.made = IF ok THEN "pending" ELSE "failed"
  BY <1>r DEF DispatchRow
<1>2. /\ disp' = [disp EXCEPT ![m] = rec]
      /\ clusterJob' = IF ok THEN [clusterJob EXCEPT ![m] = h] ELSE clusterJob
      /\ UNCHANGED <<handler, nextHandler, khReg, jobRuns, khLost>>
  BY <1>h, <1>o, <1>r DEF CreateJob, K8sRows
<1> HIDE DEF rec
<1>3. /\ disp' \in [KhMessages -> DispatchRow] /\ disp'[m] = rec
      /\ \A k \in KhMessages : k # m => disp'[k] = disp[k]
  BY <1>r, <1>1, <1>2 DEF K8sRows
<1>4. /\ clusterJob' \in [KhMessages -> 0..(MaxHandlers + 1)] /\ clusterJob'[m] = IF ok THEN h ELSE clusterJob[m]
      /\ \A k \in KhMessages : k # m => clusterJob'[k] = clusterJob[k]
  <2>1. h \in 0..(MaxHandlers + 1)
    BY K8sAssumption DEF HandlerIds
  <2> QED BY <1>r, <1>2, <2>1 DEF K8sRows
<1>5. K8sRows'
  BY <1>r, <1>2, <1>3, <1>4 DEF K8sRows
<1>6. ASSUME NEW k \in KhMessages PROVE DispatchSound(k)'
  <2>1. CASE k = m
    <3>1. /\ \A i \in 1..Len(disp[m].todo) : LET g == disp[m].todo[i] IN
                g < nextHandler /\ (handler[g] = Gone \/ handler[g].agent = disp[m].agent)
          /\ disp[m].agent \in KhAgents
      BY <1>r, <1>t DEF DispatchSound
    <3>2. h < nextHandler
      <4>1. 1 \in 1..Len(disp[m].todo) /\ h = disp[m].todo[1]
        <5>1. disp[m].todo \in Seq(HandlerIds)
          BY <1>r DEF DispatchRow
        <5> QED BY <5>1, <1>t, <1>h
      <4> QED BY <3>1, <4>1
    <3>3. CASE ok
      BY <2>1, <3>1, <3>2, <3>3, <1>1, <1>2, <1>3, <1>4, <1>h, <1>t, K8sNames DEF DispatchSound
    <3>4. CASE ~ok
      <4>1. clusterJob[m] \in HandlerIds =>
              /\ clusterJob[m] < nextHandler
              /\ \/ handler[clusterJob[m]] = Gone \/ m \in khLost
                 \/ \E r \in jobRuns : r.handler = clusterJob[m] /\ r.message = m /\ r.status = "pending"
        BY <1>r, <1>t DEF DispatchSound
      <4> QED BY <2>1, <3>1, <3>4, <4>1, <1>1, <1>2, <1>3, <1>4, K8sNames DEF DispatchSound
    <3> QED BY <3>3, <3>4
  <2>2. CASE k # m
    BY <2>2, <1>r, <1>2, <1>3, <1>4, DispatchStays DEF DispatchesSound
  <2> QED BY <2>1, <2>2
<1>7. ASSUME NEW r \in jobRuns' PROVE RunSound(r)'
  <2>1. RunSound(r) /\ r \in jobRuns /\ r.message \in KhMessages /\ r.handler \in HandlerIds /\ r.handler # NoJob
    BY <1>r, <1>2, K8sNames DEF DispatchesSound, K8sRows, JobRun
  <2>2. CASE r.message # m
    BY <2>1, <2>2, <1>2, <1>3, <1>4 DEF RunSound
  <2>3. CASE r.message = m
    <3>1. r.status = "pending" => ~ok
      BY <2>1, <2>3, <1>t, <1>o DEF RunSound
    <3>2. CASE r.status = "pending"
      BY <2>1, <2>3, <3>1, <3>2, <1>1, <1>2, <1>3, <1>4 DEF RunSound
    <3>3. CASE r.status # "pending"
      BY <2>1, <2>3, <3>3, <1>1, <1>2, <1>3 DEF RunSound
    <3> QED BY <3>2, <3>3
  <2> QED BY <2>2, <2>3
<1> QED
  BY <1>2, <1>5, <1>6, <1>7, HandlersStay DEF K8sInv, DispatchesSound

\* The dispatch is over: the Job of the message is made by the reactor, or forgotten.
LEMMA JobAfterDispatch ==
  ASSUME K8sInv, NEW m \in KhMessages, ReactorJob(m) \/ JobForgotten(m)
  PROVE  K8sInv'
<1>r. K8sRows /\ DispatchesSound /\ DispatchSound(m)
  BY DEF K8sInv, DispatchesSound
<1>v. PICK v \in {NoJob, ByReactor} : clusterJob' = [clusterJob EXCEPT ![m] = v]
  BY DEF ReactorJob, JobForgotten
<1>1. /\ disp[m].todo = <<>> /\ UNCHANGED <<handler, nextHandler, khReg, disp, jobRuns, khLost>>
      /\ v \notin HandlerIds /\ disp[m].agent # NoName /\ v \in 0..(MaxHandlers + 1)
  <2>1. disp[m].agent # NoName
    BY <1>r, K8sNames DEF ReactorJob, JobForgotten, DispatchSound
  <2> QED BY <2>1, K8sNames, K8sAssumption DEF ReactorJob, JobForgotten, NoJob, ByReactor
<1>4. /\ clusterJob' \in [KhMessages -> 0..(MaxHandlers + 1)] /\ clusterJob'[m] = v
      /\ \A k \in KhMessages : k # m => clusterJob'[k] = clusterJob[k]
  BY <1>r, <1>v, <1>1 DEF K8sRows
<1>5. K8sRows'
  BY <1>r, <1>1, <1>4 DEF K8sRows
<1>6. ASSUME NEW k \in KhMessages PROVE DispatchSound(k)'
  <2>1. CASE k = m
    BY <2>1, <1>r, <1>1, <1>4 DEF DispatchSound
  <2>2. CASE k # m
    BY <2>2, <1>r, <1>1, <1>4, DispatchStays DEF DispatchesSound
  <2> QED BY <2>1, <2>2
<1>7. ASSUME NEW r \in jobRuns' PROVE RunSound(r)'
  <2>1. RunSound(r) /\ r \in jobRuns /\ r.message \in KhMessages
    BY <1>r, <1>1 DEF DispatchesSound, K8sRows, JobRun
  <2>2. CASE r.message # m
    BY <2>1, <2>2, <1>1, <1>4 DEF RunSound
  <2>3. CASE r.message = m
    BY <2>1, <2>3, <1>1, <1>4 DEF RunSound
  <2> QED BY <2>2, <2>3
<1> QED
  BY <1>1, <1>5, <1>6, <1>7, HandlersStay DEF K8sInv, DispatchesSound

LEMMA JobRecorded ==
  ASSUME K8sInv, NEW m \in KhMessages, InsertJobRun(m)
  PROVE  K8sInv'
<1>r. K8sRows /\ DispatchesSound /\ DispatchSound(m) /\ disp[m] \in DispatchRow
  BY DEF K8sInv, DispatchesSound, K8sRows
<1>t. disp[m].todo # <<>> /\ disp[m].made \in {"pending", "failed"} /\ disp[m].todo \in Seq(HandlerIds)
  BY <1>r DEF InsertJobRun, DispatchRow
<1>a. PICK a \in KhAgents : a = disp[m].agent
  BY <1>r, <1>t DEF DispatchSound
<1>h. PICK h \in HandlerIds : h = Head(disp[m].todo)
  BY <1>t
<1>s. PICK status \in {"pending", "failed"} : status = disp[m].made
  BY <1>t
<1>l. PICK todo \in Seq(HandlerIds) : todo = Tail(disp[m].todo)
  <2>1. Tail(disp[m].todo) \in Seq(HandlerIds)
    BY <1>t, HeadTailProperties
  <2> QED BY <2>1
<1> DEFINE rec == [disp[m] EXCEPT !.todo = Tail(@), !.made = "no"]
           run == [handler |-> h, agent |-> a, message |-> m, status |-> status]
<1>1. rec \in DispatchRow /\ rec.agent = a /\ rec.todo = todo /\ rec.made = "no"
  BY <1>r, <1>a, <1>l DEF DispatchRow
<1>2. run \in JobRun /\ run.handler = h /\ run.agent = a /\ run.message = m /\ run.status = status
  BY DEF JobRun
<1>3. /\ disp' = [disp EXCEPT ![m] = rec]
      /\ jobRuns' = IF handler[h] = Gone THEN jobRuns ELSE jobRuns \cup {run}
      /\ UNCHANGED <<handler, nextHandler, khReg, clusterJob, khLost>>
  BY <1>a, <1>h, <1>s, <1>r DEF InsertJobRun, K8sRows
<1> HIDE DEF rec, run
<1>4. /\ disp' \in [KhMessages -> DispatchRow] /\ disp'[m] = rec
      /\ \A k \in KhMessages : k # m => disp'[k] = disp[k]
  BY <1>r, <1>1, <1>3 DEF K8sRows
<1>5. K8sRows'
  BY <1>r, <1>2, <1>3, <1>4 DEF K8sRows
<1>b. jobRuns \subseteq jobRuns' /\ (handler[h] # Gone => run \in jobRuns')
      /\ \A r \in jobRuns' : r \in jobRuns \/ (r = run /\ handler[h] # Gone)
  BY <1>3
<1>d. /\ \A i \in 1..Len(disp[m].todo) : LET g == disp[m].todo[i] IN
            g < nextHandler /\ (handler[g] = Gone \/ handler[g].agent = a)
      /\ status = "pending" => clusterJob[m] = h
      /\ clusterJob[m] \in HandlerIds =>
            /\ clusterJob[m] < nextHandler
            /\ \/ handler[clusterJob[m]] = Gone \/ m \in khLost
               \/ h = clusterJob[m] /\ status = "pending"
               \/ \E r \in jobRuns : r.handler = clusterJob[m] /\ r.message = m /\ r.status = "pending"
  BY <1>r, <1>a, <1>h, <1>s DEF DispatchSound
<1>6. ASSUME NEW k \in KhMessages PROVE DispatchSound(k)'
  <2>1. CASE k = m
    <3>1. \A i \in 1..Len(todo) : LET g == todo[i] IN
            g < nextHandler /\ (handler[g] = Gone \/ handler[g].agent = a)
      <4>1. \A i \in 1..Len(todo) : i + 1 \in 1..Len(disp[m].todo) /\ todo[i] = disp[m].todo[i + 1]
        BY <1>t, <1>l
      <4> QED BY <4>1, <1>d
    <3>2. clusterJob[m] \in HandlerIds =>
            /\ clusterJob[m] < nextHandler
            /\ \/ handler[clusterJob[m]] = Gone \/ m \in khLost
               \/ \E r \in jobRuns' : r.handler = clusterJob[m] /\ r.message = m /\ r.status = "pending"
      BY <1>d, <1>b, <1>2
    <3> QED BY <2>1, <3>1, <3>2, <1>1, <1>3, <1>4, K8sNames DEF DispatchSound
  <2>2. CASE k # m
    BY <2>2, <1>r, <1>b, <1>3, <1>4, DispatchStays DEF DispatchesSound
  <2> QED BY <2>1, <2>2
<1>g. \A r \in jobRuns : RunSound(r) /\ r.message \in KhMessages
  BY <1>r DEF DispatchesSound, K8sRows, JobRun
<1>o. \A r \in jobRuns : r.message = m /\ r.status = "pending" => status # "pending"
  BY <1>g, <1>s DEF RunSound
<1>7. ASSUME NEW r \in jobRuns' PROVE RunSound(r)'
  <2>1. CASE r \in jobRuns
    <3>1. RunSound(r) /\ r.message \in KhMessages
      BY <2>1, <1>g
    <3>2. CASE r.message # m
      BY <3>1, <3>2, <1>2, <1>3, <1>4, <1>b DEF RunSound
    <3>3. CASE r.message = m
      <4>1. r.status = "pending" =>
              /\ clusterJob[m] \in {r.handler, ByReactor, NoJob} /\ clusterJob[m] = r.handler
              /\ \A q \in jobRuns' : q.message = m /\ q.status = "pending" => q = r
        BY <2>1, <3>1, <3>3, <1>t, <1>o, <1>b, <1>2 DEF RunSound
      <4> QED BY <3>1, <3>3, <4>1, <1>1, <1>3, <1>4, K8sNames DEF RunSound
    <3> QED BY <3>2, <3>3
  <2>2. CASE r = run /\ handler[h] # Gone
    <3>1. handler[h].agent = a
      <4>1. 1 \in 1..Len(disp[m].todo) /\ h = disp[m].todo[1]
        BY <1>t, <1>h
      <4> QED BY <4>1, <2>2, <1>d
    <3>2. status = "pending" =>
            /\ clusterJob[m] = h
            /\ \A q \in jobRuns' : q.message = m /\ q.status = "pending" => q = run
      BY <1>d, <1>o, <1>b
    <3> QED BY <2>2, <3>1, <3>2, <1>1, <1>2, <1>3, <1>4, K8sNames DEF RunSound
  <2> QED BY <2>1, <2>2, <1>b
<1> QED
  BY <1>3, <1>5, <1>6, <1>7, HandlersStay DEF K8sInv, DispatchesSound

LEMMA DispatcherCrashed ==
  ASSUME K8sInv, DispatcherCrash
  PROVE  K8sInv'
<1>r. K8sRows /\ HandlersSound /\ DispatchesSound /\ LimitSound
  BY DEF K8sInv
<1>1. /\ khLost' = khLost \cup {m \in KhMessages : disp[m].todo # <<>>}
      /\ disp' = [m \in KhMessages |-> [disp[m] EXCEPT !.todo = <<>>, !.made = "no"]]
      /\ khReg' = [c \in KhCalls |-> NoReg]
      /\ UNCHANGED <<handler, nextHandler, clusterJob, jobRuns>>
  BY DEF DispatcherCrash
<1>2. \A m \in KhMessages : /\ disp'[m] \in DispatchRow /\ disp'[m].agent = disp[m].agent
                            /\ disp'[m].todo = <<>> /\ disp'[m].made = "no"
  <2> SUFFICES ASSUME NEW m \in KhMessages
               PROVE  /\ disp'[m] \in DispatchRow /\ disp'[m].agent = disp[m].agent
                      /\ disp'[m].todo = <<>> /\ disp'[m].made = "no"
    OBVIOUS
  <2>1. disp[m] \in DispatchRow /\ disp'[m] = [disp[m] EXCEPT !.todo = <<>>, !.made = "no"]
    BY <1>r, <1>1 DEF K8sRows
  <2>2. <<>> \in Seq(HandlerIds)
    OBVIOUS
  <2> QED BY <2>1, <2>2 DEF DispatchRow
<1>3. K8sRows'
  <2>1. disp' \in [KhMessages -> DispatchRow]
    BY <1>1, <1>2
  <2>2. khReg' \in [KhCalls -> Registration]
    BY <1>1, K8sNames
  <2> QED BY <1>r, <1>1, <2>1, <2>2 DEF K8sRows
<1>4. HandlersSound'
  BY <1>r, <1>1 DEF HandlersSound
<1>5. ASSUME NEW m \in KhMessages PROVE DispatchSound(m)'
  <2>1. DispatchSound(m)
    BY <1>r DEF DispatchesSound
  <2>2. Len(disp'[m].todo) = 0 /\ 1..0 = {}
    BY <1>2
  <2>3. clusterJob[m] \in HandlerIds =>
          /\ clusterJob[m] < nextHandler
          /\ \/ handler[clusterJob[m]] = Gone \/ m \in khLost'
             \/ \E r \in jobRuns : r.handler = clusterJob[m] /\ r.message = m /\ r.status = "pending"
    BY <2>1, <1>1 DEF DispatchSound
  <2>4. disp[m].agent = NoName => clusterJob[m] = NoJob
    BY <2>1 DEF DispatchSound
  <2> QED BY <2>2, <2>3, <2>4, <1>1, <1>2 DEF DispatchSound
<1>6. ASSUME NEW r \in jobRuns' PROVE RunSound(r)'
  <2>1. RunSound(r) /\ r \in jobRuns /\ r.message \in KhMessages
    BY <1>r, <1>1 DEF DispatchesSound, K8sRows, JobRun
  <2> QED BY <2>1, <1>1, <1>2 DEF RunSound
<1>7. LimitSound'
  <2> SUFFICES ASSUME NEW b \in KhAgents
               PROVE  Cardinality(HandlersOf(b)') + Cardinality(Registering(b)')
                         <= MaxHandlersPerAgent - 1 + Cardinality(KhCalls)
    BY DEF LimitSound
  <2>1. HandlersOf(b)' = HandlersOf(b) /\ Registering(b)' = {}
    BY <1>1, K8sNames DEF HandlersOf, Registering
  <2>2. Cardinality(Registering(b)') = 0
    BY <2>1, FS_EmptySet
  <2> QED BY <1>r, <2>1, <2>2, K8sFinite, K8sAssumption DEF LimitSound
<1> QED
  BY <1>3, <1>4, <1>5, <1>6, <1>7 DEF K8sInv, DispatchesSound

LEMMA K8sStep == K8sInv /\ [K8sNext]_khVars => K8sInv'
<1> SUFFICES ASSUME K8sInv, [K8sNext]_khVars PROVE K8sInv'
  OBVIOUS
<1>1. CASE UNCHANGED khVars
  <2>1. K8sRows'
    BY <1>1 DEF khVars, K8sInv, K8sRows
  <2>2. DispatchesSound'
    BY <1>1 DEF khVars, K8sInv, DispatchesSound, DispatchSound, RunSound
  <2> QED BY <1>1, <2>1, <2>2, HandlersStay DEF khVars, K8sInv
<1>2. ASSUME NEW m \in KhMessages, CreateJob(m, TRUE) \/ CreateJob(m, FALSE) PROVE K8sInv'
  BY <1>2, JobCreated
<1> QED
  BY <1>1, <1>2, Registers, HandlerInserted, HandlerDeleted, Dispatches, JobRecorded, JobAfterDispatch,
     DispatcherCrashed DEF K8sNext, handleK8sRegister

LEMMA K8sInvSafe == K8sInv => K8sSafe
<1> SUFFICES ASSUME K8sInv PROVE K8sSafe
  OBVIOUS
<1>r. K8sRows /\ HandlersSound /\ DispatchesSound /\ LimitSound
  BY DEF K8sInv
<1>g. \A r \in jobRuns : RunSound(r) /\ r \in JobRun
  BY <1>r DEF DispatchesSound, K8sRows
<1>1. K8sTypeOK
  BY <1>r DEF K8sRows, JobRun, K8sTypeOK
<1>2. RunsHaveHandler
  <2> SUFFICES ASSUME NEW r \in jobRuns
               PROVE  /\ handler[r.handler].agent = r.agent
                      /\ \A o \in {OwnedBy[a] : a \in KhAgents}, s \in {NoName, "pending", "failed"} :
                            r \in ListJobRuns(o, NoName, s) =>
                              r.handler \in ListHandlers(o, NoName) \cap handleK8sList(NoName)
    BY DEF RunsHaveHandler
  <2>1. /\ handler[r.handler].agent = r.agent /\ r.handler \in HandlerIds /\ r.agent \in KhAgents
        /\ r.handler \in HandlersOf(r.agent)
    BY <1>g DEF RunSound, JobRun, HandlersOf
  <2>2. r.handler \in handleK8sList(NoName)
    BY <2>1 DEF handleK8sList
  <2>3. ASSUME NEW o, NEW s, r \in ListJobRuns(o, NoName, s) PROVE r.handler \in ListHandlers(o, NoName)
    <3>1. PICK a \in AgentsOf(o) : r \in GetJobRunsByAgent(a, s)
      BY <2>3 DEF ListJobRuns
    <3>2. r.agent = a
      BY <3>1 DEF GetJobRunsByAgent
    <3> QED BY <2>1, <3>1, <3>2 DEF ListHandlers
  <2> QED BY <2>1, <2>2, <2>3
<1>3. JobsRecorded
  BY <1>r DEF DispatchesSound, DispatchSound, JobsRecorded
<1>4. LogsAreOwn
  <2>1. ASSUME NEW r \in jobRuns, NEW q \in jobRuns, r.message = q.message, {r.status, q.status} = {"pending"}
        PROVE  r = q
    <3>1. r.status = "pending" /\ q.status = "pending"
      BY <2>1
    <3> QED BY <3>1, <2>1, <1>g DEF RunSound
  <2>2. ASSUME NEW a \in KhAgents, NEW r \in jobRuns, JobRunLogs(OwnedBy[a], r)
        PROVE  clusterJob[r.message] \in {r.handler, ByReactor}
    BY <2>2, <1>g DEF RunSound, JobRunLogs
  <2> QED BY <2>1, <2>2 DEF LogsAreOwn
<1>5. HandlersBounded
  <2> SUFFICES ASSUME NEW a \in KhAgents
               PROVE  /\ \A h, g \in HandlersOf(a) : handler[h].image = handler[g].image => h = g
                      /\ Cardinality(HandlersOf(a)) < MaxHandlersPerAgent + Cardinality(KhCalls)
    BY DEF HandlersBounded
  <2>1. \A h, g \in HandlersOf(a) : handler[h].image = handler[g].image => h = g
    BY <1>r DEF HandlersSound, HandlersOf
  <2> QED BY <2>1, <1>r, K8sFinite, K8sAssumption DEF LimitSound
<1> QED
  BY <1>1, <1>2, <1>3, <1>4, <1>5 DEF K8sSafe

\* Kubernetes handlers, for any agents, images, messages and limits: every Job
\* is on record under its owner, the logs shown are its own, and the limit is
\* passed by less than the number of concurrent registrations.
THEOREM K8sCorrect == K8sSpec => []K8sSafe
<1>1. K8sInit => K8sInv
  BY K8sInitInv
<1>2. K8sInv /\ [K8sNext]_khVars => K8sInv'
  BY K8sStep
<1>3. K8sInv => K8sSafe
  BY K8sInvSafe
<1> QED
  BY <1>1, <1>2, <1>3, PTL DEF K8sSpec

-----------------------------------------------------------------------------
(* Goals: slugs, trees, claims and costs.                                  *)

GlSlug == Titles \X (1..MaxSlug)
GlStatus == {"draft", "active", "paused", "stuck"} \union GoalOver
TkStatus == {"approved", "claimed", "in_progress", "awaiting_verification"} \union TaskOver
GlRow == [slug : GlSlug, owner : GoalUsers, root : Nat, status : GlStatus]
TkRow == [goal : Nat, parent : Nat, ancestry : Seq(Nat), depth : Nat, status : TkStatus,
          assignee : Workers \union {"none"}, byHand : BOOLEAN, spent : Nat, code : Codes \union {DefaultCode, Unbilled}]

GlCreate == [pc : {"channel", "insert"}, slug : GlSlug, user : GoalUsers]
GlRoot == [pc : {"root"}, goal : Nat, root : Nat]
GlActivate == [pc : {"activate"}, goal : Nat]
GlWrite == [pc : {"status"}, goal : Nat, to : GlStatus, ends : BOOLEAN]
TkStart == [pc : {"start"}, task : Nat]
TkWrite == [pc : {"task"}, task : Nat, to : TkStatus \ {"approved"}]
GlCall == {NoCall} \union GlCreate \union GlRoot \union GlActivate \union GlWrite \union TkStart \union TkWrite

GlTables ==
  /\ goals \in Seq(GlRow) /\ gtasks \in Seq(TkRow)
  /\ glCalls \in [GoalCalls -> GlCall]

\* What rows and calls refer to exists; the root of a goal is a root of its own.
GlRefers ==
  /\ \A g \in 1..Len(goals) :
       \/ goals[g].root = 0
       \/ /\ goals[g].root \in 1..Len(gtasks)
          /\ gtasks[goals[g].root].goal = g /\ gtasks[goals[g].root].parent = 0
  /\ \A t \in 1..Len(gtasks) : gtasks[t].goal \in 1..Len(goals) /\ gtasks[t].parent \in 0..(t - 1)
  /\ \A c \in GoalCalls :
       /\ glCalls[c].pc \in {"root", "activate", "status"} => glCalls[c].goal \in 1..Len(goals)
       /\ glCalls[c].pc = "root" => /\ glCalls[c].root \in 1..Len(gtasks)
                                    /\ gtasks[glCalls[c].root].goal = glCalls[c].goal
                                    /\ gtasks[glCalls[c].root].parent = 0
       /\ glCalls[c].pc \in {"start", "task"} => glCalls[c].task \in 1..Len(gtasks)

\* A channel has its goal, or a call that will insert it, or was left behind.
GlChannels ==
  /\ \A c \in GoalCalls : glCalls[c].pc = "insert" => glCalls[c].slug \in goalChannels
  /\ \A slug \in goalChannels :
       \/ SlugExists(slug) \/ slug[1] \in stranded
       \/ \E c \in GoalCalls : glCalls[c].pc = "insert" /\ glCalls[c].slug = slug

\* The ancestors of a task are tasks of its goal, and the first is a root.
GlLines ==
  \A t \in 1..Len(gtasks) :
    /\ \A k \in 1..Len(gtasks[t].ancestry) :
         gtasks[t].ancestry[k] \in 1..(t - 1) /\ gtasks[gtasks[t].ancestry[k]].goal = gtasks[t].goal
    /\ gtasks[t].parent # 0 => /\ Len(gtasks[t].ancestry) > 0
                               /\ gtasks[gtasks[t].ancestry[1]].parent = 0

\* The task has an agent, or was made claimed without one.
Begun(t) == gtasks[t].assignee # "none" \/ gtasks[t].byHand

\* A call that is about to move a task on has seen it claimed.
GlJudged ==
  \A c \in GoalCalls :
    glCalls[c].pc = "task" /\ glCalls[c].to \notin {"cancelled", "claimed"} => Begun(glCalls[c].task)

GoalsInv ==
  GlTables /\ GlRefers /\ GlChannels /\ GlLines /\ GlJudged /\ SlugsApart /\ TreesSound /\ WorkHasAssignee

LEMMA GlRows ==
  ASSUME GlTables
  PROVE  /\ \A g \in 1..Len(goals) : goals[g] \in GlRow
         /\ \A t \in 1..Len(gtasks) : gtasks[t] \in TkRow
         /\ Len(goals) \in Nat /\ Len(gtasks) \in Nat
BY DEF GlTables

LEMMA GlKinds ==
  ASSUME NEW q \in GlCall
  PROVE  /\ q.pc = "idle" <=> q = NoCall
         /\ q.pc \in {"channel", "insert"} => q \in GlCreate
         /\ q.pc = "root" => q \in GlRoot
         /\ q.pc = "activate" => q \in GlActivate
         /\ q.pc = "status" => q \in GlWrite
         /\ q.pc = "start" => q \in TkStart
         /\ q.pc = "task" => q \in TkWrite
BY DEF GlCall, NoCall, GlCreate, GlRoot, GlActivate, GlWrite, TkStart, TkWrite

-----------------------------------------------------------------------------
(* The ancestry of a tree's nodes: a function with this recursion exists.   *)

Lined(f, m, tree, base) ==
  f = [n \in 0..m |-> IF n = 0 \/ tree[n].up = 0 THEN <<>> ELSE Append(f[tree[n].up], base + tree[n].up)]

LEMMA TreeNodes ==
  ASSUME NEW tree \in Trees
  PROVE  /\ Len(tree) \in Nat /\ Len(tree) > 0 /\ tree \in Seq([up : Nat, code : Codes \union {Unbilled}])
         /\ \A n \in 1..Len(tree) : /\ tree[n].up \in Nat /\ tree[n].up < n /\ (tree[n].up = 0 <=> n = 1)
                                    /\ tree[n].code \in Codes \union {Unbilled}
<1>1. tree \in Seq([up : Nat, code : Codes \union {Unbilled}]) /\ tree # <<>>
  BY GoalsAssumption
<1>2. \A n \in 1..Len(tree) : tree[n] \in [up : Nat, code : Codes \union {Unbilled}]
  BY <1>1, ElementOfSeq
<1>3. Len(tree) \in Nat /\ Len(tree) > 0
  BY <1>1, EmptySeq
<1> QED
  <2>1. \A n \in 1..Len(tree) : tree[n].up < n /\ (tree[n].up = 0 <=> n = 1)
    BY GoalsAssumption
  <2> QED
    BY <1>1, <1>2, <1>3, <2>1

\* Take the shortest beginning of the tree that has none.
LEMMA LinedExists ==
  ASSUME NEW tree \in Trees, NEW base
  PROVE  \E f : Lined(f, Len(tree), tree, base)
<1> DEFINE B == {m \in Nat : m <= Len(tree) /\ ~ \E f : Lined(f, m, tree, base)}
<1> SUFFICES ASSUME ~ \E f : Lined(f, Len(tree), tree, base) PROVE FALSE
  OBVIOUS
<1>1. Len(tree) \in B
  BY TreeNodes
<1>2. PICK m \in B : \A k \in B : m <= k
  BY <1>1, LeastNatural
<1>3. m \in Nat /\ m <= Len(tree) /\ ~ \E f : Lined(f, m, tree, base)
  BY <1>2
<1>4. m # 0
  <2> SUFFICES ASSUME m = 0 PROVE FALSE
    OBVIOUS
  <2> DEFINE h == [n \in 0..0 |-> <<>>]
  <2>1. Lined(h, 0, tree, base)
    BY DEF Lined
  <2> QED
    BY <1>3, <2>1
<1>5. m - 1 \in Nat /\ m - 1 \notin B
  <2> HIDE DEF B
  <2> QED
    BY <1>2, <1>3, <1>4
<1>6. PICK f : Lined(f, m - 1, tree, base)
  BY <1>3, <1>5
<1> DEFINE r == IF tree[m].up = 0 THEN <<>> ELSE Append(f[tree[m].up], base + tree[m].up)
           h == [n \in 0..m |-> IF n = m THEN r ELSE f[n]]
<1>7. \A n \in 0..(m - 1) : f[n] = IF n = 0 \/ tree[n].up = 0 THEN <<>> ELSE Append(f[tree[n].up], base + tree[n].up)
  BY <1>6 DEF Lined
<1>8. \A n \in 0..m : n # 0 => tree[n].up \in Nat /\ tree[n].up < n /\ n <= Len(tree)
  <2>1. \A n \in 0..m : n # 0 => n \in 1..Len(tree)
    BY <1>3, TreeNodes
  <2> QED
    BY <1>3, <2>1, TreeNodes
<1> HIDE DEF r
<1>9. ASSUME NEW n \in 0..m
      PROVE  h[n] = IF n = 0 \/ tree[n].up = 0 THEN <<>> ELSE Append(h[tree[n].up], base + tree[n].up)
  <2>1. CASE n = 0
    BY <1>3, <1>4, <1>7, <2>1
  <2>2. CASE n # 0
    <3>1. tree[n].up \in 0..m /\ tree[n].up # m /\ tree[n].up < n
      BY <1>3, <1>8, <2>2
    <3>2. h[tree[n].up] = f[tree[n].up]
      BY <3>1
    <3>3. CASE n = m
      BY <2>2, <3>2, <3>3 DEF r
    <3>4. CASE n # m
      <4>1. n \in 0..(m - 1) /\ h[n] = f[n]
        BY <1>3, <3>4
      <4> QED
        BY <1>7, <2>2, <3>2, <4>1
    <3> QED
      BY <3>3, <3>4
  <2> QED
    BY <2>1, <2>2
<1>10. h = [n \in 0..m |-> h[n]]
  OBVIOUS
<1> HIDE DEF h
<1>11. Lined(h, m, tree, base)
  BY <1>9, <1>10 DEF Lined
<1> QED
  BY <1>3, <1>11

LEMMA AncestryStep ==
  ASSUME NEW tree \in Trees, NEW base
  PROVE  \A n \in 1..Len(tree) :
           ancestry(tree, base)[n] = IF tree[n].up = 0 THEN <<>>
                                     ELSE Append(ancestry(tree, base)[tree[n].up], base + tree[n].up)
<1>1. ancestry(tree, base) = CHOOSE f : Lined(f, Len(tree), tree, base)
  BY DEF ancestry, Lined
<1>2. Lined(ancestry(tree, base), Len(tree), tree, base)
  BY <1>1, LinedExists
<1>3. \A n \in 1..Len(tree) : n \in 0..Len(tree) /\ n # 0
  BY TreeNodes
<1> QED
  BY <1>2, <1>3 DEF Lined

\* The line of a node: it begins at the root and stays within the tree.
LEMMA AncestryLine ==
  ASSUME NEW tree \in Trees, NEW base \in Nat, NEW n \in 1..Len(tree)
  PROVE  LET line == ancestry(tree, base)[n] IN
         /\ line \in Seq(Nat)
         /\ \A k \in 1..Len(line) : line[k] \in (base + 1)..(base + n - 1)
         /\ n = 1 => line = <<>>
         /\ n # 1 => Len(line) > 0 /\ line[1] = base + 1
<1> DEFINE Good(m) == /\ ancestry(tree, base)[m] \in Seq(Nat)
                      /\ \A k \in 1..Len(ancestry(tree, base)[m]) :
                           ancestry(tree, base)[m][k] \in (base + 1)..(base + m - 1)
                      /\ m = 1 => ancestry(tree, base)[m] = <<>>
                      /\ m # 1 => Len(ancestry(tree, base)[m]) > 0 /\ ancestry(tree, base)[m][1] = base + 1
           B == {m \in Nat : m \in 1..Len(tree) /\ ~Good(m)}
<1> SUFFICES ASSUME ~Good(n) PROVE FALSE
  BY Zenon
<1>1. n \in B
  BY TreeNodes
<1>2. PICK m \in B : \A k \in B : m <= k
  BY <1>1, LeastNatural
<1>3. m \in Nat /\ m \in 1..Len(tree) /\ ~Good(m)
  BY <1>2
<1> DEFINE u == tree[m].up
           lu == ancestry(tree, base)[u]
           lm == ancestry(tree, base)[m]
<1>4. /\ u \in Nat /\ u < m /\ (u = 0 <=> m = 1)
      /\ lm = IF u = 0 THEN <<>> ELSE Append(lu, base + u)
  BY <1>3, TreeNodes, AncestryStep
<1>5. CASE m = 1
  BY <1>3, <1>4, <1>5
<1>6. CASE m # 1
  <2>1. u \in 1..Len(tree) /\ Len(tree) \in Nat
    <3>1. Len(tree) \in Nat
      BY TreeNodes
    <3> HIDE DEF u, lu, lm, Good, B
    <3> QED
      BY <1>3, <1>4, <1>6, <3>1
  <2>2. u \notin B
    <3> HIDE DEF B, u
    <3> QED
      BY <1>2, <1>3, <1>4
  <2>3. Good(u)
    <3> HIDE DEF Good, u
    <3> QED
      BY <1>4, <2>1, <2>2
  <2>4. /\ lu \in Seq(Nat) /\ Len(lu) \in Nat
        /\ \A k \in 1..Len(lu) : lu[k] \in (base + 1)..(base + u - 1)
        /\ u = 1 => lu = <<>>
        /\ u # 1 => Len(lu) > 0 /\ lu[1] = base + 1
    BY <2>3
  <2>5. lm = Append(lu, base + u)
    BY <1>4, <1>6
  <2> HIDE DEF lu, u, Good
  <2>6. /\ lm \in Seq(Nat) /\ Len(lm) = Len(lu) + 1 /\ lm[Len(lu) + 1] = base + u
        /\ \A k \in 1..Len(lu) : lm[k] = lu[k]
    BY <1>4, <2>4, <2>5
  <2> HIDE DEF lm
  <2>7. \A k \in 1..Len(lm) : lm[k] \in (base + 1)..(base + m - 1)
    <3> SUFFICES ASSUME NEW k \in 1..Len(lm) PROVE lm[k] \in (base + 1)..(base + m - 1)
      OBVIOUS
    <3>1. CASE k = Len(lu) + 1
      BY <1>3, <1>4, <1>6, <2>6, <3>1
    <3>2. CASE k # Len(lu) + 1
      <4>1. k \in 1..Len(lu)
        BY <2>4, <2>6, <3>2
      <4>2. lm[k] \in (base + 1)..(base + u - 1)
        BY <2>4, <2>6, <4>1
      <4> QED
        BY <1>3, <1>4, <4>2
    <3> QED
      BY <3>1, <3>2
  <2>8. Len(lm) > 0 /\ lm[1] = base + 1
    <3>1. CASE u = 1
      <4>1. Len(lu) = 0
        BY <2>4, <3>1
      <4> QED
        BY <2>6, <3>1, <4>1
    <3>2. CASE u # 1
      <4>1. 1 \in 1..Len(lu)
        BY <2>4, <3>2
      <4> QED
        BY <2>4, <2>6, <3>2, <4>1
    <3> QED
      BY <3>1, <3>2
  <2>9. Good(m)
    BY <1>6, <2>6, <2>7, <2>8 DEF Good, lm
  <2> QED
    BY <1>3, <2>9
<1> QED
  BY <1>5, <1>6

-----------------------------------------------------------------------------
(* The steps.                                                              *)

LEMMA GlInitInv == GoalsInit => GoalsInv
<1> SUFFICES ASSUME GoalsInit PROVE GoalsInv
  OBVIOUS
<1> USE DEF GoalsInit
<1>0. Len(goals) = 0 /\ Len(gtasks) = 0 /\ 1..0 = {} /\ NoCall.pc = "idle" /\ NoCall \in GlCall
  BY DEF NoCall, GlCall
<1>1. GlTables
  BY <1>0 DEF GlTables
<1>2. GlRefers /\ GlChannels /\ GlLines /\ GlJudged
  BY <1>0 DEF GlRefers, GlChannels, GlLines, GlJudged
<1>3. SlugsApart /\ TreesSound /\ WorkHasAssignee
  BY <1>0 DEF SlugsApart, TreesSound, WorkHasAssignee
<1> QED
  BY <1>1, <1>2, <1>3 DEF GoalsInv

\* A call may go on to q: what q refers to exists.
MayBe(q) ==
  /\ q \in GlCall
  /\ q.pc \in {"root", "activate", "status"} => q.goal \in 1..Len(goals)
  /\ q.pc = "root" => /\ q.root \in 1..Len(gtasks)
                      /\ gtasks[q.root].goal = q.goal /\ gtasks[q.root].parent = 0
  /\ q.pc \in {"start", "task"} => q.task \in 1..Len(gtasks)
  /\ q.pc = "task" /\ q.to \notin {"cancelled", "claimed"} => Begun(q.task)

\* Tasks keep their place in their trees and whoever has them.
TasksKept ==
  /\ gtasks' \in Seq(TkRow) /\ Len(gtasks') = Len(gtasks)
  /\ \A t \in 1..Len(gtasks) :
       /\ gtasks'[t].goal = gtasks[t].goal /\ gtasks'[t].parent = gtasks[t].parent
       /\ gtasks'[t].ancestry = gtasks[t].ancestry /\ gtasks'[t].depth = gtasks[t].depth
       /\ gtasks[t].assignee # "none" => gtasks'[t].assignee # "none"
       /\ gtasks[t].byHand => gtasks'[t].byHand

LEMMA NoCallMayBe == GlTables => MayBe(NoCall) /\ NoCall.pc = "idle"
BY DEF MayBe, NoCall, GlCall

\* A step on a task, or only on a call.
LEMMA GlTaskStep ==
  ASSUME GoalsInv, NEW c \in GoalCalls, NEW q, MayBe(q), glCalls' = [glCalls EXCEPT ![c] = q],
         q.pc = "insert" \/ glCalls[c].pc = "insert" => q = glCalls[c],
         TasksKept, WorkHasAssignee', UNCHANGED <<goals, goalChannels, stranded>>
  PROVE  GoalsInv'
<1> USE DEF GoalsInv
<1>1. GlTables'
  BY DEF GlTables, TasksKept, MayBe
<1>2. glCalls'[c] = q /\ \A d \in GoalCalls : d # c => glCalls'[d] = glCalls[d]
  BY DEF GlTables
<1>3. \A d \in GoalCalls : MayBe(glCalls'[d])
  BY <1>2 DEF GlTables, GlRefers, GlJudged, MayBe
<1>4. GlRefers'
  <2>1. \A t \in 1..Len(gtasks) : gtasks'[t].goal = gtasks[t].goal /\ gtasks'[t].parent = gtasks[t].parent
    BY DEF TasksKept
  <2>2. Len(gtasks') = Len(gtasks)
    BY DEF TasksKept
  <2>3. \A g \in 1..Len(goals) :
          \/ goals[g].root = 0
          \/ /\ goals[g].root \in 1..Len(gtasks)
             /\ gtasks'[goals[g].root].goal = g /\ gtasks'[goals[g].root].parent = 0
    BY <2>1 DEF GlRefers
  <2>4. \A t \in 1..Len(gtasks) : gtasks'[t].goal \in 1..Len(goals) /\ gtasks'[t].parent \in 0..(t - 1)
    BY <2>1 DEF GlRefers
  <2>5. \A d \in GoalCalls :
          /\ glCalls'[d].pc \in {"root", "activate", "status"} => glCalls'[d].goal \in 1..Len(goals)
          /\ glCalls'[d].pc = "root" => /\ glCalls'[d].root \in 1..Len(gtasks)
                                        /\ gtasks'[glCalls'[d].root].goal = glCalls'[d].goal
                                        /\ gtasks'[glCalls'[d].root].parent = 0
          /\ glCalls'[d].pc \in {"start", "task"} => glCalls'[d].task \in 1..Len(gtasks)
    BY <1>3, <2>1 DEF MayBe
  <2> QED
    BY <2>2, <2>3, <2>4, <2>5 DEF GlRefers
<1>5. GlChannels'
  <2>1. \A d \in GoalCalls : glCalls'[d].pc = "insert" \/ glCalls[d].pc = "insert" => glCalls'[d] = glCalls[d]
    BY <1>2
  <2> QED
    BY <2>1 DEF GlChannels, SlugExists
<1>6. GlLines'
  <2>1. \A t \in 1..Len(gtasks) : /\ gtasks'[t].goal = gtasks[t].goal /\ gtasks'[t].parent = gtasks[t].parent
                                  /\ gtasks'[t].ancestry = gtasks[t].ancestry
    BY DEF TasksKept
  <2>2. \A t \in 1..Len(gtasks) : t \in Nat /\ 1..(t - 1) \subseteq 1..Len(gtasks)
    BY GlRows
  <2>3. \A t \in 1..Len(gtasks) : \A k \in 1..Len(gtasks[t].ancestry) : gtasks[t].ancestry[k] \in 1..Len(gtasks)
    BY <2>2 DEF GlLines
  <2>4. \A t \in 1..Len(gtasks) : gtasks[t].parent # 0 => 1 \in 1..Len(gtasks[t].ancestry)
    BY GlRows DEF GlLines, TkRow
  <2> SUFFICES ASSUME NEW t \in 1..Len(gtasks)
               PROVE  /\ \A k \in 1..Len(gtasks'[t].ancestry) :
                           /\ gtasks'[t].ancestry[k] \in 1..(t - 1)
                           /\ gtasks'[gtasks'[t].ancestry[k]].goal = gtasks'[t].goal
                      /\ gtasks'[t].parent # 0 => /\ Len(gtasks'[t].ancestry) > 0
                                                  /\ gtasks'[gtasks'[t].ancestry[1]].parent = 0
    BY DEF GlLines, TasksKept
  <2>5. ASSUME NEW k \in 1..Len(gtasks[t].ancestry)
        PROVE  gtasks[t].ancestry[k] \in 1..(t - 1) /\ gtasks'[gtasks[t].ancestry[k]].goal = gtasks[t].goal
    BY <2>1, <2>3 DEF GlLines
  <2>6. gtasks[t].parent # 0 => Len(gtasks[t].ancestry) > 0 /\ gtasks'[gtasks[t].ancestry[1]].parent = 0
    BY <2>1, <2>3, <2>4 DEF GlLines
  <2> QED
    BY <2>1, <2>5, <2>6
<1>31. \A t \in 1..Len(gtasks) : Begun(t) => gtasks'[t].assignee # "none" \/ gtasks'[t].byHand
  BY DEF Begun, TasksKept
<1>7. GlJudged'
  BY <1>3, <1>31 DEF GlJudged, MayBe, Begun
<1>8. SlugsApart'
  BY DEF SlugsApart
<1>9. TreesSound'
  <2>1. \A t \in 1..Len(gtasks) : gtasks[t].parent # 0 => gtasks[t].parent \in 1..Len(gtasks)
    BY GlRows DEF GlRefers
  <2> SUFFICES ASSUME NEW t \in 1..Len(gtasks)
               PROVE  /\ gtasks'[t].depth = Len(gtasks'[t].ancestry)
                      /\ IF gtasks'[t].parent = 0 THEN gtasks'[t].ancestry = <<>>
                         ELSE /\ gtasks'[t].ancestry = Append(gtasks'[gtasks'[t].parent].ancestry, gtasks'[t].parent)
                              /\ gtasks'[gtasks'[t].parent].goal = gtasks'[t].goal
    BY DEF TreesSound, TasksKept
  <2>2. /\ gtasks'[t].goal = gtasks[t].goal /\ gtasks'[t].parent = gtasks[t].parent
        /\ gtasks'[t].ancestry = gtasks[t].ancestry /\ gtasks'[t].depth = gtasks[t].depth
    BY DEF TasksKept
  <2>3. gtasks[t].parent # 0 => /\ gtasks'[gtasks[t].parent].ancestry = gtasks[gtasks[t].parent].ancestry
                                /\ gtasks'[gtasks[t].parent].goal = gtasks[gtasks[t].parent].goal
    BY <2>1 DEF TasksKept
  <2> QED
    BY <2>2, <2>3 DEF TreesSound
<1> QED
  BY <1>1, <1>4, <1>5, <1>6, <1>7, <1>8, <1>9

LEMMA GlCallStep ==
  ASSUME GoalsInv, NEW c \in GoalCalls, NEW q, MayBe(q), glCalls' = [glCalls EXCEPT ![c] = q],
         q.pc = "insert" \/ glCalls[c].pc = "insert" => q = glCalls[c],
         UNCHANGED <<goals, goalChannels, gtasks, stranded>>
  PROVE  GoalsInv'
<1>1. TasksKept
  BY DEF TasksKept, GoalsInv, GlTables
<1>2. WorkHasAssignee'
  BY DEF GoalsInv, WorkHasAssignee
<1> QED
  BY <1>1, <1>2, GlTaskStep

\* A step on the status or the root of a goal, after which the call goes on.
LEMMA GlGoalStep ==
  ASSUME GoalsInv, NEW c \in GoalCalls, NEW q, MayBe(q), glCalls' = [glCalls EXCEPT ![c] = q],
         q.pc # "insert", glCalls[c].pc # "insert",
         goals' \in Seq(GlRow), Len(goals') = Len(goals),
         \A g \in 1..Len(goals) :
           /\ goals'[g].slug = goals[g].slug
           /\ \/ goals'[g].root = goals[g].root
              \/ /\ goals'[g].root \in 1..Len(gtasks)
                 /\ gtasks[goals'[g].root].goal = g /\ gtasks[goals'[g].root].parent = 0,
         UNCHANGED <<goalChannels, gtasks, stranded>>
  PROVE  GoalsInv'
<1> USE DEF GoalsInv
<1>1. GlTables'
  BY DEF GlTables, MayBe
<1>2. glCalls'[c] = q /\ \A d \in GoalCalls : d # c => glCalls'[d] = glCalls[d]
  BY DEF GlTables
<1>3. \A d \in GoalCalls : MayBe(glCalls'[d])
  BY <1>2 DEF GlTables, GlRefers, GlJudged, MayBe
<1>4. GlRefers'
  BY <1>3 DEF GlRefers, MayBe
<1>5. GlChannels'
  <2>1. \A d \in GoalCalls : glCalls'[d].pc = "insert" \/ glCalls[d].pc = "insert" => glCalls'[d] = glCalls[d]
    BY <1>2
  <2> QED
    BY <2>1 DEF GlChannels, SlugExists
<1>6. GlLines' /\ TreesSound'
  BY DEF GlLines, TreesSound
<1>61. WorkHasAssignee'
  BY DEF WorkHasAssignee
<1>7. GlJudged'
  BY <1>3 DEF GlJudged, MayBe, Begun
<1>8. SlugsApart'
  BY DEF SlugsApart
<1> QED
  BY <1>1, <1>4, <1>5, <1>6, <1>61, <1>7, <1>8

\* The first free number, or the last.
LEMMA FreeSlugIs ==
  ASSUME NEW title \in Titles
  PROVE  /\ FreeSlug(title) \in GlSlug /\ FreeSlug(title)[1] = title
         /\ SlugExists(FreeSlug(title)) => SlugExists(<<title, MaxSlug>>)
<1> DEFINE free == {i \in 1..MaxSlug : ~SlugExists(<<title, i>>)}
           n == IF free = {} THEN MaxSlug ELSE Min(free)
<1>1. FreeSlug(title) = <<title, n>>
  BY DEF FreeSlug
<1>2. MaxSlug \in Nat /\ MaxSlug >= 1
  BY GoalsAssumption
<1>3. free # {} => Min(free) \in free
  <2>1. free \subseteq Nat
    BY <1>2
  <2> HIDE DEF free
  <2> QED
    BY <2>1, MinOf
<1>4. n \in 1..MaxSlug
  BY <1>2, <1>3
<1>5. SlugExists(<<title, n>>) => n = MaxSlug
  BY <1>3
<1> HIDE DEF n
<1> QED
  BY <1>1, <1>4, <1>5 DEF GlSlug

LEMMA GlCreateStep ==
  ASSUME GoalsInv, NEW c \in GoalCalls, NEW title \in Titles, NEW u \in GoalUsers,
         handleCreateGoal(c, title, u)
  PROVE  GoalsInv'
<1> DEFINE q == [pc |-> "channel", slug |-> FreeSlug(title), user |-> u]
<1>1. /\ glCalls[c] = NoCall /\ glCalls' = [glCalls EXCEPT ![c] = q]
      /\ UNCHANGED <<goals, goalChannels, gtasks, stranded>>
  BY DEF handleCreateGoal, CreateGoal, Continue
<1>2. q \in GlCreate /\ q.pc = "channel"
  BY FreeSlugIs DEF GlCreate
<1> HIDE DEF q
<1>3. MayBe(q)
  BY <1>2 DEF MayBe, GlCall
<1>4. glCalls[c].pc = "idle"
  BY <1>1 DEF NoCall
<1> QED
  BY <1>1, <1>2, <1>3, <1>4, GlCallStep

LEMMA GlChannelStep ==
  ASSUME GoalsInv, NEW c \in GoalCalls, CreateGoalChannel(c)
  PROVE  GoalsInv'
<1> USE DEF GoalsInv
<1> DEFINE p == glCalls[c]
           r == [p EXCEPT !.pc = "insert"]
           q == IF p.slug \in goalChannels THEN NoCall ELSE r
<1>1. /\ p.pc = "channel" /\ goalChannels' = goalChannels \union {p.slug}
      /\ glCalls' = [glCalls EXCEPT ![c] = q] /\ UNCHANGED <<goals, gtasks, stranded>>
  BY DEF CreateGoalChannel, Continue
<1>2. p \in GlCreate
  BY <1>1, GlKinds DEF GlTables
<1>3. r \in GlCreate /\ r.pc = "insert" /\ r.slug = p.slug
  BY <1>2 DEF GlCreate
<1>4. q \in GlCall /\ q.pc \in {"idle", "insert"} /\ (q.pc = "insert" => q.slug = p.slug)
      /\ (p.slug \notin goalChannels => q.pc = "insert")
  <2>1. NoCall.pc = "idle"
    BY DEF NoCall
  <2> QED
    BY <1>3, <2>1 DEF GlCall
<1> HIDE DEF q
<1>5. glCalls'[c] = q /\ \A d \in GoalCalls : d # c => glCalls'[d] = glCalls[d]
  BY <1>1 DEF GlTables
<1>6. GlTables'
  BY <1>1, <1>4 DEF GlTables
<1>7. GlRefers' /\ GlJudged'
  BY <1>1, <1>4, <1>5 DEF GlRefers, GlJudged, Begun
<1>8. GlChannels'
  <2>1. \A d \in GoalCalls : glCalls'[d].pc = "insert" => glCalls'[d].slug \in goalChannels'
    BY <1>1, <1>4, <1>5 DEF GlChannels
  <2>2. ASSUME NEW slug \in goalChannels'
        PROVE  \/ SlugExists(slug)' \/ slug[1] \in stranded'
               \/ \E d \in GoalCalls : glCalls'[d].pc = "insert" /\ glCalls'[d].slug = slug
    <3>1. CASE slug \in goalChannels
      <4>1. SlugExists(slug) => SlugExists(slug)'
        BY <1>1 DEF SlugExists
      <4>2. \A d \in GoalCalls : glCalls[d].pc = "insert" => glCalls'[d] = glCalls[d]
        BY <1>1, <1>5
      <4> QED
        BY <1>1, <3>1, <4>1, <4>2 DEF GlChannels
    <3>2. CASE slug \notin goalChannels
      BY <1>1, <1>4, <1>5, <3>2
    <3> QED
      BY <3>1, <3>2
  <2> QED
    BY <2>1, <2>2 DEF GlChannels
<1>9. GlLines' /\ TreesSound' /\ WorkHasAssignee'
  BY <1>1 DEF GlLines, TreesSound, WorkHasAssignee
<1>10. SlugsApart'
  BY <1>1 DEF SlugsApart
<1> QED
  BY <1>6, <1>7, <1>8, <1>9, <1>10

LEMMA GlInsertStep ==
  ASSUME GoalsInv, NEW c \in GoalCalls, InsertGoal(c)
  PROVE  GoalsInv'
<1> USE DEF GoalsInv
<1> DEFINE p == glCalls[c]
           n == Len(goals)
           row == [slug |-> p.slug, owner |-> p.user, root |-> 0, status |-> "draft"]
<1>1. /\ p.pc = "insert" /\ ~SlugExists(p.slug) /\ goals' = Append(goals, row)
      /\ glCalls' = [glCalls EXCEPT ![c] = NoCall] /\ UNCHANGED <<goalChannels, gtasks, stranded>>
  BY DEF InsertGoal, Continue
<1>2. p \in GlCreate /\ n \in Nat /\ NoCall.pc = "idle" /\ NoCall \in GlCall
  BY <1>1, GlKinds, GlRows DEF GlTables, GlCall, NoCall
<1>3. row \in GlRow /\ row.slug = p.slug /\ row.root = 0
  BY <1>2 DEF GlCreate, GlRow, GlStatus
<1> HIDE DEF row
<1>4. /\ goals' \in Seq(GlRow) /\ Len(goals') = n + 1 /\ goals'[n + 1] = row
      /\ \A g \in 1..n : goals'[g] = goals[g]
      /\ 1..Len(goals') = (1..n) \union {n + 1} /\ n + 1 \notin 1..n
  <2>1. goals \in Seq(GlRow)
    BY DEF GlTables
  <2> QED
    BY <1>1, <1>2, <1>3, <2>1
<1>5. glCalls'[c] = NoCall /\ \A d \in GoalCalls : d # c => glCalls'[d] = glCalls[d]
  BY <1>1 DEF GlTables
<1>6. GlTables'
  BY <1>1, <1>2, <1>4 DEF GlTables
<1>7. GlRefers'
  <2>1. \A g \in 1..Len(goals') :
          \/ goals'[g].root = 0
          \/ /\ goals'[g].root \in 1..Len(gtasks)
             /\ gtasks[goals'[g].root].goal = g /\ gtasks[goals'[g].root].parent = 0
    BY <1>3, <1>4 DEF GlRefers
  <2>2. \A t \in 1..Len(gtasks) : gtasks[t].goal \in 1..Len(goals') /\ gtasks[t].parent \in 0..(t - 1)
    BY <1>4 DEF GlRefers
  <2>3. \A d \in GoalCalls :
          /\ glCalls'[d].pc \in {"root", "activate", "status"} => glCalls'[d].goal \in 1..Len(goals')
          /\ glCalls'[d].pc = "root" => /\ glCalls'[d].root \in 1..Len(gtasks)
                                        /\ gtasks[glCalls'[d].root].goal = glCalls'[d].goal
                                        /\ gtasks[glCalls'[d].root].parent = 0
          /\ glCalls'[d].pc \in {"start", "task"} => glCalls'[d].task \in 1..Len(gtasks)
    BY <1>2, <1>4, <1>5, ZenonT(40) DEF GlRefers
  <2> QED
    BY <1>1, <2>1, <2>2, <2>3 DEF GlRefers
<1>8. GlJudged'
  BY <1>1, <1>2, <1>5 DEF GlJudged, Begun
<1>9. GlChannels'
  <2>1. \A d \in GoalCalls : glCalls'[d].pc = "insert" => glCalls'[d].slug \in goalChannels'
    BY <1>1, <1>2, <1>5 DEF GlChannels
  <2>2. ASSUME NEW slug \in goalChannels'
        PROVE  \/ SlugExists(slug)' \/ slug[1] \in stranded'
               \/ \E d \in GoalCalls : glCalls'[d].pc = "insert" /\ glCalls'[d].slug = slug
    <3>1. SlugExists(slug) \/ slug = p.slug => SlugExists(slug)'
      BY <1>3, <1>4 DEF SlugExists
    <3>2. \A d \in GoalCalls : glCalls[d].pc = "insert" => d = c \/ glCalls'[d] = glCalls[d]
      BY <1>5
    <3> QED
      BY <1>1, <3>1, <3>2 DEF GlChannels
  <2> QED
    BY <2>1, <2>2 DEF GlChannels
<1>10. GlLines' /\ TreesSound' /\ WorkHasAssignee'
  BY <1>1 DEF GlLines, TreesSound, WorkHasAssignee
<1>11. SlugsApart'
  <2>1. \A g \in 1..n : goals[g].slug # p.slug
    BY <1>1 DEF SlugExists
  <2>2. p.slug \in goalChannels
    BY <1>1 DEF GlChannels
  <2> QED
    BY <1>1, <1>3, <1>4, <2>1, <2>2 DEF SlugsApart
<1> QED
  BY <1>6, <1>7, <1>8, <1>9, <1>10, <1>11

LEMMA GlStopStep ==
  ASSUME GoalsInv, NEW c \in GoalCalls, GoalCallStops(c)
  PROVE  GoalsInv'
<1> USE DEF GoalsInv
<1> DEFINE p == glCalls[c]
<1>1. /\ stranded' = IF p.pc = "insert" THEN stranded \union {p.slug[1]} ELSE stranded
      /\ glCalls' = [glCalls EXCEPT ![c] = NoCall] /\ UNCHANGED <<goals, goalChannels, gtasks>>
  BY DEF GoalCallStops, Continue
<1>2. NoCall.pc = "idle" /\ NoCall \in GlCall
  BY DEF GlCall, NoCall
<1>3. glCalls'[c] = NoCall /\ \A d \in GoalCalls : d # c => glCalls'[d] = glCalls[d]
  BY <1>1 DEF GlTables
<1>4. GlTables'
  BY <1>1, <1>2 DEF GlTables
<1>5. GlRefers' /\ GlJudged'
  BY <1>1, <1>2, <1>3 DEF GlRefers, GlJudged, Begun
<1>6. GlChannels'
  <2>1. \A d \in GoalCalls : glCalls'[d].pc = "insert" => glCalls'[d].slug \in goalChannels'
    BY <1>1, <1>2, <1>3 DEF GlChannels
  <2>2. ASSUME NEW slug \in goalChannels'
        PROVE  \/ SlugExists(slug)' \/ slug[1] \in stranded'
               \/ \E d \in GoalCalls : glCalls'[d].pc = "insert" /\ glCalls'[d].slug = slug
    <3>1. SlugExists(slug) => SlugExists(slug)'
      BY <1>1 DEF SlugExists
    <3>2. stranded \subseteq stranded' /\ (p.pc = "insert" => p.slug[1] \in stranded')
      BY <1>1
    <3>3. \A d \in GoalCalls : glCalls[d].pc = "insert" => d = c \/ glCalls'[d] = glCalls[d]
      BY <1>3
    <3> QED
      BY <1>1, <3>1, <3>2, <3>3 DEF GlChannels
  <2> QED
    BY <2>1, <2>2 DEF GlChannels
<1>7. GlLines' /\ TreesSound' /\ WorkHasAssignee'
  BY <1>1 DEF GlLines, TreesSound, WorkHasAssignee
<1>8. SlugsApart'
  BY <1>1 DEF SlugsApart
<1> QED
  BY <1>4, <1>5, <1>6, <1>7, <1>8

LEMMA GlRootStep ==
  ASSUME GoalsInv, NEW c \in GoalCalls, SetRootTask(c)
  PROVE  GoalsInv'
<1> DEFINE p == glCalls[c]
           q == [pc |-> "activate", goal |-> p.goal]
<1>1. /\ p.pc = "root" /\ goals' = [goals EXCEPT ![p.goal].root = p.root]
      /\ glCalls' = [glCalls EXCEPT ![c] = q] /\ UNCHANGED <<goalChannels, gtasks, stranded>>
  BY DEF SetRootTask, Continue
<1>2. /\ p \in GlRoot /\ p.goal \in 1..Len(goals) /\ p.root \in 1..Len(gtasks)
      /\ gtasks[p.root].goal = p.goal /\ gtasks[p.root].parent = 0
  BY <1>1, GlKinds DEF GoalsInv, GlTables, GlRefers
<1>3. q \in GlActivate /\ q.pc = "activate" /\ q.goal = p.goal
  BY <1>2 DEF GlRoot, GlActivate
<1>4. MayBe(q)
  BY <1>2, <1>3 DEF MayBe, GlCall
<1>5. goals \in Seq(GlRow) /\ goals[p.goal] \in GlRow /\ p.root \in Nat
  BY <1>2, GlRows DEF GoalsInv, GlTables, GlRoot
<1>6. [goals[p.goal] EXCEPT !.root = p.root] \in GlRow
  BY <1>5 DEF GlRow
<1>7. goals' = [goals EXCEPT ![p.goal] = [goals[p.goal] EXCEPT !.root = p.root]]
  BY <1>1, <1>2, <1>5
<1>8. goals' \in Seq(GlRow) /\ Len(goals') = Len(goals)
  BY <1>2, <1>5, <1>6, <1>7
<1>9. \A g \in 1..Len(goals) :
        /\ goals'[g].slug = goals[g].slug
        /\ \/ goals'[g].root = goals[g].root
           \/ /\ goals'[g].root \in 1..Len(gtasks)
              /\ gtasks[goals'[g].root].goal = g /\ gtasks[goals'[g].root].parent = 0
  BY <1>1, <1>2, <1>5, SMTT(30) DEF GlRow
<1> HIDE DEF q
<1> QED
  BY <1>1, <1>3, <1>4, <1>8, <1>9, GlGoalStep

LEMMA LegalIs ==
  ASSUME NEW from, NEW to, legalTransition(from, to)
  PROVE  to \in GlStatus
BY DEF legalTransition, GlStatus, GoalOver

LEMMA LegalTaskIs ==
  ASSUME NEW from, NEW to, legalTaskTransition(from, to)
  PROVE  /\ to \in TkStatus
         /\ to \notin {"cancelled", "approved", "claimed"} => from \in {"claimed", "in_progress", "awaiting_verification"}
BY DEF legalTaskTransition, TkStatus, TaskOver

\* A call that has judged the status of a goal will write it.
LEMMA WriteMayBe ==
  ASSUME GoalsInv, NEW g \in 1..Len(goals), NEW to \in GlStatus, NEW ends \in BOOLEAN
  PROVE  /\ MayBe([pc |-> "status", goal |-> g, to |-> to, ends |-> ends])
         /\ [pc |-> "status", goal |-> g, to |-> to, ends |-> ends].pc = "status"
<1> DEFINE q == [pc |-> "status", goal |-> g, to |-> to, ends |-> ends]
<1>1. q \in GlWrite /\ q.pc = "status" /\ q.goal = g
  BY GlRows DEF GlWrite, GoalsInv
<1> HIDE DEF q
<1>2. MayBe(q)
  BY <1>1 DEF MayBe, GlCall
<1> QED
  BY <1>1, <1>2 DEF q

LEMMA GlActivateStep ==
  ASSUME GoalsInv, NEW c \in GoalCalls, Activate(c)
  PROVE  GoalsInv'
<1> DEFINE g == glCalls[c].goal
           r == [pc |-> "status", goal |-> g, to |-> "active", ends |-> FALSE]
<1>1. /\ glCalls[c].pc = "activate" /\ UNCHANGED <<goals, goalChannels, gtasks, stranded>>
      /\ \/ glCalls' = [glCalls EXCEPT ![c] = r]
         \/ glCalls' = [glCalls EXCEPT ![c] = NoCall]
  BY DEF Activate, TransitionStatus, Continue
<1>2. g \in 1..Len(goals) /\ "active" \in GlStatus /\ FALSE \in BOOLEAN
  BY <1>1 DEF GoalsInv, GlRefers, GlStatus
<1>3. MayBe(r) /\ r.pc = "status"
  BY <1>2, WriteMayBe
<1>4. MayBe(NoCall) /\ NoCall.pc = "idle"
  BY NoCallMayBe DEF GoalsInv
<1> HIDE DEF r
<1> QED
  BY <1>1, <1>3, <1>4, GlCallStep

LEMMA GlCompleteStep ==
  ASSUME GoalsInv, NEW c \in GoalCalls, NEW g \in 1..Len(goals), NEW u, NEW to,
         handleCompleteGoal(c, g, u, to)
  PROVE  GoalsInv'
<1> DEFINE r == [pc |-> "status", goal |-> g, to |-> to, ends |-> TRUE]
<1>1. /\ glCalls[c] = NoCall /\ legalTransition(goals[g].status, to)
      /\ glCalls' = [glCalls EXCEPT ![c] = r] /\ UNCHANGED <<goals, goalChannels, gtasks, stranded>>
  BY DEF handleCompleteGoal, Complete, Continue
<1>2. to \in GlStatus /\ TRUE \in BOOLEAN
  BY <1>1, LegalIs
<1>3. MayBe(r) /\ r.pc = "status"
  BY <1>2, WriteMayBe
<1>4. glCalls[c].pc = "idle"
  BY <1>1 DEF NoCall
<1> HIDE DEF r
<1> QED
  BY <1>1, <1>3, <1>4, GlCallStep

LEMMA GlWriteStep ==
  ASSUME GoalsInv, NEW c \in GoalCalls, WriteStatus(c)
  PROVE  GoalsInv'
<1> DEFINE p == glCalls[c]
<1>1. /\ p.pc = "status" /\ goals' = [goals EXCEPT ![p.goal].status = p.to]
      /\ glCalls' = [glCalls EXCEPT ![c] = NoCall] /\ UNCHANGED <<goalChannels, gtasks, stranded>>
  BY DEF WriteStatus, Continue, SetCompletion, SetStatus
<1>2. p \in GlWrite /\ p.goal \in 1..Len(goals)
  BY <1>1, GlKinds DEF GoalsInv, GlTables, GlRefers
<1>3. goals \in Seq(GlRow) /\ goals[p.goal] \in GlRow /\ p.to \in GlStatus
  BY <1>2, GlRows DEF GoalsInv, GlTables, GlWrite
<1>4. [goals[p.goal] EXCEPT !.status = p.to] \in GlRow
  BY <1>3 DEF GlRow
<1>5. goals' = [goals EXCEPT ![p.goal] = [goals[p.goal] EXCEPT !.status = p.to]]
  BY <1>1, <1>2, <1>3
<1>6. goals' \in Seq(GlRow) /\ Len(goals') = Len(goals)
  BY <1>2, <1>3, <1>4, <1>5
<1>7. \A g \in 1..Len(goals) : goals'[g].slug = goals[g].slug /\ goals'[g].root = goals[g].root
  BY <1>1, <1>2, <1>3 DEF GlRow
<1>8. MayBe(NoCall) /\ NoCall.pc = "idle"
  BY NoCallMayBe DEF GoalsInv
<1> QED
  BY <1>1, <1>6, <1>7, <1>8, GlGoalStep

\* One field, or two, of one task.
LEMMA GlOneTask ==
  ASSUME GlTables, NEW t \in 1..Len(gtasks), NEW row \in TkRow, gtasks' = [gtasks EXCEPT ![t] = row],
         row.goal = gtasks[t].goal, row.parent = gtasks[t].parent, row.ancestry = gtasks[t].ancestry,
         row.depth = gtasks[t].depth, gtasks[t].assignee # "none" => row.assignee # "none",
         gtasks[t].byHand => row.byHand
  PROVE  TasksKept /\ gtasks'[t] = row /\ \A s \in 1..Len(gtasks) : s # t => gtasks'[s] = gtasks[s]
<1>1. gtasks \in Seq(TkRow)
  BY DEF GlTables
<1>2. gtasks' \in Seq(TkRow) /\ Len(gtasks') = Len(gtasks)
  BY <1>1
<1>3. gtasks'[t] = row /\ \A s \in 1..Len(gtasks) : s # t => gtasks'[s] = gtasks[s]
  BY <1>1
<1> QED
  BY <1>2, <1>3 DEF TasksKept

LEMMA GlClaimStep ==
  ASSUME GoalsInv, NEW c \in GoalCalls, NEW t \in 1..Len(gtasks), NEW w \in Workers, handleClaimTask(c, t, w)
  PROVE  GoalsInv'
<1> DEFINE q == [pc |-> "start", task |-> t]
           row == [gtasks[t] EXCEPT !.assignee = w, !.status = "claimed"]
<1>1. /\ glCalls[c] = NoCall /\ glCalls' = [glCalls EXCEPT ![c] = q]
      /\ gtasks' = [gtasks EXCEPT ![t].assignee = w, ![t].status = "claimed"]
      /\ UNCHANGED <<goals, goalChannels, stranded>>
  BY DEF handleClaimTask, ClaimAtomic, Continue
<1>2. gtasks \in Seq(TkRow) /\ gtasks[t] \in TkRow /\ t \in Nat /\ w # "none"
  BY GlRows, GoalsAssumption DEF GoalsInv, GlTables
<1>3. /\ row \in TkRow /\ row.goal = gtasks[t].goal /\ row.parent = gtasks[t].parent
      /\ row.ancestry = gtasks[t].ancestry /\ row.depth = gtasks[t].depth /\ row.assignee = w
      /\ row.byHand = gtasks[t].byHand
  BY <1>2 DEF TkRow, TkStatus
<1>4. gtasks' = [gtasks EXCEPT ![t] = row]
  BY <1>1, <1>2
<1>5. q \in TkStart /\ q.pc = "start" /\ q.task = t
  BY <1>2 DEF TkStart
<1> HIDE DEF q, row
<1>6. MayBe(q)
  BY <1>5 DEF MayBe, GlCall
<1>7. TasksKept /\ gtasks'[t] = row /\ \A s \in 1..Len(gtasks) : s # t => gtasks'[s] = gtasks[s]
  BY <1>2, <1>3, <1>4, GlOneTask DEF GoalsInv
<1>8. WorkHasAssignee'
  BY <1>2, <1>3, <1>7 DEF GoalsInv, WorkHasAssignee, TasksKept
<1>9. glCalls[c].pc = "idle"
  BY <1>1 DEF NoCall
<1> QED
  BY <1>1, <1>5, <1>6, <1>7, <1>8, <1>9, GlTaskStep

LEMMA GlJudgeStep ==
  ASSUME GoalsInv, NEW c \in GoalCalls, NEW t \in 1..Len(gtasks), NEW to, to # "approved",
         glCalls[c].pc # "insert", Judge(c, t, to)
  PROVE  GoalsInv'
<1> DEFINE r == [pc |-> "task", task |-> t, to |-> to]
           q == IF legalTaskTransition(gtasks[t].status, to) THEN r ELSE NoCall
<1>1. glCalls' = [glCalls EXCEPT ![c] = q] /\ UNCHANGED <<goals, goalChannels, gtasks, stranded>>
  BY DEF Judge, Continue
<1>2. MayBe(NoCall) /\ NoCall.pc = "idle" /\ t \in Nat
  BY NoCallMayBe, GlRows DEF GoalsInv
<1>3. ASSUME legalTaskTransition(gtasks[t].status, to) PROVE MayBe(r) /\ r.pc = "task"
  <2>1. to \in TkStatus \ {"approved"}
        /\ (to \notin {"cancelled", "claimed"} => gtasks[t].status \in {"claimed", "in_progress", "awaiting_verification"})
    BY <1>3, LegalTaskIs
  <2>2. r \in TkWrite /\ r.pc = "task" /\ r.task = t /\ r.to = to
    BY <1>2, <2>1 DEF TkWrite
  <2>3. to \notin {"cancelled", "claimed"} => Begun(t)
    BY <2>1 DEF GoalsInv, WorkHasAssignee, WorkBegun, Begun
  <2> HIDE DEF r
  <2> QED
    BY <2>2, <2>3 DEF MayBe, GlCall
<1>4. MayBe(q) /\ q.pc # "insert"
  BY <1>2, <1>3
<1> HIDE DEF q
<1> QED
  BY <1>1, <1>4, GlCallStep

LEMMA GlTaskWriteStep ==
  ASSUME GoalsInv, NEW c \in GoalCalls, StoreTransitionStatus(c)
  PROVE  GoalsInv'
<1> DEFINE p == glCalls[c]
           t == p.task
           hand == gtasks[t].byHand \/ (p.to = "claimed" /\ gtasks[t].assignee = "none")
           row == [gtasks[t] EXCEPT !.status = p.to, !.byHand = hand]
<1>1. /\ p.pc = "task" /\ gtasks' = [gtasks EXCEPT ![t].status = p.to, ![t].byHand = hand]
      /\ glCalls' = [glCalls EXCEPT ![c] = NoCall] /\ UNCHANGED <<goals, goalChannels, stranded>>
  BY DEF StoreTransitionStatus, Continue
<1>2. p \in TkWrite /\ t \in 1..Len(gtasks) /\ p.to \in TkStatus
      /\ (p.to \notin {"cancelled", "claimed"} => Begun(t))
  BY <1>1, GlKinds DEF GoalsInv, GlTables, GlRefers, GlJudged, TkWrite
<1>3. gtasks \in Seq(TkRow) /\ gtasks[t] \in TkRow
  BY <1>2, GlRows DEF GoalsInv, GlTables
<1>4. /\ row \in TkRow /\ row.goal = gtasks[t].goal /\ row.parent = gtasks[t].parent
      /\ row.ancestry = gtasks[t].ancestry /\ row.depth = gtasks[t].depth
      /\ row.assignee = gtasks[t].assignee /\ row.status = p.to /\ row.byHand = hand
  <2> hand \in BOOLEAN
    BY <1>3 DEF TkRow
  <2> HIDE DEF hand
  <2> QED
    BY <1>2, <1>3 DEF TkRow
<1>5. gtasks' = [gtasks EXCEPT ![t] = row]
  BY <1>1, <1>2, <1>3
<1>51. /\ gtasks[t].byHand => row.byHand
       /\ row.status \in WorkBegun => row.assignee # "none" \/ row.byHand
  BY <1>2, <1>4 DEF Begun, WorkBegun
<1> HIDE DEF row
<1>6. TasksKept /\ gtasks'[t] = row /\ \A s \in 1..Len(gtasks) : s # t => gtasks'[s] = gtasks[s]
  BY <1>2, <1>4, <1>5, <1>51, GlOneTask DEF GoalsInv
<1>7. WorkHasAssignee'
  BY <1>2, <1>51, <1>6 DEF GoalsInv, WorkHasAssignee, TasksKept
<1>8. MayBe(NoCall) /\ NoCall.pc = "idle"
  BY NoCallMayBe DEF GoalsInv
<1> QED
  BY <1>1, <1>6, <1>7, <1>8, GlTaskStep

LEMMA GlSpendStep ==
  ASSUME GoalsInv, NEW c \in GoalCalls, NEW t \in 1..Len(gtasks), AddSpend(t)
  PROVE  GoalsInv'
<1> DEFINE row == [gtasks[t] EXCEPT !.spent = gtasks[t].spent + 1]
<1>1. /\ gtasks' = [gtasks EXCEPT ![t].spent = gtasks[t].spent + 1]
      /\ UNCHANGED <<goals, goalChannels, glCalls, stranded>>
  BY DEF AddSpend
<1>2. gtasks \in Seq(TkRow) /\ gtasks[t] \in TkRow
  BY GlRows DEF GoalsInv, GlTables
<1>0. gtasks[t].spent + 1 \in Nat
  BY <1>2, SMTT(30) DEF TkRow
<1>4. gtasks' = [gtasks EXCEPT ![t] = row]
  BY <1>1, <1>2
<1> DEFINE more == gtasks[t].spent + 1
<1> HIDE DEF more
<1>3. /\ row \in TkRow /\ row.goal = gtasks[t].goal /\ row.parent = gtasks[t].parent
      /\ row.ancestry = gtasks[t].ancestry /\ row.depth = gtasks[t].depth
      /\ row.assignee = gtasks[t].assignee /\ row.status = gtasks[t].status
      /\ row.byHand = gtasks[t].byHand
  <2>1. row = [gtasks[t] EXCEPT !.spent = more] /\ more \in Nat
    BY <1>0 DEF more
  <2> HIDE DEF row
  <2> QED
    BY <1>2, <2>1 DEF TkRow
<1> HIDE DEF row
<1>5. TasksKept /\ gtasks'[t] = row /\ \A s \in 1..Len(gtasks) : s # t => gtasks'[s] = gtasks[s]
  BY <1>3, <1>4, GlOneTask DEF GoalsInv
<1>6. WorkHasAssignee'
  BY <1>3, <1>5 DEF GoalsInv, WorkHasAssignee, TasksKept
<1>7. MayBe(glCalls[c]) /\ glCalls' = [glCalls EXCEPT ![c] = glCalls[c]]
  BY <1>1 DEF GoalsInv, GlTables, GlRefers, GlJudged, MayBe
<1> QED
  BY <1>1, <1>5, <1>6, <1>7, GlTaskStep

\* The rows of a proposed tree.
LEMMA GlNewRow ==
  ASSUME GoalsInv, NEW g \in 1..Len(goals), NEW tree \in Trees, NEW n \in 1..Len(tree)
  PROVE  LET row == Insert(g, tree, DefaultCode, n)
             line == ancestry(tree, Len(gtasks))[n] IN
         /\ row \in TkRow /\ row.goal = g /\ row.status = "approved"
         /\ row.parent = (IF tree[n].up = 0 THEN 0 ELSE Len(gtasks) + tree[n].up)
         /\ row.ancestry = line /\ row.depth = Len(line)
<1> DEFINE base == Len(gtasks)
           line == ancestry(tree, base)[n]
           up == IF tree[n].up = 0 THEN 0 ELSE base + tree[n].up
           code == IF tree[n].code = Unbilled THEN DefaultCode ELSE tree[n].code
           row == Insert(g, tree, DefaultCode, n)
<1>1. row = [goal |-> g, parent |-> up, ancestry |-> line, depth |-> Len(line),
             status |-> "approved", assignee |-> "none", byHand |-> FALSE, spent |-> 0, code |-> code]
  BY DEF Insert
<1>2. base \in Nat /\ g \in Nat
  BY GlRows DEF GoalsInv
<1>3. line \in Seq(Nat) /\ Len(line) \in Nat
  <2>1. line \in Seq(Nat)
    BY <1>2, AncestryLine
  <2> HIDE DEF line
  <2> QED
    BY <2>1
<1>4. up \in Nat /\ code \in Codes \union {DefaultCode, Unbilled}
  BY <1>2, TreeNodes
<1>5. "approved" \in TkStatus /\ "none" \in Workers \union {"none"} /\ 0 \in Nat
  BY DEF TkStatus
<1> HIDE DEF line, up, code, row, base
<1>6. row \in TkRow
  BY <1>1, <1>2, <1>3, <1>4, <1>5 DEF TkRow
<1>7. /\ row.goal = g /\ row.status = "approved" /\ row.parent = up
      /\ row.ancestry = line /\ row.depth = Len(line)
  BY <1>1
<1> QED
  BY <1>6, <1>7 DEF row, line, up, base

LEMMA GlProposeStep ==
  ASSUME GoalsInv, NEW c \in GoalCalls, NEW g \in 1..Len(goals), NEW tree \in Trees,
         handleProposeTaskTree(c, g, tree)
  PROVE  GoalsInv'
<1> DEFINE base == Len(gtasks)
           m == Len(tree)
           rows == [n \in 1..m |-> Insert(g, tree, DefaultCode, n)]
           line(n) == ancestry(tree, base)[n]
           q == [pc |-> "root", goal |-> g, root |-> base + 1]
<1>1. /\ glCalls[c] = NoCall /\ glCalls' = [glCalls EXCEPT ![c] = q]
      /\ gtasks' = gtasks \o rows /\ UNCHANGED <<goals, goalChannels, stranded>>
  BY DEF handleProposeTaskTree, CreateTree, Continue
<1>2. base \in Nat /\ m \in Nat /\ m > 0 /\ g \in Nat /\ gtasks \in Seq(TkRow)
  BY GlRows, TreeNodes DEF GoalsInv, GlTables
<1>3. ASSUME NEW n \in 1..m
      PROVE  /\ rows[n] \in TkRow /\ rows[n].goal = g /\ rows[n].status = "approved"
             /\ rows[n].parent = (IF tree[n].up = 0 THEN 0 ELSE base + tree[n].up)
             /\ rows[n].ancestry = line(n) /\ rows[n].depth = Len(line(n))
  BY GlNewRow
<1>4. rows \in Seq(TkRow) /\ Len(rows) = m
  BY <1>2, <1>3
<1>5. ASSUME NEW n \in 1..m
      PROVE  /\ tree[n].up \in Nat /\ tree[n].up < n /\ (tree[n].up = 0 <=> n = 1)
             /\ line(n) = IF tree[n].up = 0 THEN <<>> ELSE Append(line(tree[n].up), base + tree[n].up)
  BY TreeNodes, AncestryStep
<1>6. ASSUME NEW n \in 1..m
      PROVE  /\ line(n) \in Seq(Nat)
             /\ \A k \in 1..Len(line(n)) : line(n)[k] \in (base + 1)..(base + n - 1)
             /\ n # 1 => Len(line(n)) > 0 /\ line(n)[1] = base + 1
  BY <1>2, AncestryLine
<1>7. q \in GlRoot /\ q.pc = "root" /\ q.goal = g /\ q.root = base + 1
  BY <1>2 DEF GlRoot
<1> HIDE DEF rows, line, q
<1>8. /\ gtasks' \in Seq(TkRow) /\ Len(gtasks') = base + m
      /\ \A t \in 1..base : gtasks'[t] = gtasks[t]
      /\ \A n \in 1..m : gtasks'[base + n] = rows[n]
  <2>1. /\ gtasks' \in Seq(TkRow) /\ Len(gtasks') = base + m
        /\ \A i \in 1..(base + m) : gtasks'[i] = IF i <= base THEN gtasks[i] ELSE rows[i - base]
    <3>1. /\ gtasks \o rows \in Seq(TkRow) /\ Len(gtasks \o rows) = Len(gtasks) + Len(rows)
          /\ \A i \in 1..(Len(gtasks) + Len(rows)) :
               (gtasks \o rows)[i] = IF i <= Len(gtasks) THEN gtasks[i] ELSE rows[i - Len(gtasks)]
      BY <1>2, <1>4, ConcatProperties
    <3> QED
      BY <1>1, <1>4, <3>1
  <2>2. ASSUME NEW t \in 1..base PROVE gtasks'[t] = gtasks[t]
    <3>1. t \in 1..(base + m) /\ t <= base
      BY <1>2
    <3> QED
      BY <2>1, <3>1
  <2>3. ASSUME NEW n \in 1..m PROVE gtasks'[base + n] = rows[n]
    <3>1. base + n \in 1..(base + m) /\ ~(base + n <= base) /\ base + n - base = n
      BY <1>2
    <3> QED
      BY <2>1, <3>1
  <2> QED
    BY <2>1, <2>2, <2>3
<1>9. ASSUME NEW t \in 1..Len(gtasks')
      PROVE  t \in 1..base \/ \E n \in 1..m : t = base + n
  <2>1. t \notin 1..base => t - base \in 1..m /\ t = base + (t - base)
    BY <1>2, <1>8
  <2> QED
    BY <2>1
<1>10. glCalls'[c] = q /\ \A d \in GoalCalls : d # c => glCalls'[d] = glCalls[d]
  BY <1>1 DEF GoalsInv, GlTables
<1>11. /\ 1 \in 1..m /\ base + 1 \in 1..Len(gtasks') /\ gtasks'[base + 1] = rows[1]
       /\ rows[1].goal = g /\ rows[1].parent = 0
  <2>1. 1 \in 1..m
    BY <1>2
  <2> QED
    BY <1>2, <1>3, <1>5, <1>8, <2>1
<1>12. 1..base \subseteq 1..Len(gtasks')
  BY <1>2, <1>8
<1>13. GlTables'
  <2>1. q \in GlCall
    BY <1>7 DEF GlCall
  <2> QED
    BY <1>1, <1>8, <2>1 DEF GoalsInv, GlTables
<1>14. GlRefers'
  <2>1. \A h \in 1..Len(goals) :
          \/ goals[h].root = 0
          \/ /\ goals[h].root \in 1..Len(gtasks')
             /\ gtasks'[goals[h].root].goal = h /\ gtasks'[goals[h].root].parent = 0
    BY <1>8, <1>12 DEF GoalsInv, GlRefers
  <2>2. ASSUME NEW t \in 1..Len(gtasks')
        PROVE  gtasks'[t].goal \in 1..Len(goals) /\ gtasks'[t].parent \in 0..(t - 1)
    <3>1. CASE t \in 1..base
      BY <1>8, <3>1 DEF GoalsInv, GlRefers
    <3>2. ASSUME NEW n \in 1..m, t = base + n PROVE gtasks'[t].goal \in 1..Len(goals) /\ gtasks'[t].parent \in 0..(t - 1)
      <4>1. gtasks'[t].goal = g /\ gtasks'[t].parent = (IF tree[n].up = 0 THEN 0 ELSE base + tree[n].up)
        BY <1>3, <1>8, <3>2
      <4>2. tree[n].up \in Nat /\ tree[n].up < n
        BY <1>5
      <4> QED
        BY <1>2, <3>2, <4>1, <4>2
    <3> QED
      BY <1>9, <3>1, <3>2
  <2>3. \A d \in GoalCalls :
          /\ glCalls'[d].pc \in {"root", "activate", "status"} => glCalls'[d].goal \in 1..Len(goals)
          /\ glCalls'[d].pc = "root" => /\ glCalls'[d].root \in 1..Len(gtasks')
                                        /\ gtasks'[glCalls'[d].root].goal = glCalls'[d].goal
                                        /\ gtasks'[glCalls'[d].root].parent = 0
          /\ glCalls'[d].pc \in {"start", "task"} => glCalls'[d].task \in 1..Len(gtasks')
    <3> SUFFICES ASSUME NEW d \in GoalCalls
                 PROVE  /\ glCalls'[d].pc \in {"root", "activate", "status"} => glCalls'[d].goal \in 1..Len(goals)
                        /\ glCalls'[d].pc = "root" => /\ glCalls'[d].root \in 1..Len(gtasks')
                                                      /\ gtasks'[glCalls'[d].root].goal = glCalls'[d].goal
                                                      /\ gtasks'[glCalls'[d].root].parent = 0
                        /\ glCalls'[d].pc \in {"start", "task"} => glCalls'[d].task \in 1..Len(gtasks')
      OBVIOUS
    <3>1. CASE d = c
      BY <1>7, <1>10, <1>11, <3>1
    <3>2. CASE d # c
      <4>1. glCalls'[d] = glCalls[d]
        BY <1>10, <3>2
      <4>2. glCalls[d].pc = "root" => glCalls[d].root \in 1..base /\ gtasks'[glCalls[d].root] = gtasks[glCalls[d].root]
        BY <1>8 DEF GoalsInv, GlRefers
      <4>3. glCalls[d].pc \in {"start", "task"} => glCalls[d].task \in 1..base
        BY DEF GoalsInv, GlRefers
      <4> QED
        BY <1>12, <4>1, <4>2, <4>3 DEF GoalsInv, GlRefers
    <3> QED
      BY <3>1, <3>2
  <2> QED
    BY <1>1, <2>1, <2>2, <2>3 DEF GlRefers
<1>15. GlChannels'
  <2>1. \A d \in GoalCalls : glCalls'[d].pc = "insert" \/ glCalls[d].pc = "insert" => glCalls'[d] = glCalls[d]
    BY <1>1, <1>7, <1>10 DEF NoCall
  <2> QED
    BY <1>1, <2>1, SMTT(30) DEF GoalsInv, GlChannels, SlugExists
<1>16. GlJudged'
  <2> SUFFICES ASSUME NEW d \in GoalCalls, glCalls'[d].pc = "task", glCalls'[d].to \notin {"cancelled", "claimed"}
               PROVE  gtasks'[glCalls'[d].task].assignee # "none" \/ gtasks'[glCalls'[d].task].byHand
    BY DEF GlJudged, Begun
  <2>1. glCalls'[d] = glCalls[d]
    BY <1>7, <1>10
  <2>2. glCalls[d].task \in 1..base
    BY <2>1 DEF GoalsInv, GlRefers
  <2>3. gtasks'[glCalls[d].task] = gtasks[glCalls[d].task]
    BY <1>8, <2>2
  <2> QED
    BY <2>1, <2>3 DEF GoalsInv, GlJudged, Begun
<1>17. SlugsApart'
  BY <1>1 DEF GoalsInv, SlugsApart
<1>18. WorkHasAssignee'
  <2>1. ASSUME NEW t \in 1..Len(gtasks'), gtasks'[t].status \in WorkBegun
        PROVE  gtasks'[t].assignee # "none" \/ gtasks'[t].byHand
    <3>1. \A n \in 1..m : t # base + n
      BY <1>3, <1>8, <2>1 DEF WorkBegun
    <3> QED
      BY <1>8, <1>9, <2>1, <3>1 DEF GoalsInv, WorkHasAssignee
  <2> QED
    BY <2>1 DEF WorkHasAssignee
<1>19. GlLines'
  <2> SUFFICES ASSUME NEW t \in 1..Len(gtasks')
               PROVE  /\ \A k \in 1..Len(gtasks'[t].ancestry) :
                           /\ gtasks'[t].ancestry[k] \in 1..(t - 1)
                           /\ gtasks'[gtasks'[t].ancestry[k]].goal = gtasks'[t].goal
                      /\ gtasks'[t].parent # 0 => /\ Len(gtasks'[t].ancestry) > 0
                                                  /\ gtasks'[gtasks'[t].ancestry[1]].parent = 0
    BY DEF GlLines
  <2>1. CASE t \in 1..base
    <3>1. gtasks'[t] = gtasks[t] /\ gtasks[t] \in TkRow /\ 1..(t - 1) \subseteq 1..base
      BY <1>2, <1>8, <2>1, GlRows DEF GoalsInv
    <3>2. ASSUME NEW k \in 1..Len(gtasks[t].ancestry)
          PROVE  /\ gtasks[t].ancestry[k] \in 1..(t - 1) /\ gtasks[t].ancestry[k] \in 1..base
                 /\ gtasks[gtasks[t].ancestry[k]].goal = gtasks[t].goal
      BY <2>1, <3>1 DEF GoalsInv, GlLines
    <3>3. ASSUME NEW k \in 1..Len(gtasks[t].ancestry)
          PROVE  gtasks'[gtasks[t].ancestry[k]] = gtasks[gtasks[t].ancestry[k]]
      BY <1>8, <3>2
    <3>4. gtasks[t].parent # 0 => Len(gtasks[t].ancestry) > 0 /\ gtasks[gtasks[t].ancestry[1]].parent = 0
      BY <2>1 DEF GoalsInv, GlLines
    <3>5. Len(gtasks[t].ancestry) \in Nat
      BY <3>1 DEF TkRow
    <3>6. Len(gtasks[t].ancestry) > 0 => 1 \in 1..Len(gtasks[t].ancestry)
      BY <3>5
    <3> QED
      BY <3>1, <3>2, <3>3, <3>4, <3>6
  <2>2. ASSUME NEW n \in 1..m, t = base + n
        PROVE  /\ \A k \in 1..Len(gtasks'[t].ancestry) :
                    /\ gtasks'[t].ancestry[k] \in 1..(t - 1)
                    /\ gtasks'[gtasks'[t].ancestry[k]].goal = gtasks'[t].goal
               /\ gtasks'[t].parent # 0 => /\ Len(gtasks'[t].ancestry) > 0
                                           /\ gtasks'[gtasks'[t].ancestry[1]].parent = 0
    <3>1. /\ gtasks'[t].goal = g /\ gtasks'[t].ancestry = line(n)
          /\ gtasks'[t].parent = (IF tree[n].up = 0 THEN 0 ELSE base + tree[n].up)
      BY <1>3, <1>8, <2>2
    <3>2. ASSUME NEW k \in 1..Len(line(n))
          PROVE  line(n)[k] \in 1..(t - 1) /\ gtasks'[line(n)[k]].goal = g
      <4>1. line(n)[k] \in (base + 1)..(base + n - 1)
        BY <1>6
      <4>2. PICK x : x = line(n)[k]
        OBVIOUS
      <4>3. x \in (base + 1)..(base + n - 1)
        BY <4>1, <4>2
      <4>4. PICK y \in 1..m : x = base + y
        <5> HIDE DEF base, m
        <5>1. x \in Int /\ base + 1 <= x /\ x <= base + n - 1 /\ n \in Int /\ n <= m
          BY <1>2, <2>2, <4>3
        <5>2. x - base \in 1..m /\ x = base + (x - base)
          BY <1>2, <5>1
        <5> QED
          BY <5>2
      <4>5. gtasks'[x].goal = g
        BY <1>3, <1>8, <4>4
      <4>6. x \in 1..(t - 1)
        BY <1>2, <2>2, <4>3
      <4> QED
        BY <4>2, <4>5, <4>6
    <3>3. gtasks'[t].parent # 0 => n # 1
      BY <1>5, <3>1
    <3> QED
      BY <1>6, <1>11, <3>1, <3>2, <3>3
  <2> QED
    BY <1>9, <2>1, <2>2
<1>20. TreesSound'
  <2> SUFFICES ASSUME NEW t \in 1..Len(gtasks')
               PROVE  /\ gtasks'[t].depth = Len(gtasks'[t].ancestry)
                      /\ IF gtasks'[t].parent = 0 THEN gtasks'[t].ancestry = <<>>
                         ELSE /\ gtasks'[t].ancestry = Append(gtasks'[gtasks'[t].parent].ancestry, gtasks'[t].parent)
                              /\ gtasks'[gtasks'[t].parent].goal = gtasks'[t].goal
    BY DEF TreesSound
  <2>1. CASE t \in 1..base
    <3>1. gtasks'[t] = gtasks[t]
      BY <1>8, <2>1
    <3>2. gtasks[t].parent # 0 => gtasks[t].parent \in 1..base
      BY <1>2, <2>1 DEF GoalsInv, GlRefers
    <3>3. gtasks[t].parent # 0 => gtasks'[gtasks[t].parent] = gtasks[gtasks[t].parent]
      BY <1>8, <3>2
    <3> QED
      BY <2>1, <3>1, <3>3 DEF GoalsInv, TreesSound
  <2>2. ASSUME NEW n \in 1..m, t = base + n
        PROVE  /\ gtasks'[t].depth = Len(gtasks'[t].ancestry)
               /\ IF gtasks'[t].parent = 0 THEN gtasks'[t].ancestry = <<>>
                  ELSE /\ gtasks'[t].ancestry = Append(gtasks'[gtasks'[t].parent].ancestry, gtasks'[t].parent)
                       /\ gtasks'[gtasks'[t].parent].goal = gtasks'[t].goal
    <3>1. /\ gtasks'[t].goal = g /\ gtasks'[t].ancestry = line(n) /\ gtasks'[t].depth = Len(line(n))
          /\ gtasks'[t].parent = (IF tree[n].up = 0 THEN 0 ELSE base + tree[n].up)
      BY <1>3, <1>8, <2>2
    <3>2. CASE tree[n].up = 0
      BY <1>5, <3>1, <3>2
    <3>3. CASE tree[n].up # 0
      <4>1. tree[n].up \in 1..m
        BY <1>2, <1>5, <3>3
      <4>2. gtasks'[base + tree[n].up].ancestry = line(tree[n].up) /\ gtasks'[base + tree[n].up].goal = g
        BY <1>3, <1>8, <4>1
      <4>3. line(n) = Append(line(tree[n].up), base + tree[n].up)
        BY <1>5, <3>3
      <4>4. base + tree[n].up # 0
        BY <1>2, <4>1
      <4> QED
        BY <3>1, <3>3, <4>2, <4>3, <4>4
    <3> QED
      BY <3>2, <3>3
  <2> QED
    BY <1>9, <2>1, <2>2
<1> QED
  BY <1>13, <1>14, <1>15, <1>16, <1>17, <1>18, <1>19, <1>20 DEF GoalsInv

LEMMA GlStep == GoalsInv /\ [GoalsNext]_glVars => GoalsInv'
<1> SUFFICES ASSUME GoalsInv, [GoalsNext]_glVars PROVE GoalsInv'
  OBVIOUS
<1>1. CASE UNCHANGED glVars
  BY <1>1 DEF glVars, GoalsInv, GlTables, GlRefers, GlChannels, GlLines, GlJudged, Begun, SlugsApart, TreesSound,
              WorkHasAssignee, SlugExists
<1>2. CASE GoalsNext
  <2>1. PICK c \in GoalCalls :
          \/ CreateGoalChannel(c) \/ InsertGoal(c) \/ SetRootTask(c) \/ Activate(c)
          \/ WriteStatus(c) \/ StartClaimed(c) \/ StoreTransitionStatus(c) \/ GoalCallStops(c)
          \/ \E u \in GoalUsers : \/ \E title \in Titles : handleCreateGoal(c, title, u)
                                  \/ \E g \in 1..Len(goals), to \in GoalMoves :
                                        handleCompleteGoal(c, g, u, to)
          \/ \E g \in 1..Len(goals), tree \in Trees : handleProposeTaskTree(c, g, tree)
          \/ \E t \in 1..Len(gtasks) :
                \/ \E w \in Workers : handleClaimTask(c, t, w)
                \/ \E to \in TaskMoves : Transition(c, t, to)
                \/ AddSpend(t)
    BY <1>2 DEF GoalsNext
  <2>2. ASSUME StartClaimed(c) PROVE GoalsInv'
    <3>1. glCalls[c].pc = "start" /\ Judge(c, glCalls[c].task, "in_progress")
      BY <2>2 DEF StartClaimed
    <3>2. glCalls[c].task \in 1..Len(gtasks)
      BY <3>1 DEF GoalsInv, GlRefers
    <3>3. glCalls[c].pc # "insert" /\ "in_progress" # "approved"
      BY <3>1
    <3> QED
      BY <3>1, <3>2, <3>3, GlJudgeStep
  <2>3. ASSUME NEW t \in 1..Len(gtasks), NEW to, Transition(c, t, to) PROVE GoalsInv'
    <3>1. glCalls[c].pc # "insert" /\ legalTaskTransition(gtasks[t].status, to) /\ Judge(c, t, to)
      BY <2>3 DEF Transition, NoCall
    <3>2. gtasks[t].status # "proposed"
      BY GlRows DEF GoalsInv, TkRow, TkStatus, TaskOver
    <3>3. to # "approved"
      BY <3>1, <3>2 DEF legalTaskTransition
    <3> QED
      BY <3>1, <3>3, GlJudgeStep
  <2> QED
    BY <2>1, <2>2, <2>3, GlChannelStep, GlInsertStep, GlRootStep, GlActivateStep, GlWriteStep,
       GlTaskWriteStep, GlStopStep, GlCreateStep, GlCompleteStep, GlProposeStep, GlClaimStep, GlSpendStep
<1> QED
  BY <1>1, <1>2

-----------------------------------------------------------------------------
(* Costs.                                                                  *)

Spending == [t \in 1..Len(gtasks) |-> gtasks[t].spent]

AddsSpent(f, T) ==
  f = [s \in SUBSET T |-> IF s = {} THEN 0 ELSE gtasks[CHOOSE x \in s : TRUE].spent + f[s \ {CHOOSE x \in s : TRUE}]]

\* What tasks cost together is a sum of the kind the lemmas are about.
LEMMA SpentIs ==
  ASSUME GlTables, NEW T, T \subseteq 1..Len(gtasks)
  PROVE  SpentIn(T) = SumOf(Spending, T) /\ SpentIn(T) \in Nat /\ IsFiniteSet(T)
<1>1. IsFiniteSet(T)
  <2>1. IsFiniteSet(1..Len(gtasks))
    BY GlRows, FS_Interval
  <2> QED
    BY <2>1, FS_Subset
<1>2. SpentIn(T) = (CHOOSE f : AddsSpent(f, T))[T]
  BY DEF SpentIn, MapThenSumSet, MapThenFoldSet, AddsSpent
<1>3. ASSUME NEW f PROVE AddsSpent(f, T) <=> Adds(f, Spending, T)
  <2>1. ASSUME NEW s \in SUBSET T, s # {}
        PROVE  gtasks[CHOOSE x \in s : TRUE].spent = Spending[CHOOSE x \in s : TRUE]
    <3>1. (CHOOSE x \in s : TRUE) \in 1..Len(gtasks)
      BY <2>1
    <3> QED
      BY <3>1 DEF Spending
  <2>2. [s \in SUBSET T |-> IF s = {} THEN 0 ELSE gtasks[CHOOSE x \in s : TRUE].spent + f[s \ {CHOOSE x \in s : TRUE}]]
      = [s \in SUBSET T |-> IF s = {} THEN 0 ELSE Spending[CHOOSE x \in s : TRUE] + f[s \ {CHOOSE x \in s : TRUE}]]
    BY <2>1
  <2> QED
    BY <2>2 DEF AddsSpent, Adds
<1>4. PICK f : Adds(f, Spending, T)
  BY <1>1, AddsExists
<1> DEFINE a == CHOOSE h : AddsSpent(h, T)
           b == CHOOSE h : Adds(h, Spending, T)
<1>5. Adds(a, Spending, T) /\ Adds(b, Spending, T)
  BY <1>3, <1>4
<1>6. a[T] = b[T]
  <2> HIDE DEF a, b
  <2> QED
    BY <1>1, <1>5, AddsUnique
<1>7. SpentIn(T) = SumOf(Spending, T)
  BY <1>2, <1>6, SumIsAdds
<1>8. \A t \in T : Spending[t] \in Nat
  BY GlRows DEF Spending, TkRow
<1> QED
  BY <1>1, <1>7, <1>8, SumNat

CodeOf == [t \in 1..Len(gtasks) |-> gtasks[t].code]

\* The billing codes of a subtree add up to its cost.
LEMMA BillingAdds ==
  ASSUME GlTables, NEW root
  PROVE  LET bill == RollupByBillingCode(root) IN
         MapThenSumSet(LAMBDA k : bill[k], DOMAIN bill) = SpentIn(Subtree(root))
<1> DEFINE M == Subtree(root)
           K == {gtasks[t].code : t \in M}
           bill == RollupByBillingCode(root)
<1>1. M \subseteq 1..Len(gtasks)
  BY DEF Subtree
<1>2. bill = [k \in K |-> SpentIn({t \in M : gtasks[t].code = k})]
  BY DEF RollupByBillingCode
<1> HIDE DEF M, bill
<1>3. IsFiniteSet(M) /\ SpentIn(M) = SumOf(Spending, M)
  BY <1>1, SpentIs
<1>4. IsFiniteSet(K)
  <2> DEFINE f == [t \in M |-> gtasks[t].code]
  <2>1. f \in Surjection(M, K)
    BY DEF Surjection
  <2> QED
    BY <1>3, <2>1, FS_Surjection
<1>5. PartSums(bill, Spending, M, CodeOf, K)
  <2> SUFFICES ASSUME NEW k \in K PROVE bill[k] = SumOf(Spending, {i \in M : CodeOf[i] = k})
    BY DEF PartSums
  <2>1. {i \in M : CodeOf[i] = k} = {t \in M : gtasks[t].code = k}
    BY <1>1 DEF CodeOf
  <2>2. {t \in M : gtasks[t].code = k} \subseteq 1..Len(gtasks)
    BY <1>1
  <2>3. SpentIn({t \in M : gtasks[t].code = k}) = SumOf(Spending, {t \in M : gtasks[t].code = k})
    BY <2>2, SpentIs
  <2>4. SumOf(Spending, {i \in M : CodeOf[i] = k}) = SumOf(Spending, {t \in M : gtasks[t].code = k})
    BY <2>1, Zenon
  <2>5. bill[k] = SpentIn({t \in M : gtasks[t].code = k})
    BY <1>2
  <2> QED
    BY <2>3, <2>4, <2>5
<1>6. \A i \in M : Spending[i] \in Nat
  BY <1>1, GlRows DEF Spending, TkRow
<1>7. SumOf(bill, K) = SumOf(Spending, Keyed(M, CodeOf, K))
  <2> HIDE DEF K
  <2> QED
    BY <1>3, <1>4, <1>5, <1>6, SumOfParts
<1>8. Keyed(M, CodeOf, K) = M
  BY <1>1 DEF Keyed, CodeOf
<1>9. SumOf(Spending, Keyed(M, CodeOf, K)) = SumOf(Spending, M)
  BY <1>8, Zenon
<1>10. DOMAIN bill = K
  BY <1>2
<1>11. MapThenSumSet(LAMBDA k : bill[k], DOMAIN bill) = SumOf(bill, DOMAIN bill)
  BY DEF SumOf
<1>12. SumOf(bill, DOMAIN bill) = SumOf(bill, K)
  BY <1>10, Zenon
<1>13. MapThenSumSet(LAMBDA k : bill[k], DOMAIN bill) = SpentIn(M)
  BY <1>3, <1>7, <1>9, <1>11, <1>12
<1> QED
  BY <1>13 DEF M, bill

\* The subtree of a goal's only root has all its tasks.
LEMMA OneTree ==
  ASSUME GoalsInv, NEW g \in 1..Len(goals), NEW root, {t \in ListByGoal(g) : gtasks[t].parent = 0} = {root}
  PROVE  Subtree(root) = ListByGoal(g)
<1>1. root \in 1..Len(gtasks) /\ gtasks[root].goal = g
  BY DEF ListByGoal
<1>2. ASSUME NEW t \in ListByGoal(g) PROVE t \in Subtree(root)
  <2>1. t \in 1..Len(gtasks) /\ gtasks[t].goal = g
    BY DEF ListByGoal
  <2>2. CASE gtasks[t].parent = 0
    BY <2>1, <2>2 DEF Subtree
  <2>3. CASE gtasks[t].parent # 0
    <3> DEFINE line == gtasks[t].ancestry
    <3>1. line \in Seq(Nat) /\ Len(line) > 0 /\ gtasks[line[1]].parent = 0
      BY <2>1, <2>3, GlRows DEF GoalsInv, GlLines, TkRow
    <3>2. 1 \in 1..Len(line) /\ 1 \in DOMAIN line
      BY <3>1
    <3>3. line[1] \in 1..(t - 1) /\ gtasks[line[1]].goal = g
      BY <2>1, <3>2 DEF GoalsInv, GlLines
    <3>4. line[1] \in 1..Len(gtasks)
      BY <2>1, <3>3, GlRows DEF GoalsInv
    <3>5. line[1] = root
      BY <3>1, <3>3, <3>4 DEF ListByGoal
    <3>6. root \in Range(line)
      BY <3>2, <3>5 DEF Range
    <3> QED
      BY <2>1, <3>6 DEF Subtree
  <2> QED
    BY <2>2, <2>3
<1>3. ASSUME NEW t \in Subtree(root) PROVE t \in ListByGoal(g)
  <2>1. t \in 1..Len(gtasks) /\ (t = root \/ root \in Range(gtasks[t].ancestry))
    BY DEF Subtree
  <2>2. CASE t = root
    BY <1>1, <2>2 DEF ListByGoal
  <2>3. CASE root \in Range(gtasks[t].ancestry)
    <3>1. gtasks[t].ancestry \in Seq(Nat)
      BY <2>1, GlRows DEF GoalsInv, TkRow
    <3>2. PICK k \in 1..Len(gtasks[t].ancestry) : root = gtasks[t].ancestry[k]
      BY <2>3, <3>1 DEF Range
    <3>3. gtasks[root].goal = gtasks[t].goal
      BY <2>1, <3>2 DEF GoalsInv, GlLines
    <3> QED
      BY <1>1, <2>1, <3>3 DEF ListByGoal
  <2> QED
    BY <2>1, <2>2, <2>3
<1> QED
  BY <1>2, <1>3

LEMMA GlCosts == GoalsInv => CostsAddUp
<1> SUFFICES ASSUME GoalsInv, NEW g \in 1..Len(goals)
             PROVE  LET v == GetGoal(g)
                        roots == {t \in v.tasks : gtasks[t].parent = 0} IN
                    /\ MapThenSumSet(LAMBDA k : v.billing[k], DOMAIN v.billing) = v.rollup.spent
                    /\ ListGoals[g] = v.rollup
                    /\ goals[g].root # 0 => goals[g].root \in roots
                    /\ roots = {goals[g].root} => v.rollup.count = Cardinality(v.tasks)
                                                  /\ v.rollup.spent = SpentIn(v.tasks)
  BY DEF CostsAddUp
<1> DEFINE v == GetGoal(g)
           root == goals[g].root
           roots == {t \in v.tasks : gtasks[t].parent = 0}
           sub == Subtree(root)
<1>0. GlTables /\ GlRefers
  BY DEF GoalsInv
<1>1. /\ v.tasks = ListByGoal(g)
      /\ v.rollup = IF root = 0 THEN [spent |-> 0, count |-> 0] ELSE RollupCosts(root)
      /\ v.billing = IF root = 0 THEN <<>> ELSE RollupByBillingCode(root)
  BY DEF GetGoal
<1> HIDE DEF v
<1>2. root # 0 => v.rollup.spent = SpentIn(sub) /\ v.rollup.count = Cardinality(sub)
  BY <1>1 DEF RollupCosts
<1>3. MapThenSumSet(LAMBDA k : v.billing[k], DOMAIN v.billing) = v.rollup.spent
  <2> DEFINE bill == v.billing
  <2>1. CASE root = 0
    <3>1. bill = <<>> /\ v.rollup.spent = 0 /\ DOMAIN bill = {}
      BY <1>1, <2>1
    <3>2. MapThenSumSet(LAMBDA k : bill[k], DOMAIN bill) = SumOf(bill, DOMAIN bill)
      BY DEF SumOf
    <3>3. SumOf(bill, DOMAIN bill) = 0
      BY <3>1, FS_EmptySet, SumStep
    <3> QED
      BY <3>1, <3>2, <3>3
  <2>2. CASE root # 0
    <3> DEFINE rbc == RollupByBillingCode(root)
    <3>1. MapThenSumSet(LAMBDA k : rbc[k], DOMAIN rbc) = SpentIn(sub)
      BY <1>0, BillingAdds
    <3>2. bill = rbc
      BY <1>1, <2>2
    <3>3. SumOf(rbc, DOMAIN rbc) = SpentIn(sub)
      BY <3>1 DEF SumOf
    <3>4. SumOf(bill, DOMAIN bill) = SumOf(rbc, DOMAIN rbc)
      BY <3>2, Zenon
    <3>5. MapThenSumSet(LAMBDA k : bill[k], DOMAIN bill) = SumOf(bill, DOMAIN bill)
      BY DEF SumOf
    <3> QED
      BY <1>2, <2>2, <3>3, <3>4, <3>5
  <2> QED
    BY <2>1, <2>2
<1>4. ListGoals[g] = v.rollup
  BY <1>1 DEF ListGoals
<1>5. root # 0 => root \in roots
  BY <1>0, <1>1 DEF GlRefers, ListByGoal
<1>6. ASSUME roots = {root} PROVE v.rollup.count = Cardinality(v.tasks) /\ v.rollup.spent = SpentIn(v.tasks)
  <2>1. {t \in ListByGoal(g) : gtasks[t].parent = 0} = {root}
    BY <1>1, <1>6
  <2>2. root \in 1..Len(gtasks)
    BY <2>1 DEF ListByGoal
  <2>3. root # 0
    BY <2>2
  <2>4. sub = v.tasks
    BY <1>1, <2>1, OneTree
  <2> QED
    BY <1>2, <2>3, <2>4, Zenon
<1> QED
  BY <1>3, <1>4, <1>5, <1>6 DEF v

-----------------------------------------------------------------------------
(* What holds of goals.                                                    *)

LEMMA GlSafe == GoalsInv => GoalsSafe
<1> SUFFICES ASSUME GoalsInv PROVE GoalsSafe
  OBVIOUS
<1>1. GoalsTypeOK
  <2>1. ASSUME NEW g \in 1..Len(goals)
        PROVE  goals[g].status \in GlStatus /\ goals[g].root \in 0..Len(gtasks)
    <3>1. goals[g] \in GlRow /\ Len(gtasks) \in Nat
      BY GlRows DEF GoalsInv
    <3>2. goals[g].root = 0 \/ goals[g].root \in 1..Len(gtasks)
      BY DEF GoalsInv, GlRefers
    <3>3. goals[g].status \in GlStatus
      BY <3>1 DEF GlRow
    <3> QED
      BY <3>1, <3>2, <3>3
  <2>2. ASSUME NEW t \in 1..Len(gtasks)
        PROVE  /\ gtasks[t].goal \in 1..Len(goals) /\ gtasks[t].parent \in 0..(t - 1)
               /\ gtasks[t].assignee \in Workers \union {"none"}
    BY GlRows DEF GoalsInv, GlRefers, TkRow
  <2> QED
    BY <2>1, <2>2 DEF GoalsTypeOK, GlStatus
<1>2. TitleUsable
  <2> SUFFICES ASSUME NEW title \in Titles, FreeSlug(title) \in goalChannels
               PROVE  \/ title \in stranded \/ SlugExists(<<title, MaxSlug>>)
                      \/ \E c \in GoalCalls : glCalls[c].pc = "insert" /\ glCalls[c].slug = FreeSlug(title)
    BY DEF TitleUsable
  <2>1. FreeSlug(title)[1] = title /\ (SlugExists(FreeSlug(title)) => SlugExists(<<title, MaxSlug>>))
    BY FreeSlugIs
  <2> QED
    BY <2>1 DEF GoalsInv, GlChannels
<1>3. CostsAddUp
  BY GlCosts
<1> QED
  BY <1>1, <1>2, <1>3 DEF GoalsSafe, GoalsInv

\* Slugs keep goals apart and channels whole, trees are sound, work has an
\* agent and costs add up, whatever the trees proposed.
THEOREM GoalsCorrect == GoalsSpec => []GoalsSafe
<1>1. GoalsSpec => []GoalsInv
  BY GlInitInv, GlStep, PTL DEF GoalsSpec
<1> QED
  BY <1>1, GlSafe, PTL

NothingBack ==
  /\ \A t \in 1..Len(gtasks) :
       /\ gtasks[t].assignee # "none" => gtasks'[t].assignee = gtasks[t].assignee
       /\ gtasks[t].status \in TaskOver /\ ~WritesTask(t) => gtasks'[t].status = gtasks[t].status
  /\ \A g \in 1..Len(goals) :
       goals[g].status \in GoalOver /\ ~WritesGoal(g) => goals'[g].status = goals[g].status

LEMMA GlStays == GoalsInv /\ GoalsNext => NothingBack
<1> SUFFICES ASSUME GoalsInv, GoalsNext PROVE NothingBack
  OBVIOUS
<1>1. /\ goals \in Seq(GlRow) /\ gtasks \in Seq(TkRow) /\ glCalls \in [GoalCalls -> GlCall]
      /\ Len(goals) \in Nat /\ Len(gtasks) \in Nat
  BY GlRows DEF GoalsInv, GlTables
<1>2. CASE UNCHANGED <<goals, gtasks>>
  BY <1>2 DEF NothingBack
<1>3. ASSUME NEW c \in GoalCalls, InsertGoal(c) PROVE NothingBack
  <2>1. PICK row : goals' = Append(goals, row)
    BY <1>3 DEF InsertGoal
  <2>2. gtasks' = gtasks /\ \A g \in 1..Len(goals) : goals'[g] = goals[g]
    BY <1>1, <1>3, <2>1 DEF InsertGoal
  <2> QED
    BY <2>2 DEF NothingBack
<1>4. ASSUME NEW c \in GoalCalls, SetRootTask(c) PROVE NothingBack
  <2>1. gtasks' = gtasks /\ goals' = [goals EXCEPT ![glCalls[c].goal].root = glCalls[c].root]
    BY <1>4 DEF SetRootTask
  <2>2. \A g \in 1..Len(goals) : goals[g] \in GlRow
    BY GlRows DEF GoalsInv
  <2>3. \A g \in 1..Len(goals) : goals'[g].status = goals[g].status
    BY <1>1, <2>1, <2>2 DEF GlRow
  <2> QED
    BY <2>1, <2>3 DEF NothingBack
<1>5. ASSUME NEW c \in GoalCalls, WriteStatus(c) PROVE NothingBack
  <2>1. /\ gtasks' = gtasks /\ goals' = [goals EXCEPT ![glCalls[c].goal].status = glCalls[c].to]
        /\ glCalls' = [glCalls EXCEPT ![c] = NoCall] /\ glCalls[c].pc = "status"
    BY <1>5 DEF WriteStatus, Continue, SetCompletion, SetStatus
  <2>2. WritesGoal(glCalls[c].goal)
    BY <1>1, <2>1 DEF WritesGoal
  <2>3. \A g \in 1..Len(goals) : g # glCalls[c].goal => goals'[g] = goals[g]
    BY <1>1, <2>1
  <2> QED
    BY <2>1, <2>2, <2>3 DEF NothingBack
<1>6. ASSUME NEW c \in GoalCalls, StoreTransitionStatus(c) PROVE NothingBack
  <2>0. /\ goals' = goals
        /\ gtasks' = [gtasks EXCEPT ![glCalls[c].task].status = glCalls[c].to,
                                   ![glCalls[c].task].byHand = @ \/ (/\ glCalls[c].to = "claimed"
                                                                    /\ gtasks[glCalls[c].task].assignee = "none")]
        /\ glCalls' = [glCalls EXCEPT ![c] = NoCall] /\ glCalls[c].pc = "task"
    BY <1>6 DEF StoreTransitionStatus, Continue
  <2>1. PICK hand : /\ gtasks' = [gtasks EXCEPT ![glCalls[c].task].status = glCalls[c].to,
                                               ![glCalls[c].task].byHand = hand]
                    /\ goals' = goals /\ glCalls' = [glCalls EXCEPT ![c] = NoCall] /\ glCalls[c].pc = "task"
    BY <2>0
  <2>2. WritesTask(glCalls[c].task)
    BY <1>1, <2>1 DEF WritesTask
  <2>3. \A t \in 1..Len(gtasks) : t # glCalls[c].task => gtasks'[t] = gtasks[t]
    BY <1>1, <2>1
  <2>4. \A t \in 1..Len(gtasks) : gtasks[t] \in TkRow
    BY GlRows DEF GoalsInv
  <2>5. ASSUME NEW t \in 1..Len(gtasks), t = glCalls[c].task PROVE gtasks'[t].assignee = gtasks[t].assignee
    <3> DEFINE to == glCalls[c].to
    <3>0. gtasks' = [gtasks EXCEPT ![t].status = to, ![t].byHand = hand] /\ t \in DOMAIN gtasks
      BY <1>1, <2>1, <2>5
    <3> HIDE DEF to
    <3>1. gtasks'[t] = [gtasks[t] EXCEPT !.status = to, !.byHand = hand]
      BY <3>0
    <3> QED
      BY <2>4, <3>1 DEF TkRow
  <2> QED
    BY <2>1, <2>2, <2>3, <2>5 DEF NothingBack
<1>7. ASSUME NEW c \in GoalCalls, NEW t \in 1..Len(gtasks), NEW w, handleClaimTask(c, t, w) PROVE NothingBack
  <2>1. /\ goals' = goals /\ gtasks' = [gtasks EXCEPT ![t].assignee = w, ![t].status = "claimed"]
        /\ gtasks[t].assignee = "none" /\ gtasks[t].status = "approved"
    BY <1>7 DEF handleClaimTask, ClaimAtomic
  <2>2. \A s \in 1..Len(gtasks) : s # t => gtasks'[s] = gtasks[s]
    BY <1>1, <2>1
  <2> QED
    BY <2>1, <2>2 DEF NothingBack, TaskOver
<1>8. ASSUME NEW t \in 1..Len(gtasks), AddSpend(t) PROVE NothingBack
  <2>0. goals' = goals /\ gtasks' = [gtasks EXCEPT ![t].spent = gtasks[t].spent + 1]
    BY <1>8 DEF AddSpend
  <2>1. PICK more : gtasks' = [gtasks EXCEPT ![t].spent = more]
    BY <2>0
  <2>2. \A s \in 1..Len(gtasks) : gtasks[s] \in TkRow
    BY GlRows DEF GoalsInv
  <2>3. \A s \in 1..Len(gtasks) : gtasks'[s].assignee = gtasks[s].assignee /\ gtasks'[s].status = gtasks[s].status
    <3>1. gtasks'[t] = [gtasks[t] EXCEPT !.spent = more] /\ \A s \in 1..Len(gtasks) : s # t => gtasks'[s] = gtasks[s]
      BY <1>1, <2>1
    <3>2. gtasks'[t].assignee = gtasks[t].assignee /\ gtasks'[t].status = gtasks[t].status
      BY <2>2, <3>1 DEF TkRow
    <3> QED
      BY <3>1, <3>2
  <2> QED
    BY <2>0, <2>3 DEF NothingBack
<1>9. ASSUME NEW c \in GoalCalls, NEW g \in 1..Len(goals), NEW tree \in Trees, handleProposeTaskTree(c, g, tree)
      PROVE  NothingBack
  <2> DEFINE rows == [n \in 1..Len(tree) |-> Insert(g, tree, DefaultCode, n)]
  <2>1. goals' = goals /\ gtasks' = gtasks \o rows
    BY <1>9 DEF handleProposeTaskTree, CreateTree
  <2>2. Len(tree) \in Nat /\ \A n \in 1..Len(tree) : Insert(g, tree, DefaultCode, n) \in TkRow
    BY TreeNodes, GlNewRow
  <2>3. rows \in Seq(TkRow) /\ Len(rows) = Len(tree)
    BY <2>2
  <2> HIDE DEF rows
  <2>4. /\ Len(gtasks \o rows) = Len(gtasks) + Len(rows)
        /\ \A i \in 1..(Len(gtasks) + Len(rows)) :
             (gtasks \o rows)[i] = IF i <= Len(gtasks) THEN gtasks[i] ELSE rows[i - Len(gtasks)]
    BY <1>1, <2>3, ConcatProperties
  <2>5. ASSUME NEW t \in 1..Len(gtasks) PROVE gtasks'[t] = gtasks[t]
    <3>1. t \in 1..(Len(gtasks) + Len(rows)) /\ t <= Len(gtasks)
      BY <1>1, <2>2, <2>3
    <3> QED
      BY <2>1, <2>4, <3>1
  <2> QED
    BY <2>1, <2>5 DEF NothingBack
<1>10. PICK c \in GoalCalls :
         \/ CreateGoalChannel(c) \/ InsertGoal(c) \/ SetRootTask(c) \/ Activate(c)
         \/ WriteStatus(c) \/ StartClaimed(c) \/ StoreTransitionStatus(c) \/ GoalCallStops(c)
         \/ \E u \in GoalUsers : \/ \E title \in Titles : handleCreateGoal(c, title, u)
                                 \/ \E g \in 1..Len(goals), to \in GoalMoves :
                                       handleCompleteGoal(c, g, u, to)
         \/ \E g \in 1..Len(goals), tree \in Trees : handleProposeTaskTree(c, g, tree)
         \/ \E t \in 1..Len(gtasks) :
               \/ \E w \in Workers : handleClaimTask(c, t, w)
               \/ \E to \in TaskMoves : Transition(c, t, to)
               \/ AddSpend(t)
  BY DEF GoalsNext
<1>11. CreateGoalChannel(c) \/ Activate(c) \/ StartClaimed(c) \/ GoalCallStops(c) => UNCHANGED <<goals, gtasks>>
  BY DEF CreateGoalChannel, Activate, StartClaimed, Judge, GoalCallStops
<1>12. \A u \in GoalUsers : \A title \in Titles : handleCreateGoal(c, title, u) => UNCHANGED <<goals, gtasks>>
  BY DEF handleCreateGoal, CreateGoal
<1>13. \A u \in GoalUsers : \A g \in 1..Len(goals) : \A to \in GoalMoves :
         handleCompleteGoal(c, g, u, to) => UNCHANGED <<goals, gtasks>>
  BY DEF handleCompleteGoal, Complete
<1>14. \A t \in 1..Len(gtasks) : \A to \in TaskMoves : Transition(c, t, to) => UNCHANGED <<goals, gtasks>>
  BY DEF Transition, Judge
<1> HIDE DEF NothingBack
<1> QED
  BY <1>2, <1>3, <1>4, <1>5, <1>6, <1>7, <1>8, <1>9, <1>10, <1>11, <1>12, <1>13, <1>14

\* ClaimAtomic: a task stays with its agent.  A goal or a task that is over is
\* only written by a call that judged it before.
THEOREM OverStays == GoalsSpec => NothingReopened
<1>1. GoalsInv /\ [GoalsNext]_glVars => [NothingBack]_glVars
  BY GlStays
<1>2. GoalsSpec => [][NothingBack]_glVars
  BY <1>1, GlInitInv, GlStep, PTL DEF GoalsSpec
<1> QED
  BY <1>2 DEF NothingReopened, NothingBack

-----------------------------------------------------------------------------
(* The harness: executions, their rows and what they leave behind.         *)

ExecRow == [pc : {"idle", "start", "launch", "wait", "finish", "complete"}, run : 0..MaxHxRuns,
            cfg : Configs, backend : Registered \cup {Blank},
            dream : BOOLEAN, over : BOOLEAN, ok : BOOLEAN]

HxTables ==
  /\ config \in Configs /\ ex \in [HxCalls -> ExecRow]
  /\ hrun \in [HxRuns -> {"none", "running", "success", "failed"}]
  /\ reactive \in [HxRuns -> {"none", "running", "succeeded", "failed"}]
  /\ started \subseteq HxRuns /\ dirs \subseteq HxRuns /\ live \subseteq HxRuns /\ cutOff \subseteq HxRuns
  /\ nextRun \in 1..(MaxHxRuns + 1)

Verdict(ok) == IF ok THEN "success" ELSE "failed"

\* An execution under way: its rows say so, it is a Job only for the dream
\* worker, and what succeeded has left nothing at work and no directory.
ExecSound(c) ==
  ex[c].pc # "idle" =>
    LET e == ex[c]  r == ex[c].run IN
    /\ r \in HxRuns /\ r < nextRun
    /\ e.over => r \in cutOff
    /\ reactive[r] = IF e.dream THEN "none" ELSE "running"
    /\ e.backend = "k8sjob" => e.dream
    /\ e.pc \in {"start", "launch"} => r \notin live
    /\ e.pc # "complete" => hrun[r] \in {"none", "running"}
    /\ e.pc \in {"finish", "complete"} => /\ r \in live => ~e.ok /\ (e.dream \/ r \in cutOff)
                                          /\ e.ok /\ ~KeepWorkdir => r \notin dirs
    /\ e.pc = "complete" => r \notin started /\ (~e.over => hrun[r] = Verdict(e.ok))

Fresh(r) == hrun[r] = "none" /\ reactive[r] = "none" /\ r \notin started \cup dirs \cup live \cup cutOff

Waited(r) == \E c \in HxCalls : At(c, "wait") /\ ex[c].run = r

RunSettled(r) ==
  /\ r >= nextRun => Fresh(r)
  /\ hrun[r] = "running" \/ reactive[r] = "running" => InFlight(r) \/ r \in cutOff
  /\ r \in started => InFlight(r)
  /\ r \in live => Waited(r) \/ r \in cutOff \/ (hrun[r] # "success" /\ reactive[r] = "none")
  /\ r \in dirs /\ ~KeepWorkdir => hrun[r] # "success" /\ reactive[r] # "succeeded"
  /\ reactive[r] \in {"succeeded", "failed"} /\ hrun[r] # "running" =>
       (reactive[r] = "succeeded" <=> hrun[r] = "success")

RunsApart ==
  \A c, d \in HxCalls : ex[c].pc # "idle" /\ ex[d].pc # "idle" /\ ex[c].run = ex[d].run => c = d

HxInv ==
  HxTables /\ (\A c \in HxCalls : ExecSound(c)) /\ (\A r \in HxRuns : RunSettled(r)) /\ RunsApart

LEMMA NoExecIs == NoExec \in ExecRow /\ NoExec.pc = "idle" /\ NoExec.run = 0 /\ NoConfig \in Configs
<1>1. NoConfig \in Configs
  BY DEF NoConfig, Configs, HarnessNames, Blobs
<1>2. 0 \in 0..MaxHxRuns
  BY HarnessAssumption
<1> QED
  BY <1>1, <1>2 DEF NoExec, ExecRow

\* agentBackendKind and Resolve choose alike.
LEMMA Policy == PolicyAgrees
BY DEF PolicyAgrees, agentBackendKind, Resolve

LEMMA ResolveIs == ASSUME NEW a PROVE Resolve(a) \in Registered
BY DEF Resolve, Registered

\* What is laid over hides what is below.
LEMMA OverIs ==
  ASSUME NEW f, NEW e
  PROVE  /\ \A x \in DOMAIN f : x \in DOMAIN Over(f, e) /\ Over(f, e)[x] = f[x]
         /\ \A x \in DOMAIN e \ DOMAIN f : x \in DOMAIN Over(f, e) /\ Over(f, e)[x] = e[x]
BY DEF Over

LEMMA EnvOwn == EnvReserved
<1> SUFFICES ASSUME NEW h \in SUBSET EnvKeys, NEW a \in SUBSET EnvKeys, NEW g \in SUBSET EnvKeys,
                    NEW q \in SUBSET EnvKeys, NEW x \in SUBSET EnvKeys,
                    NEW k \in {"SYNAPBUS_RUN_ID", "SYNAPBUS_FROM_AGENT"}
             PROVE  /\ buildEnv(h, a, g, q)[k] = "server"
                    /\ \A j \in {k, "HOME"} \ x : buildRunArgs(buildEnvMap(a, g, q), x)[j] = "server"
                    /\ k \notin a \cup q => BuildHandler(a, q)[k] = "server"
  BY DEF EnvReserved
<1>1. DOMAIN Own = {"SYNAPBUS_RUN_ID", "SYNAPBUS_FROM_AGENT"} /\ Own[k] = "server"
  BY DEF Own, Layer
<1>2. k \in DOMAIN buildEnvMap(a, g, q) /\ buildEnvMap(a, g, q)[k] = "server"
  <2> DEFINE other == Over(Layer(q, "request"), Over(Layer(g, "config"), Layer(a, "agent")))
  <2>1. buildEnvMap(a, g, q) = Over(Own, other)
    BY DEF buildEnvMap
  <2> HIDE DEF other
  <2> QED
    BY <1>1, <2>1, OverIs
<1>3. buildEnv(h, a, g, q)[k] = "server"
  <2> DEFINE env == buildEnvMap(a, g, q)
             other == Layer(h, "host")
  <2>1. buildEnv(h, a, g, q) = Over(env, other)
    BY DEF buildEnv
  <2> HIDE DEF env, other
  <2> QED
    BY <1>2, <2>1, OverIs DEF env
<1>4. ASSUME NEW j \in {k, "HOME"} \ x PROVE buildRunArgs(buildEnvMap(a, g, q), x)[j] = "server"
  <2> DEFINE env == buildEnvMap(a, g, q)
             home == Layer({"HOME"}, "server")
             extra == Layer(x, "extra")
             inner == Over(home, env)
  <2>1. buildRunArgs(env, x) = Over(extra, inner) /\ DOMAIN extra = x
    BY DEF buildRunArgs, Layer
  <2>2. DOMAIN home = {"HOME"} /\ home["HOME"] = "server"
    BY DEF Layer
  <2>3. k \in DOMAIN env \ DOMAIN home /\ env[k] = "server"
    BY <1>2, <2>2
  <2> HIDE DEF env, home, extra
  <2>4. j \in DOMAIN inner /\ inner[j] = "server"
    BY <2>2, <2>3, OverIs
  <2> HIDE DEF inner
  <2> QED
    BY <2>1, <2>4, OverIs DEF env
<1>5. ASSUME k \notin a \cup q PROVE BuildHandler(a, q)[k] = "server"
  <2> DEFINE la == Layer(a, "agent")
             lf == Layer({"SYNAPBUS_FROM_AGENT"}, "server")
             lr == Layer({"SYNAPBUS_RUN_ID"}, "server")
             lq == Layer(q, "request")
             low == Over(la, lf)
             mid == Over(lr, low)
  <2>1. BuildHandler(a, q) = Over(lq, mid)
    BY DEF BuildHandler
  <2>2. /\ DOMAIN la = a /\ DOMAIN lq = q
        /\ DOMAIN lf = {"SYNAPBUS_FROM_AGENT"} /\ lf["SYNAPBUS_FROM_AGENT"] = "server"
        /\ DOMAIN lr = {"SYNAPBUS_RUN_ID"} /\ lr["SYNAPBUS_RUN_ID"] = "server"
    BY DEF Layer
  <2> HIDE DEF la, lf, lr, lq
  <2>3. k = "SYNAPBUS_FROM_AGENT" => k \in DOMAIN low /\ low[k] = "server"
    BY <1>5, <2>2, OverIs
  <2> HIDE DEF low
  <2>4. k \in DOMAIN mid /\ mid[k] = "server"
    <3>1. CASE k = "SYNAPBUS_RUN_ID"
      BY <2>2, <3>1, OverIs
    <3>2. CASE k = "SYNAPBUS_FROM_AGENT"
      BY <2>2, <2>3, <3>2, OverIs
    <3> QED
      BY <3>1, <3>2
  <2> HIDE DEF mid
  <2> QED
    BY <1>5, <2>1, <2>2, <2>4, OverIs
<1> QED
  BY <1>3, <1>4, <1>5

LEMMA HxSafe == HxInv => HarnessSafe
<1> SUFFICES ASSUME HxInv PROVE HarnessSafe
  OBVIOUS
<1>1. HarnessTypeOK
  BY DEF HxInv, HxTables, HarnessTypeOK, ExecRow
<1>2. VerdictsAgree
  BY DEF HxInv, RunSettled, VerdictsAgree, GetRun
<1>3. RowsSettle
  BY DEF HxInv, HxTables, RunSettled, RowsSettle
<1>4. NothingStray
  BY DEF HxInv, HxTables, RunSettled, NothingStray, Waited
<1> QED
  BY <1>1, <1>2, <1>3, <1>4, Policy, EnvOwn DEF HarnessSafe

LEMMA HxInitInv == HarnessInit => HxInv
<1> SUFFICES ASSUME HarnessInit PROVE HxInv
  OBVIOUS
<1> USE DEF HarnessInit
<1>1. HxTables
  <2>1. config \in Configs
    BY HarnessAssumption DEF Configs, HarnessNames, Blobs
  <2>2. 1 \in 1..(MaxHxRuns + 1)
    BY HarnessAssumption
  <2> QED
    BY <2>1, <2>2, NoExecIs DEF HxTables
<1>2. \A c \in HxCalls : ex[c].pc = "idle"
  BY NoExecIs
<1>3. \A c \in HxCalls : ExecSound(c)
  BY <1>2 DEF ExecSound
<1>4. \A r \in HxRuns : RunSettled(r)
  BY DEF RunSettled, Fresh
<1> QED
  BY <1>1, <1>2, <1>3, <1>4 DEF HxInv, RunsApart

\* Other runs are as they were.
Elsewhere(r) ==
  /\ nextRun' = nextRun
  /\ \A s \in HxRuns : s # r =>
       /\ hrun'[s] = hrun[s] /\ reactive'[s] = reactive[s]
       /\ (s \in started' <=> s \in started) /\ (s \in dirs' <=> s \in dirs)
       /\ (s \in live' <=> s \in live) /\ (s \in cutOff' <=> s \in cutOff)

\* A step of one execution, on its own run.
LEMMA HxOwnStep ==
  ASSUME HxInv, NEW c \in HxCalls, NEW r \in HxRuns, r = ex[c].run, NEW q, ex' = [ex EXCEPT ![c] = q],
         ex[c].pc # "idle", q.pc # "idle" => q.run = r,
         Elsewhere(r), HxTables', ExecSound(c)', RunSettled(r)'
  PROVE  HxInv'
<1>1. ex'[c] = q /\ \A d \in HxCalls : d # c => ex'[d] = ex[d]
  BY DEF HxInv, HxTables
<1>2. \A d \in HxCalls : d # c /\ ex[d].pc # "idle" => ex[d].run \in HxRuns /\ ex[d].run # r
  BY DEF HxInv, RunsApart, ExecSound
<1>3. ASSUME NEW d \in HxCalls, d # c PROVE ExecSound(d)'
  <2> SUFFICES ASSUME ex[d].pc # "idle" PROVE ExecSound(d)'
    BY <1>1, <1>3 DEF ExecSound
  <2>1. ExecSound(d) /\ ex[d].run \in HxRuns /\ ex[d].run # r
    BY <1>2, <1>3 DEF HxInv
  <2> QED
    BY <1>1, <1>3, <2>1 DEF ExecSound, Elsewhere
<1>4. ASSUME NEW s \in HxRuns, s # r PROVE RunSettled(s)'
  <2>1. InFlight(s) => InFlight(s)'
    BY <1>1, <1>4 DEF InFlight, At
  <2>2. Waited(s) => Waited(s)'
    BY <1>1, <1>4 DEF Waited, At
  <2>3. RunSettled(s)
    BY DEF HxInv
  <2> QED
    BY <1>4, <2>1, <2>2, <2>3 DEF RunSettled, Elsewhere, Fresh
<1>5. RunsApart'
  <2> SUFFICES ASSUME NEW d \in HxCalls, NEW e \in HxCalls, ex'[d].pc # "idle", ex'[e].pc # "idle",
                      ex'[d].run = ex'[e].run
               PROVE  d = e
    BY DEF RunsApart
  <2>1. CASE d # c /\ e # c
    BY <1>1, <2>1 DEF RunsApart, HxInv
  <2>2. CASE d = c /\ e # c
    BY <1>1, <1>2, <2>2
  <2>3. CASE d # c /\ e = c
    BY <1>1, <1>2, <2>3
  <2> QED
    BY <2>1, <2>2, <2>3
<1>7. \A d \in HxCalls : ExecSound(d)'
  BY <1>3
<1>8. \A s \in HxRuns : RunSettled(s)'
  BY <1>4
<1> QED
  BY <1>5, <1>7, <1>8 DEF HxInv

\* What a step makes of an execution.
MovesTo(q, e, p) ==
  /\ q \in ExecRow /\ q.pc = p /\ q.run = e.run /\ q.backend = e.backend /\ q.dream = e.dream
  /\ q.over = e.over

LEMMA MovesOn ==
  ASSUME NEW e \in ExecRow, NEW p \in {"idle", "start", "launch", "wait", "finish", "complete"}, NEW q,
         q = [e EXCEPT !.pc = p]
  PROVE  MovesTo(q, e, p) /\ q.ok = e.ok
BY DEF ExecRow, MovesTo

LEMMA WaitsNow ==
  ASSUME NEW e \in ExecRow, NEW q, q = [e EXCEPT !.pc = "wait", !.cfg = NoConfig]
  PROVE  MovesTo(q, e, "wait")
BY NoExecIs DEF ExecRow, MovesTo

LEMMA ComesBack ==
  ASSUME NEW e \in ExecRow, NEW ok \in BOOLEAN, NEW q,
         q = [e EXCEPT !.pc = "finish", !.ok = ok, !.cfg = NoConfig]
  PROVE  MovesTo(q, e, "finish") /\ q.ok = ok
BY NoExecIs DEF ExecRow, MovesTo

LEMMA RunsOut ==
  ASSUME NEW e \in ExecRow, NEW q, q = [e EXCEPT !.over = TRUE]
  PROVE  /\ q \in ExecRow /\ q.pc = e.pc /\ q.run = e.run /\ q.backend = e.backend /\ q.dream = e.dream
         /\ q.over = TRUE /\ q.ok = e.ok
BY DEF ExecRow

\* What is known of an execution under way.
LEMMA UnderWay ==
  ASSUME HxInv, NEW c \in HxCalls, ex[c].pc # "idle"
  PROVE  /\ ex[c] \in ExecRow /\ ex[c].run \in HxRuns /\ ExecSound(c) /\ RunSettled(ex[c].run)
         /\ ex[c].dream \in BOOLEAN /\ ex[c].over \in BOOLEAN /\ ex[c].ok \in BOOLEAN
<1>1. ex[c] \in ExecRow
  BY DEF HxInv, HxTables
<1>2. ExecSound(c) /\ ex[c].run \in HxRuns
  BY DEF HxInv, ExecSound
<1> QED
  BY <1>1, <1>2 DEF HxInv, ExecRow

\* After it, the execution is still under way with its run.
LEMMA StillThere ==
  ASSUME HxInv, NEW c \in HxCalls, NEW r, NEW q, ex' = [ex EXCEPT ![c] = q], q.pc # "idle", q.run = r
  PROVE  ex'[c] = q /\ InFlight(r)' /\ (q.pc = "wait" => Waited(r)')
<1>1. ex'[c] = q
  BY DEF HxInv, HxTables
<1> QED
  BY <1>1 DEF InFlight, Waited, At

LEMMA OnStartStep ==
  ASSUME HxInv, NEW c \in HxCalls, NEW stored \in BOOLEAN, OnStart(c, stored)
  PROVE  HxInv'
<1>0. PICK r : r = ex[c].run
  OBVIOUS
<1> DEFINE e == ex[c]
           q == [e EXCEPT !.pc = "launch"]
<1>1. /\ e.pc = "start" /\ started' = started \cup {r} /\ ex' = [ex EXCEPT ![c] = q]
      /\ hrun' = IF stored /\ ~e.over THEN [hrun EXCEPT ![r] = "running"] ELSE hrun
      /\ UNCHANGED <<config, reactive, dirs, live, nextRun, cutOff>>
  BY <1>0 DEF OnStart, At
<1>2. e \in ExecRow /\ r \in HxRuns /\ ExecSound(c) /\ RunSettled(r) /\ HxTables
  BY <1>0, <1>1, UnderWay DEF HxInv
<1>3. /\ q \in ExecRow /\ q.pc = "launch" /\ q.run = r /\ q.backend = e.backend /\ q.dream = e.dream
      /\ q.over = e.over /\ q.ok = e.ok
  BY <1>0, <1>2, MovesOn DEF MovesTo
<1> HIDE DEF q
<1>4. ex'[c] = q /\ InFlight(r)'
  <2>1. ex' = [ex EXCEPT ![c] = q] /\ q.pc # "idle" /\ q.run = r
    BY <1>1, <1>3
  <2> QED
    BY <2>1, StillThere
<1>5. /\ hrun' \in [HxRuns -> {"none", "running", "success", "failed"}]
      /\ hrun'[r] \in {"none", "running"} /\ \A s \in HxRuns : s # r => hrun'[s] = hrun[s]
  BY <1>0, <1>1, <1>2 DEF HxTables, ExecSound
<1>6. HxTables'
  BY <1>1, <1>2, <1>3, <1>5 DEF HxTables
<1>7. Elsewhere(r)
  BY <1>1, <1>5 DEF Elsewhere
<1>8. ExecSound(c)'
  BY <1>0, <1>1, <1>2, <1>3, <1>4, <1>5 DEF ExecSound
<1>9. RunSettled(r)'
  BY <1>0, <1>1, <1>2, <1>4, <1>5 DEF RunSettled, ExecSound, HxTables, HxRuns
<1> QED
  BY <1>1, <1>3, <1>6, <1>7, <1>8, <1>9, <1>0, <1>2, HxOwnStep

\* The work begins, or cannot begin.
LEMMA LaunchStep ==
  ASSUME HxInv, NEW c \in HxCalls, ex[c].pc = "launch",
         Works(c) \/ (Back(c, FALSE) /\ UNCHANGED live),
         dirs' = dirs \/ dirs' = dirs \cup {ex[c].run},
         UNCHANGED <<config, hrun, reactive, started, nextRun, cutOff>>
  PROVE  HxInv'
<1>0. PICK r : r = ex[c].run
  OBVIOUS
<1> DEFINE e == ex[c]
           w == [e EXCEPT !.pc = "wait", !.cfg = NoConfig]
           b == [e EXCEPT !.pc = "finish", !.ok = FALSE, !.cfg = NoConfig]
<1>1. e \in ExecRow /\ r \in HxRuns /\ ExecSound(c) /\ RunSettled(r) /\ HxTables
  BY <1>0, UnderWay DEF HxInv
<1>2. PICK q \in {w, b} : /\ ex' = [ex EXCEPT ![c] = q]
                          /\ q = w => live' = live \cup {r}
                          /\ q = b => live' = live
  <2>1. w # b
    <3>1. w.pc = "wait" /\ b.pc = "finish"
      <4>1. MovesTo(w, e, "wait")
        BY <1>1, WaitsNow
      <4>2. MovesTo(b, e, "finish")
        BY <1>1, ComesBack, Zenon
      <4> QED
        BY <4>1, <4>2 DEF MovesTo
    <3> QED
      BY <3>1
  <2>2. \/ ex' = [ex EXCEPT ![c] = w] /\ live' = live \cup {r}
        \/ ex' = [ex EXCEPT ![c] = b] /\ live' = live
    BY <1>0, <1>1 DEF Works, Back, HxTables
  <2> HIDE DEF w, b
  <2> QED
    BY <2>1, <2>2
<1>3. /\ q \in ExecRow /\ q.pc \in {"wait", "finish"} /\ q.run = r /\ q.backend = e.backend /\ q.dream = e.dream
      /\ q.over = e.over /\ (q.pc = "finish" => ~q.ok /\ q = b) /\ (q.pc = "wait" => q = w)
  <2>1. /\ w \in ExecRow /\ w.pc = "wait" /\ w.run = r /\ w.backend = e.backend /\ w.dream = e.dream
        /\ w.over = e.over
    BY <1>0, <1>1, WaitsNow, ZenonT(40) DEF MovesTo
  <2>2. /\ b \in ExecRow /\ b.pc = "finish" /\ b.run = r /\ b.backend = e.backend /\ b.dream = e.dream
        /\ b.over = e.over /\ b.ok = FALSE
    <3>1. MovesTo(b, e, "finish") /\ b.ok = FALSE
      BY <1>1, ComesBack, Zenon
    <3> HIDE DEF b
    <3> QED
      BY <1>0, <3>1 DEF MovesTo
  <2> HIDE DEF w, b
  <2> QED
    BY <1>2, <2>1, <2>2
<1> HIDE DEF w, b
<1>4. ex'[c] = q /\ InFlight(r)' /\ (q.pc = "wait" => Waited(r)')
  <2>1. ex' = [ex EXCEPT ![c] = q] /\ q.pc # "idle" /\ q.run = r
    BY <1>2, <1>3
  <2> QED
    BY <2>1, StillThere, ZenonT(40)
<1>5. live' \subseteq HxRuns /\ dirs' \subseteq HxRuns /\ r \notin live /\ (r \in live' => q.pc = "wait")
  BY <1>0, <1>1, <1>2, <1>3 DEF HxTables, ExecSound
<1>6. HxTables'
  BY <1>1, <1>2, <1>3, <1>5 DEF HxTables
<1>7. Elsewhere(r)
  BY <1>0, <1>2, <1>3 DEF Elsewhere
<1>8. ExecSound(c)'
  BY <1>0, <1>1, <1>3, <1>4, <1>5 DEF ExecSound
<1>9. RunSettled(r)'
  BY <1>0, <1>1, <1>4, <1>5 DEF RunSettled, ExecSound, HxTables, HxRuns
<1> QED
  BY <1>2, <1>3, <1>6, <1>7, <1>8, <1>9, <1>0, <1>1, HxOwnStep

\* The wait ends: the work is over, or it goes on as a Job of the dream worker
\* or because it was not killed with its context.
LEMMA WaitEndsStep ==
  ASSUME HxInv, NEW c \in HxCalls, ex[c].pc = "wait", NEW ok \in BOOLEAN, Back(c, ok),
         \/ live' = live \ {ex[c].run}
         \/ live' = live /\ ~ok /\ (ex[c].backend = "k8sjob" \/ ex[c].over),
         \/ dirs' = dirs /\ (~ok \/ KeepWorkdir)
         \/ dirs' = dirs \ {ex[c].run},
         UNCHANGED <<config, hrun, reactive, started, nextRun, cutOff>>
  PROVE  HxInv'
<1>0. PICK r : r = ex[c].run
  OBVIOUS
<1> DEFINE e == ex[c]
           q == [e EXCEPT !.pc = "finish", !.ok = ok, !.cfg = NoConfig]
<1>1. e \in ExecRow /\ r \in HxRuns /\ ExecSound(c) /\ RunSettled(r) /\ HxTables
  BY <1>0, UnderWay DEF HxInv
<1>2. ex' = [ex EXCEPT ![c] = q]
  BY <1>1 DEF Back, HxTables
<1>3. /\ q \in ExecRow /\ q.pc = "finish" /\ q.run = r /\ q.backend = e.backend /\ q.dream = e.dream
      /\ q.over = e.over /\ q.ok = ok
  <2>1. MovesTo(q, e, "finish") /\ q.ok = ok
    BY <1>1, ComesBack, ZenonT(40)
  <2> HIDE DEF q
  <2> QED
    BY <1>0, <2>1 DEF MovesTo
<1> HIDE DEF q
<1>4. ex'[c] = q /\ InFlight(r)'
  <2>1. ex' = [ex EXCEPT ![c] = q] /\ q.pc # "idle" /\ q.run = r
    BY <1>2, <1>3
  <2> QED
    BY <2>1, StillThere
<1>5. /\ live' \subseteq HxRuns /\ dirs' \subseteq HxRuns
      /\ r \in live' => ~ok /\ (e.dream \/ r \in cutOff)
      /\ ok /\ ~KeepWorkdir => r \notin dirs'
      /\ r \in dirs' => r \in dirs
  BY <1>0, <1>1 DEF HxTables, ExecSound
<1>6. HxTables'
  BY <1>1, <1>2, <1>3, <1>5 DEF HxTables
<1>7. Elsewhere(r)
  BY <1>0 DEF Elsewhere
<1>8. ExecSound(c)'
  BY <1>0, <1>1, <1>3, <1>4, <1>5 DEF ExecSound
<1>9. RunSettled(r)'
  BY <1>0, <1>1, <1>4, <1>5 DEF RunSettled, ExecSound, HxTables, HxRuns
<1> QED
  BY <1>2, <1>3, <1>6, <1>7, <1>8, <1>9, <1>0, <1>1, HxOwnStep

LEMMA ContextStep ==
  ASSUME HxInv, NEW c \in HxCalls, ContextEnds(c)
  PROVE  HxInv'
<1>0. PICK r : r = ex[c].run
  OBVIOUS
<1> DEFINE e == ex[c]
           q == [e EXCEPT !.over = TRUE]
<1>1. /\ e.pc # "idle" /\ ex' = [ex EXCEPT ![c] = q] /\ cutOff' = cutOff \cup {r}
      /\ UNCHANGED <<config, hrun, reactive, started, dirs, live, nextRun>>
  BY <1>0 DEF ContextEnds, At
<1>2. e \in ExecRow /\ r \in HxRuns /\ ExecSound(c) /\ RunSettled(r) /\ HxTables
  BY <1>0, <1>1, UnderWay DEF HxInv
<1>3. /\ q \in ExecRow /\ q.pc = e.pc /\ q.run = r /\ q.backend = e.backend /\ q.dream = e.dream
      /\ q.over = TRUE /\ q.ok = e.ok
  BY <1>0, <1>2, RunsOut
<1> HIDE DEF q
<1>4. ex'[c] = q /\ InFlight(r)'
  <2>1. ex' = [ex EXCEPT ![c] = q] /\ q.pc # "idle" /\ q.run = r
    BY <1>1, <1>3
  <2> QED
    BY <2>1, StillThere
<1>5. HxTables'
  BY <1>1, <1>2, <1>3 DEF HxTables
<1>6. Elsewhere(r)
  BY <1>1 DEF Elsewhere
<1>7. ExecSound(c)'
  BY <1>0, <1>1, <1>2, <1>3, <1>4 DEF ExecSound
<1>8. RunSettled(r)'
  BY <1>0, <1>1, <1>2, <1>4 DEF RunSettled, ExecSound, HxTables, HxRuns
<1> QED
  BY <1>1, <1>3, <1>5, <1>6, <1>7, <1>8, <1>0, <1>2, HxOwnStep

LEMMA FinishStep ==
  ASSUME HxInv, NEW c \in HxCalls, OnFinish(c)
  PROVE  HxInv'
<1>0. PICK r : r = ex[c].run
  OBVIOUS
<1> DEFINE e == ex[c]
           q == [e EXCEPT !.pc = "complete"]
<1>1. /\ e.pc = "finish" /\ started' = started \ {r} /\ ex' = [ex EXCEPT ![c] = q]
      /\ hrun' = IF e.over THEN hrun ELSE [hrun EXCEPT ![r] = Verdict(e.ok)]
      /\ UNCHANGED <<config, reactive, dirs, live, nextRun, cutOff>>
  BY <1>0 DEF OnFinish, At, Verdict
<1>2. e \in ExecRow /\ r \in HxRuns /\ ExecSound(c) /\ RunSettled(r) /\ HxTables /\ e.ok \in BOOLEAN /\ e.over \in BOOLEAN
  BY <1>0, <1>1, UnderWay DEF HxInv
<1>3. /\ q \in ExecRow /\ q.pc = "complete" /\ q.run = r /\ q.backend = e.backend /\ q.dream = e.dream
      /\ q.over = e.over /\ q.ok = e.ok
  BY <1>0, <1>2, MovesOn DEF MovesTo
<1> HIDE DEF q
<1>4. ex'[c] = q /\ InFlight(r)'
  <2>1. ex' = [ex EXCEPT ![c] = q] /\ q.pc # "idle" /\ q.run = r
    BY <1>1, <1>3
  <2> QED
    BY <2>1, StillThere
<1>5. /\ hrun' \in [HxRuns -> {"none", "running", "success", "failed"}]
      /\ \A s \in HxRuns : s # r => hrun'[s] = hrun[s]
      /\ ~e.over => hrun'[r] = Verdict(e.ok)
      /\ e.over => hrun'[r] \in {"none", "running"}
  BY <1>0, <1>1, <1>2 DEF HxTables, ExecSound, Verdict
<1>6. HxTables'
  BY <1>1, <1>2, <1>3, <1>5 DEF HxTables
<1>7. Elsewhere(r)
  BY <1>1, <1>5 DEF Elsewhere
<1>8. ExecSound(c)'
  BY <1>0, <1>1, <1>2, <1>3, <1>4, <1>5 DEF ExecSound
<1>9. RunSettled(r)'
  BY <1>0, <1>1, <1>2, <1>4, <1>5 DEF RunSettled, ExecSound, HxTables, HxRuns, Verdict
<1> QED
  BY <1>1, <1>3, <1>6, <1>7, <1>8, <1>9, <1>0, <1>2, HxOwnStep

LEMMA CompleteStep ==
  ASSUME HxInv, NEW c \in HxCalls, CompleteHarnessRun(c)
  PROVE  HxInv'
<1>0. PICK r : r = ex[c].run
  OBVIOUS
<1> DEFINE e == ex[c]
<1>1. /\ e.pc = "complete" /\ ex' = [ex EXCEPT ![c] = NoExec]
      /\ reactive' = IF e.dream \/ e.over THEN reactive
                     ELSE [reactive EXCEPT ![r] = IF e.ok THEN "succeeded" ELSE "failed"]
      /\ UNCHANGED <<config, hrun, started, dirs, live, nextRun, cutOff>>
  BY <1>0 DEF CompleteHarnessRun, At
<1>2. /\ e \in ExecRow /\ r \in HxRuns /\ ExecSound(c) /\ RunSettled(r) /\ HxTables
      /\ e.ok \in BOOLEAN /\ e.over \in BOOLEAN /\ e.dream \in BOOLEAN
  BY <1>0, <1>1, UnderWay DEF HxInv
<1>3. /\ reactive' \in [HxRuns -> {"none", "running", "succeeded", "failed"}]
      /\ \A s \in HxRuns : s # r => reactive'[s] = reactive[s]
      /\ reactive'[r] = IF e.dream THEN "none" ELSE IF e.over THEN "running" ELSE IF e.ok THEN "succeeded" ELSE "failed"
  BY <1>0, <1>1, <1>2 DEF HxTables, ExecSound
<1>4. ex'[c] = NoExec /\ NoExec.pc = "idle" /\ NoExec \in ExecRow
  BY <1>1, <1>2, NoExecIs DEF HxTables
<1>5. HxTables'
  BY <1>1, <1>2, <1>3, <1>4 DEF HxTables
<1>6. Elsewhere(r)
  BY <1>1, <1>3 DEF Elsewhere
<1>7. ExecSound(c)'
  BY <1>4 DEF ExecSound
<1>8. RunSettled(r)'
  BY <1>0, <1>1, <1>2, <1>3 DEF RunSettled, ExecSound, HxTables, HxRuns, Verdict
<1> QED
  BY <1>1, <1>4, <1>5, <1>6, <1>7, <1>8, <1>0, <1>2, HxOwnStep

LEMMA ConfigStep ==
  ASSUME HxInv, handleHarnessConfigSet
  PROVE  HxInv'
<1>1. PICK e \in Edits : UpdateHarnessConfig(e.name, e.command, e.blob)
  BY DEF handleHarnessConfigSet
<1>2. e.name \in HarnessNames \cup {"-"} /\ e.blob \in Blobs \cup {"-"}
  BY <1>1, HarnessAssumption
<1> DEFINE n == IF e.name = Blank THEN config.name ELSE IF e.name = "-" THEN Blank ELSE e.name
           m == IF e.command = Blank THEN config.command ELSE e.command # "-"
           b == IF e.blob = Blank THEN config.blob ELSE IF e.blob = "-" THEN Blank ELSE e.blob
<1>3. config' = [config EXCEPT !.name = n, !.command = m, !.blob = b]
  BY <1>1 DEF UpdateHarnessConfig
<1>4. config \in Configs
  BY DEF HxInv, HxTables
<1>5. n \in HarnessNames /\ b \in Blobs
  BY <1>2, <1>4 DEF Configs, HarnessNames, Blobs
<1>6. m \in BOOLEAN
  <2>1. config.command \in BOOLEAN
    BY <1>4 DEF Configs
  <2> QED
    BY <2>1, Zenon
<1> HIDE DEF n, m, b
<1>7. config' \in Configs
  BY <1>3, <1>4, <1>5, <1>6 DEF Configs
<1> QED
  BY <1>7 DEF handleHarnessConfigSet, HxInv, HxTables, ExecSound, RunSettled, Fresh, Waited, InFlight, At, RunsApart

\* An execution begins with a run nothing is known of.
LEMMA BeginStep ==
  ASSUME HxInv, NEW c \in HxCalls, NEW r \in HxRuns, NEW dream \in BOOLEAN, Begin(c, r, dream),
         \/ dream /\ reactive' = reactive
         \/ /\ ~dream /\ reactive' = [reactive EXCEPT ![r] = "running"]
            /\ Resolve(config) # "k8sjob",
         UNCHANGED <<config, hrun, started, dirs, live, cutOff>>
  PROVE  HxInv'
<1>1. /\ ex[c].pc = "idle" /\ r = nextRun /\ nextRun' = nextRun + 1
      /\ ex' = [ex EXCEPT ![c] = [NoExec EXCEPT !.pc = "start", !.run = r, !.cfg = config,
                                                !.backend = Resolve(config), !.dream = dream]]
  BY DEF Begin, At
<1>2. HxTables /\ RunSettled(r) /\ config \in Configs
  BY DEF HxInv, HxTables
<1>3. Fresh(r) /\ r \in 1..MaxHxRuns /\ MaxHxRuns \in Nat
  BY <1>1, <1>2, HarnessAssumption DEF RunSettled, HxRuns
<1>4. NoExec \in ExecRow /\ NoExec.over = FALSE
  BY NoExecIs DEF NoExec
<1>5. r \in 0..MaxHxRuns /\ Resolve(config) \in Registered
  BY <1>3, ResolveIs
<1>16. PICK n \in ExecRow, k \in Registered, a \in Configs : n = NoExec /\ k = Resolve(config) /\ a = config
  BY <1>2, <1>4, <1>5
<1>17. PICK q : q = [n EXCEPT !.pc = "start", !.run = r, !.cfg = a, !.backend = k, !.dream = dream]
  OBVIOUS
<1>6. q \in ExecRow /\ q.pc = "start" /\ q.run = r /\ q.backend = Resolve(config)
  <2>1. q \in ExecRow
    BY <1>5, <1>17 DEF ExecRow
  <2>2. q.pc = "start" /\ q.run = r /\ q.backend = k
    BY <1>17 DEF ExecRow
  <2> QED
    BY <1>16, <2>1, <2>2
<1>18. q.dream = dream /\ q.over = n.over
  BY <1>17 DEF ExecRow
<1>15. ex' = [ex EXCEPT ![c] = q] /\ q.over = FALSE
  BY <1>1, <1>4, <1>16, <1>17, <1>18, Zenon
<1>7. ex'[c] = q /\ \A d \in HxCalls : d # c => ex'[d] = ex[d]
  BY <1>2, <1>15 DEF HxTables
<1>8. /\ reactive' \in [HxRuns -> {"none", "running", "succeeded", "failed"}]
      /\ \A s \in HxRuns : s # r => reactive'[s] = reactive[s]
      /\ reactive'[r] = IF dream THEN "none" ELSE "running"
  BY <1>2, <1>3 DEF HxTables, Fresh
<1>9. HxTables'
  BY <1>1, <1>2, <1>3, <1>6, <1>18, <1>15, <1>8 DEF HxTables
<1>10. \A d \in HxCalls : d # c /\ ex[d].pc # "idle" => ex[d].run \in HxRuns /\ ex[d].run < r
  BY <1>1 DEF HxInv, ExecSound
<1>11. r \in Nat /\ nextRun' = r + 1
  BY <1>1, <1>3
<1>12. ASSUME NEW d \in HxCalls PROVE ExecSound(d)'
  <2>1. CASE d = c
    <3>1. /\ hrun'[r] = "none" /\ r \notin live'
          /\ reactive'[r] = IF q.dream THEN "none" ELSE "running"
      BY <1>3, <1>8, <1>18 DEF Fresh
    <3>2. q.backend = "k8sjob" => q.dream
      BY <1>6, <1>18, Zenon
    <3>3. r \in HxRuns /\ r < nextRun'
      BY <1>11
    <3>4. ex'[d] = q /\ q.run = r /\ q.pc = "start" /\ q.over = FALSE
      BY <1>6, <1>7, <1>15, <2>1
    <3> QED
      BY <3>1, <3>2, <3>3, <3>4 DEF ExecSound
  <2>2. CASE d # c /\ ex[d].pc = "idle"
    BY <1>7, <2>2 DEF ExecSound
  <2>3. CASE d # c /\ ex[d].pc # "idle"
    <3>1. PICK s \in HxRuns : s = ex[d].run
      BY <1>10, <2>3
    <3>2. s < r /\ s # r /\ s < nextRun' /\ s \in Nat
      BY <1>3, <1>10, <1>11, <2>3, <3>1 DEF HxRuns
    <3>3. ExecSound(d) /\ ex'[d] = ex[d]
      BY <1>7, <2>3 DEF HxInv
    <3> QED
      BY <1>8, <2>3, <3>1, <3>2, <3>3 DEF ExecSound
  <2> QED
    BY <2>1, <2>2, <2>3
<1>13. ASSUME NEW s \in HxRuns PROVE RunSettled(s)'
  <2>1. InFlight(s) => InFlight(s)'
    BY <1>1, <1>7 DEF InFlight, At
  <2>2. Waited(s) => Waited(s)'
    BY <1>1, <1>7 DEF Waited, At
  <2>3. CASE s = r
    <3>1. InFlight(s)'
      BY <1>6, <1>7, <2>3 DEF InFlight, At
    <3>2. ~(s >= nextRun')
      BY <1>11, <2>3
    <3> QED
      BY <1>3, <1>8, <2>3, <3>1, <3>2 DEF RunSettled, Fresh
  <2>4. CASE s # r
    <3>1. RunSettled(s)
      BY DEF HxInv
    <3>2. s >= nextRun' => s >= nextRun
      BY <1>1, <1>3, <1>11 DEF HxRuns
    <3> QED
      BY <1>8, <2>1, <2>2, <2>4, <3>1, <3>2 DEF RunSettled, Fresh
  <2> QED
    BY <2>3, <2>4
<1>14. RunsApart'
  <2>1. \A d \in HxCalls : d # c /\ ex[d].pc # "idle" => ex[d].run # r
    BY <1>10, <1>11 DEF HxRuns
  <2> QED
    BY <1>6, <1>7, <1>15, <2>1 DEF HxInv, RunsApart
<1> QED
  BY <1>9, <1>12, <1>13, <1>14 DEF HxInv

LEMMA CrashStep ==
  ASSUME HxInv, HarnessCrash
  PROVE  HxInv'
<1>1. /\ ex' = [c \in HxCalls |-> NoExec] /\ started' = {} /\ cutOff' = cutOff \cup {r \in HxRuns : InFlight(r)}
      /\ UNCHANGED <<config, hrun, reactive, dirs, live, nextRun>>
  BY DEF HarnessCrash
<1>2. HxTables'
  BY <1>1, NoExecIs DEF HxInv, HxTables
<1>3. \A c \in HxCalls : ex'[c].pc = "idle"
  BY <1>1, NoExecIs
<1>4. \A c \in HxCalls : ExecSound(c)'
  BY <1>3 DEF ExecSound
<1>5. RunsApart'
  BY <1>3 DEF RunsApart
<1>6. ASSUME NEW r \in HxRuns PROVE RunSettled(r)'
  <2>1. RunSettled(r)
    BY DEF HxInv
  <2>2. Waited(r) => InFlight(r)
    BY DEF Waited, InFlight, At
  <2>3. InFlight(r) => r < nextRun
    BY DEF InFlight, At, HxInv, ExecSound
  <2>4. InFlight(r) => ~(r >= nextRun)
    BY <2>3 DEF HxInv, HxTables, HxRuns
  <2>5. r \in cutOff' <=> r \in cutOff \/ InFlight(r)
    BY <1>1
  <2> QED
    BY <1>1, <2>1, <2>2, <2>4, <2>5 DEF RunSettled, Fresh
<1> QED
  BY <1>2, <1>4, <1>5, <1>6 DEF HxInv

LEMMA StrayStep ==
  ASSUME HxInv, NEW r \in HxRuns, StrayEnds(r)
  PROVE  HxInv'
<1>1. live' = live \ {r} /\ UNCHANGED <<config, ex, hrun, reactive, started, dirs, nextRun, cutOff>>
  BY DEF StrayEnds
<1>2. HxTables' /\ RunsApart'
  BY <1>1 DEF HxInv, HxTables, RunsApart
<1>3. ASSUME NEW c \in HxCalls PROVE ExecSound(c)'
  BY <1>1 DEF HxInv, ExecSound
<1>4. ASSUME NEW s \in HxRuns PROVE RunSettled(s)'
  BY <1>1 DEF HxInv, RunSettled, Fresh, Waited, InFlight, At
<1> QED
  BY <1>2, <1>3, <1>4 DEF HxInv

LEMMA HxStep == HxInv /\ [HarnessNext]_hxVars => HxInv'
<1> SUFFICES ASSUME HxInv, [HarnessNext]_hxVars PROVE HxInv'
  OBVIOUS
<1>1. CASE UNCHANGED hxVars
  BY <1>1 DEF hxVars, HxInv, HxTables, ExecSound, RunSettled, Fresh, Waited, InFlight, At, RunsApart
<1>2. ASSUME NEW c \in HxCalls, NEW r \in HxRuns, dispatchHarness(c, r) PROVE HxInv'
  <2>1. /\ agentBackendKind(config) \in {"subprocess", "docker", "webhook"} /\ Begin(c, r, FALSE)
        /\ reactive' = [reactive EXCEPT ![r] = "running"]
        /\ UNCHANGED <<config, hrun, started, dirs, live, cutOff>>
    BY <1>2 DEF dispatchHarness
  <2>2. Resolve(config) # "k8sjob"
    <3>1. config \in Configs
      BY DEF HxInv, HxTables
    <3>2. Resolve(config) = agentBackendKind(config)
      BY <2>1, <3>1, Policy DEF PolicyAgrees
    <3> QED
      BY <2>1, <3>2
  <2> QED
    BY <2>1, <2>2, BeginStep
<1>3. ASSUME NEW c \in HxCalls, NEW r \in HxRuns, DreamExecute(c, r) PROVE HxInv'
  <2>1. Begin(c, r, TRUE) /\ UNCHANGED <<config, hrun, reactive, started, dirs, live, cutOff>>
    BY <1>3 DEF DreamExecute
  <2> QED
    BY <2>1, BeginStep
<1>4. ASSUME NEW c \in HxCalls, NEW b \in BOOLEAN, K8sJobExecute(c, b) PROVE HxInv'
  <2>1. /\ ex[c].pc = "launch" /\ (Works(c) \/ (Back(c, FALSE) /\ UNCHANGED live))
        /\ UNCHANGED <<config, hrun, reactive, started, dirs, nextRun, cutOff>>
    BY <1>4 DEF K8sJobExecute, At
  <2> QED
    BY <2>1, LaunchStep
<1>5. ASSUME NEW c \in HxCalls, SubprocessExecute(c) \/ DockerExecute(c) \/ WebhookExecute(c) PROVE HxInv'
  <2>1. /\ ex[c].pc = "launch" /\ (Works(c) \/ (Back(c, FALSE) /\ UNCHANGED live))
        /\ (dirs' = dirs \/ dirs' = dirs \cup {ex[c].run})
        /\ UNCHANGED <<config, hrun, reactive, started, nextRun, cutOff>>
    BY <1>5 DEF SubprocessExecute, DockerExecute, WebhookExecute, At
  <2> QED
    BY <2>1, LaunchStep
<1>6. ASSUME NEW c \in HxCalls, NEW ok \in BOOLEAN, WorkEnds(c, ok) PROVE HxInv'
  <2>1. /\ ex[c].pc = "wait" /\ Back(c, ok) /\ live' = live \ {ex[c].run}
        /\ ((dirs' = dirs /\ (~ok \/ KeepWorkdir)) \/ dirs' = dirs \ {ex[c].run})
        /\ UNCHANGED <<config, hrun, reactive, started, nextRun, cutOff>>
    BY <1>6 DEF WorkEnds, TidyUp, At
  <2> QED
    BY <2>1, WaitEndsStep
<1>7. ASSUME NEW c \in HxCalls, NEW gone \in BOOLEAN, Killed(c, gone) PROVE HxInv'
  <2>1. /\ ex[c].pc = "wait" /\ Back(c, FALSE) /\ (live' = live \ {ex[c].run} \/ (live' = live /\ ex[c].over))
        /\ UNCHANGED <<config, hrun, reactive, started, dirs, nextRun, cutOff>>
    BY <1>7 DEF Killed, At
  <2> QED
    BY <2>1, WaitEndsStep
<1>8. ASSUME NEW c \in HxCalls, check(c) PROVE HxInv'
  <2>1. /\ ex[c].pc = "wait" /\ Back(c, FALSE) /\ ex[c].backend = "k8sjob"
        /\ UNCHANGED <<config, hrun, reactive, started, dirs, live, nextRun, cutOff>>
    BY <1>8 DEF check, At
  <2> QED
    BY <2>1, WaitEndsStep
<1>10. \A c \in HxCalls : HourPasses(c) \/ WallclockPasses(c) => HxInv'
  BY ContextStep DEF HourPasses, WallclockPasses
<1>9. CASE HarnessNext
  BY <1>2, <1>3, <1>4, <1>5, <1>6, <1>7, <1>8, <1>9, <1>10, ConfigStep, OnStartStep, FinishStep, CompleteStep,
     CrashStep, StrayStep DEF HarnessNext
<1> QED
  BY <1>1, <1>9

\* The reactor and the Registry choose alike, the server's own variables win,
\* the two tables of runs agree, and rows, start times, work and directories
\* are settled with the execution, whatever is cut off or crashes.
THEOREM HarnessCorrect == HarnessSpec => []HarnessSafe
<1>1. HarnessSpec => []HxInv
  BY HxInitInv, HxStep, PTL DEF HarnessSpec
<1> QED
  BY <1>1, HxSafe, PTL

-----------------------------------------------------------------------------
(* The embedding pipeline.                                                 *)

Vectors == [EmMessages -> Providers \union {NoProvider}]

ItemRow == [status : {"none", "pending", "processing", "completed", "failed"}, attempts : Nat]

WorkerRow == [pc : {"idle", "embed", "answered", "requeue", "row", "close"},
              batch : SUBSET EmMessages, msg : EmMessages \union {NoMessage}]

ServerRow == [up : BOOLEAN, boot : {"off", "provider", "rows", "queue", "index", "enqueue"},
              provider : Providers \union {NoProvider}, starts : Nat]

EmTables ==
  /\ emMsgs \in [EmMessages -> {"absent", "live", "gone"}]
  /\ emQueue \in [EmMessages -> ItemRow]
  /\ rowOf \in Vectors /\ index \in Vectors /\ indexFile \in Vectors
  /\ workers \in [EmWorkers -> WorkerRow]
  /\ server \in ServerRow
  /\ server.up => server.provider \in Providers /\ server.boot = "off"
  /\ server.boot # "off" => server.provider \in Providers
  /\ admin \in [pc : {"idle", "queue", "index", "enqueue"}, again : BOOLEAN]
  /\ admin.pc # "idle" => server.up

\* What a worker has in hand.
Has(w, m) == m \in workers[w].batch \/ (m = workers[w].msg /\ m # NoMessage)

\* A worker without a server has nothing; what it has in hand is processing and
\* its own, unless the tables were cleared; its vector precedes its row.
WorkerSound(w) ==
  /\ ~server.up => workers[w] = IdleWorker
  /\ workers[w].pc \in {"row", "close"} <=> workers[w].msg # NoMessage
  /\ workers[w].pc \in {"idle", "requeue"} => workers[w].batch = {}
  /\ workers[w].msg \notin workers[w].batch
  /\ \A m \in EmMessages : Has(w, m) => emMsgs[m] # "absent"
  /\ \A m \in EmMessages : Has(w, m) /\ Live(m) /\ m \notin overtaken =>
        emQueue[m].status = "processing"
  /\ workers[w].pc = "row" =>
        index[workers[w].msg] = server.provider \/ workers[w].msg \in overtaken
  /\ workers[w].pc = "close" /\ Live(workers[w].msg) =>
        rowOf[workers[w].msg] # NoProvider \/ workers[w].msg \in overtaken

\* No two workers have a message in hand.
BatchesApart ==
  \A v, w \in EmWorkers, m \in EmMessages :
    Has(v, m) /\ Has(w, m) /\ Live(m) /\ m \notin overtaken => v = w

\* The row is the last thing a worker writes before it closes the item: what has
\* a row waits for no worker, whichever provider the row names.
RowsLast ==
  \A m \in EmMessages : rowOf[m] # NoProvider /\ m \notin overtaken =>
    /\ emQueue[m].status \notin {"pending", "failed"}
    /\ \A w \in EmWorkers : Has(w, m) => workers[w].pc = "close" /\ workers[w].msg = m

\* Only what is there has an item or a row.  What has neither is known to the
\* histories; while the administrator empties the tables, it has no item either.
Provided(m) == rowOf[m] # NoProvider \/ emQueue[m].status \in {"pending", "failed"}
                 \/ m \in InBatch \/ m \in strandedItems \/ m \in overtaken

MessageSound(m) ==
  /\ ~Live(m) => emQueue[m].status = "none" /\ rowOf[m] = NoProvider
  /\ emQueue[m].attempts <= RetryMaxAttempts
  /\ emQueue[m].status = "pending" => emQueue[m].attempts < RetryMaxAttempts
  /\ Live(m) => Provided(m) \/ m \in cleared \/ (~server.up /\ emQueue[m].status = "none")
  /\ Live(m) /\ admin.pc \in {"index", "enqueue"} => Provided(m) \/ emQueue[m].status = "none"
  /\ rowOf[m] # NoProvider /\ m \notin unsaved /\ m \notin overtaken =>
        rowOf[m] = IF server.up \/ server.boot # "off" THEN index[m] ELSE indexFile[m]

EmInv ==
  /\ EmTables /\ BatchesApart /\ RowsLast
  /\ \A w \in EmWorkers : WorkerSound(w)
  /\ \A m \in EmMessages : MessageSound(m)

LEMMA InBatchIs ==
  ASSUME NEW m
  PROVE  m \in InBatch <=> \E w \in EmWorkers : Has(w, m)
BY DEF InBatch, Has

LEMMA EmInitInv == EmbeddingsInit => EmInv
<1> SUFFICES ASSUME EmbeddingsInit PROVE EmInv
  OBVIOUS
<1>1. EmTables
  BY DEF EmbeddingsInit, EmTables, ServerRow, Vectors, NoVectors, ItemRow, NoItem, WorkerRow, IdleWorker, NoAdmin
<1>2. \A w \in EmWorkers : workers[w] = IdleWorker
  BY DEF EmbeddingsInit
<1>3. BatchesApart
  BY <1>2 DEF BatchesApart, Has, IdleWorker
<1>4. \A w \in EmWorkers : WorkerSound(w)
  BY <1>2 DEF WorkerSound, Has, IdleWorker
<1>5. \A m \in EmMessages : MessageSound(m)
  BY EmbeddingsAssumption DEF MessageSound, EmbeddingsInit, Live, NoItem, NoAdmin
<1>6. RowsLast
  BY DEF RowsLast, EmbeddingsInit
<1> QED
  BY <1>1, <1>3, <1>4, <1>5, <1>6 DEF EmInv

-----------------------------------------------------------------------------
(* Steps.  An item changes its status, or a worker moves on.               *)

\* What Enqueue and SetItemStatus return.
LEMMA EnqueueIs ==
  ASSUME NEW q \in [EmMessages -> ItemRow], NEW S
  PROVE  /\ Enqueue(q, S) \in [EmMessages -> ItemRow]
         /\ \A m \in EmMessages :
              Enqueue(q, S)[m] = IF m \in S /\ q[m].status = "none"
                                 THEN [status |-> "pending", attempts |-> 0] ELSE q[m]
BY DEF Enqueue, ItemRow

LEMMA SetItemStatusIs ==
  ASSUME NEW q \in [EmMessages -> ItemRow], NEW S,
         NEW x \in {"pending", "processing", "completed", "failed"}
  PROVE  /\ SetItemStatus(q, S, x) \in [EmMessages -> ItemRow]
         /\ \A m \in EmMessages :
              /\ SetItemStatus(q, S, x)[m].attempts = q[m].attempts
              /\ SetItemStatus(q, S, x)[m].status =
                   IF m \in S /\ q[m].status # "none" THEN x ELSE q[m].status
<1>1. \A m \in EmMessages : q[m] \in ItemRow
  OBVIOUS
<1>2. \A m \in EmMessages : SetItemStatus(q, S, x)[m] =
        IF m \in S /\ q[m].status # "none" THEN [q[m] EXCEPT !.status = x] ELSE q[m]
  BY DEF SetItemStatus
<1>3. \A e \in ItemRow : /\ [e EXCEPT !.status = x] \in ItemRow
                         /\ [e EXCEPT !.status = x].status = x
                         /\ [e EXCEPT !.status = x].attempts = e.attempts
  BY DEF ItemRow
<1>4. SetItemStatus(q, S, x) = [m \in EmMessages |->
        IF m \in S /\ q[m].status # "none" THEN [q[m] EXCEPT !.status = x] ELSE q[m]]
  BY DEF SetItemStatus
<1>6. \A m \in EmMessages :
        (IF m \in S /\ q[m].status # "none" THEN [q[m] EXCEPT !.status = x] ELSE q[m]) \in ItemRow
  BY <1>1, <1>3
<1>5. SetItemStatus(q, S, x) \in [EmMessages -> ItemRow]
  BY <1>4, <1>6
<1>7. ASSUME NEW m \in EmMessages
      PROVE  /\ SetItemStatus(q, S, x)[m].attempts = q[m].attempts
             /\ SetItemStatus(q, S, x)[m].status =
                  IF m \in S /\ q[m].status # "none" THEN x ELSE q[m].status
  <2>1. CASE m \in S /\ q[m].status # "none"
    <3>1. SetItemStatus(q, S, x)[m] = [q[m] EXCEPT !.status = x]
      BY <1>2, <2>1
    <3> QED
      BY <1>1, <1>3, <2>1, <3>1
  <2>2. CASE ~(m \in S /\ q[m].status # "none")
    <3>1. SetItemStatus(q, S, x)[m] = q[m]
      BY <1>2, <2>2
    <3> QED
      BY <2>2, <3>1
  <2> QED
    BY <2>1, <2>2
<1> QED
  BY <1>5, <1>7

\* A worker goes on with q and puts down the rest of what it has in hand: the
\* items of S get status x, which provides for their messages.
PutsDown(w, q, S, x) ==
  /\ workers[w].pc # "idle" /\ q \in WorkerRow /\ workers' = [workers EXCEPT ![w] = q]
  /\ q.pc \in {"idle", "answered", "requeue"} /\ q.msg = NoMessage
  /\ q.pc \in {"idle", "requeue"} => q.batch = {}
  /\ q.batch \subseteq workers[w].batch
  /\ x \in {"pending", "completed", "failed"}
  /\ emQueue' \in [EmMessages -> ItemRow]
  /\ \A m \in EmMessages :
       /\ emQueue'[m].attempts = emQueue[m].attempts
       /\ emQueue'[m].status = IF m \in S /\ emQueue[m].status # "none" THEN x ELSE emQueue[m].status
  /\ \A m \in EmMessages : Live(m) /\ m \notin overtaken /\ Has(w, m) /\ m \notin q.batch =>
       m \in S /\ (x = "completed" => rowOf[m] # NoProvider)
  /\ \A m \in EmMessages : Live(m) /\ m \notin overtaken /\ m \in S =>
       \/ Has(w, m) /\ m \notin q.batch
       \/ x = "pending" /\ emQueue[m].status = "failed"
  /\ x = "pending" => \A m \in S : emQueue[m].attempts < RetryMaxAttempts
  /\ x # "completed" => \A m \in EmMessages : m \in S /\ m \notin overtaken => rowOf[m] = NoProvider
  /\ UNCHANGED <<emMsgs, rowOf, index, indexFile, server, admin, emNotes>>

LEMMA PutDown ==
  ASSUME EmInv, NEW w \in EmWorkers, NEW q, NEW S, NEW x, PutsDown(w, q, S, x)
  PROVE  EmInv'
<1> USE DEF PutsDown
<1>0. UNCHANGED <<emMsgs, rowOf, index, indexFile, server, admin, strandedItems, unsaved, overtaken, cleared>>
  BY DEF emNotes
<1>1. /\ EmTables /\ BatchesApart /\ WorkerSound(w) /\ server.up
      /\ \A m \in EmMessages : MessageSound(m)
  BY DEF EmInv, WorkerSound, IdleWorker
<1>2. EmTables'
  BY <1>0, <1>1 DEF EmTables
<1>3. workers'[w] = q /\ \A v \in EmWorkers : v # w => workers'[v] = workers[v]
  BY <1>1 DEF EmTables
<1>4. ASSUME NEW m \in EmMessages
      PROVE  /\ Has(w, m)' <=> m \in q.batch
             /\ m \in q.batch => Has(w, m)
             /\ \A v \in EmWorkers : v # w => (Has(v, m)' <=> Has(v, m))
             /\ Live(m)' <=> Live(m)
  BY <1>0, <1>3 DEF Has, Live
<1>5. BatchesApart'
  BY <1>0, <1>1, <1>4 DEF BatchesApart
<1>6. ASSUME NEW m \in EmMessages, Live(m), m \notin overtaken, m \notin S \/ emQueue[m].status = "none"
      PROVE  emQueue'[m].status = emQueue[m].status
  BY <1>6
<1>7. ASSUME NEW v \in EmWorkers PROVE WorkerSound(v)'
  <2>1. ASSUME NEW m \in EmMessages, Has(v, m)', Live(m), m \notin overtaken
        PROVE  emQueue'[m].status = "processing"
    <3>1. Has(v, m)
      BY <1>4, <2>1
    <3>2. emQueue[m].status = "processing"
      BY <2>1, <3>1 DEF EmInv, WorkerSound
    <3>3. Has(w, m) => v = w
      BY <1>1, <2>1, <3>1 DEF BatchesApart
    <3>4. m \notin S
      BY <1>4, <2>1, <3>2, <3>3
    <3> QED
      BY <3>2, <3>4
  <2>2. CASE v = w
    BY <1>0, <1>1, <1>3, <1>4, <2>1, <2>2, EmbeddingsAssumption DEF WorkerSound, WorkerRow
  <2>3. CASE v # w
    <3>1. WorkerSound(v) /\ workers'[v] = workers[v]
      BY <1>3, <2>3 DEF EmInv
    <3> QED
      BY <1>0, <1>4, <2>1, <3>1 DEF WorkerSound, Live
  <2> QED
    BY <2>2, <2>3
<1>8. ASSUME NEW m \in EmMessages PROVE MessageSound(m)'
  <2>1. MessageSound(m)
    BY <1>1
  <2>2. ASSUME Live(m), Provided(m) PROVE Provided(m)'
    <3>1. CASE m \in overtaken \/ m \in strandedItems \/ rowOf[m] # NoProvider
      BY <1>0, <3>1 DEF Provided
    <3>2. CASE m \notin overtaken /\ emQueue[m].status \in {"pending", "failed"}
      <4>1. ~Has(w, m)
        BY <1>1, <2>2, <3>2 DEF WorkerSound
      <4>2. emQueue'[m].status \in {"pending", "failed"}
        BY <2>2, <3>2, <4>1
      <4> QED
        BY <4>2 DEF Provided
    <3>3. CASE m \notin overtaken /\ m \in InBatch
      <4>1. PICK v \in EmWorkers : Has(v, m)
        BY <3>3, InBatchIs
      <4>2. CASE v # w \/ m \in q.batch
        <5>1. Has(v, m)'
          BY <1>4, <4>1, <4>2
        <5>2. \E u \in EmWorkers : Has(u, m)'
          BY <5>1
        <5>3. (m \in InBatch)'
          BY <5>2 DEF InBatch, Has
        <5> QED
          BY <5>3 DEF Provided
      <4>3. CASE v = w /\ m \notin q.batch
        <5>1. emQueue[m].status = "processing"
          BY <1>1, <2>2, <3>3, <4>1, <4>3 DEF WorkerSound
        <5>2. m \in S /\ (x = "completed" => rowOf[m] # NoProvider)
          BY <2>2, <3>3, <4>1, <4>3
        <5> QED
          BY <1>0, <5>1, <5>2 DEF Provided
      <4> QED
        BY <4>2, <4>3
    <3> QED
      BY <2>2, <3>1, <3>2, <3>3 DEF Provided
  <2>3. emQueue[m].status = "none" => emQueue'[m].status = "none"
    OBVIOUS
  <2>4. /\ emQueue'[m].attempts = emQueue[m].attempts
        /\ emQueue'[m].status = "pending" => emQueue[m].status = "pending" \/ (m \in S /\ x = "pending")
    OBVIOUS
  <2> QED
    BY <1>0, <1>1, <1>4, <2>1, <2>2, <2>3, <2>4 DEF MessageSound
<1>9. RowsLast'
  <2> SUFFICES ASSUME NEW m \in EmMessages, rowOf[m] # NoProvider, m \notin overtaken
               PROVE  /\ emQueue'[m].status \notin {"pending", "failed"}
                      /\ \A v \in EmWorkers : Has(v, m)' => workers'[v].pc = "close" /\ workers'[v].msg = m
    BY <1>0 DEF RowsLast
  <2>1. /\ emQueue[m].status \notin {"pending", "failed"}
        /\ \A v \in EmWorkers : Has(v, m) => workers[v].pc = "close" /\ workers[v].msg = m
    BY DEF EmInv, RowsLast
  <2>2. emQueue'[m].status \notin {"pending", "failed"}
    BY <2>1
  <2>3. m \notin q.batch
    BY <1>1, <1>4, <2>1 DEF WorkerSound
  <2> QED
    BY <1>3, <1>4, <2>1, <2>2, <2>3
<1> QED
  BY <1>2, <1>5, <1>7, <1>8, <1>9 DEF EmInv

LEMMA NextInBatchIs ==
  ASSUME NEW b \in SUBSET EmMessages
  PROVE  /\ NextInBatch(b) \in WorkerRow /\ NextInBatch(b).batch = b /\ NextInBatch(b).msg = NoMessage
         /\ NextInBatch(b).pc \in {"idle", "answered"} /\ (NextInBatch(b).pc = "idle" => b = {})
BY DEF NextInBatch, WorkerRow

LEMMA BatchStep ==
  ASSUME EmInv, NEW w \in EmWorkers,
         processBatch(w) \/ EmbedFails(w) \/ RequeueFailed(w) \/ CloseItem(w)
           \/ \E m \in EmMessages : EmptyEmbedding(w, m)
  PROVE  EmInv'
<1>1. EmTables /\ WorkerSound(w) /\ workers[w] \in WorkerRow /\ (workers[w].pc # "idle" => server.up)
  BY DEF EmInv, EmTables, WorkerSound, IdleWorker
<1>2. workers[w].batch \in SUBSET EmMessages
  BY <1>1 DEF WorkerRow
<1>3. \A S, x : x \in {"pending", "completed", "failed"} /\ emQueue' = SetItemStatus(emQueue, S, x) =>
        /\ emQueue' \in [EmMessages -> ItemRow]
        /\ \A m \in EmMessages :
             /\ emQueue'[m].attempts = emQueue[m].attempts
             /\ emQueue'[m].status = IF m \in S /\ emQueue[m].status # "none" THEN x ELSE emQueue[m].status
  BY <1>1, SetItemStatusIs DEF EmTables
<1>4. CASE processBatch(w)
  <2> DEFINE there == {m \in workers[w].batch : Live(m)}
             q == NextInBatch(there)  S == workers[w].batch \ there
  <2>1. /\ workers[w].pc = "embed" /\ workers' = [workers EXCEPT ![w] = q]
        /\ emQueue' = SetItemStatus(emQueue, S, "completed")
        /\ UNCHANGED <<emMsgs, rowOf, index, indexFile, server, admin, emNotes>>
    BY <1>4 DEF processBatch, MarkCompleted
  <2>2. there \in SUBSET EmMessages
    BY <1>2
  <2>3. /\ q \in WorkerRow /\ q.batch = there /\ q.msg = NoMessage
        /\ q.pc \in {"idle", "answered"} /\ (q.pc = "idle" => there = {})
    BY <2>2, NextInBatchIs
  <2>4. \A m \in EmMessages : Live(m) => m \notin S
    OBVIOUS
  <2>5. workers[w].msg = NoMessage
    BY <1>1, <2>1 DEF WorkerSound
  <2>6. \A m \in EmMessages : Live(m) /\ Has(w, m) => m \in q.batch
    BY <2>3, <2>5 DEF Has
  <2>7. there \subseteq workers[w].batch
    OBVIOUS
  <2> HIDE DEF there, q, S
  <2>9. /\ emQueue' \in [EmMessages -> ItemRow]
        /\ \A m \in EmMessages :
             /\ emQueue'[m].attempts = emQueue[m].attempts
             /\ emQueue'[m].status = IF m \in S /\ emQueue[m].status # "none" THEN "completed" ELSE emQueue[m].status
    BY <1>3, <2>1
  <2>8. PutsDown(w, q, S, "completed")
    BY <2>1, <2>3, <2>4, <2>6, <2>7, <2>9 DEF PutsDown
  <2> QED
    BY <2>8, PutDown
<1>5. CASE EmbedFails(w)
  <2> DEFINE q == [IdleWorker EXCEPT !.pc = "requeue"]  S == workers[w].batch
  <2>1. /\ workers[w].pc = "answered" /\ workers' = [workers EXCEPT ![w] = q]
        /\ emQueue' = SetItemStatus(emQueue, S, "failed")
        /\ UNCHANGED <<emMsgs, rowOf, index, indexFile, server, admin, emNotes>>
    BY <1>5 DEF EmbedFails, MarkFailed
  <2>2. q \in WorkerRow /\ q.batch = {} /\ q.msg = NoMessage /\ q.pc = "requeue"
    BY DEF IdleWorker, WorkerRow
  <2>3. workers[w].msg = NoMessage
    BY <1>1, <2>1 DEF WorkerSound
  <2>4. \A m \in EmMessages : Has(w, m) <=> m \in S
    BY <2>3 DEF Has
  <2>5. \A m \in EmMessages : m \in S /\ m \notin overtaken => rowOf[m] = NoProvider
    BY <2>1, <2>4 DEF EmInv, RowsLast
  <2> HIDE DEF q
  <2>9. /\ emQueue' \in [EmMessages -> ItemRow]
        /\ \A m \in EmMessages :
             /\ emQueue'[m].attempts = emQueue[m].attempts
             /\ emQueue'[m].status = IF m \in S /\ emQueue[m].status # "none" THEN "failed" ELSE emQueue[m].status
    BY <1>3, <2>1
  <2>8. PutsDown(w, q, S, "failed")
    BY <2>1, <2>2, <2>4, <2>5, <2>9 DEF PutsDown
  <2> QED
    BY <2>8, PutDown
<1>6. CASE RequeueFailed(w)
  <2> DEFINE S == {m \in EmMessages : /\ emQueue[m].status = "failed"
                                      /\ emQueue[m].attempts < RetryMaxAttempts}
  <2>1. /\ workers[w].pc = "requeue" /\ workers' = [workers EXCEPT ![w] = IdleWorker]
        /\ emQueue' = SetItemStatus(emQueue, S, "pending")
        /\ UNCHANGED <<emMsgs, rowOf, index, indexFile, server, admin, emNotes>>
    BY <1>6 DEF RequeueFailed
  <2>2. /\ IdleWorker \in WorkerRow /\ IdleWorker.batch = {} /\ IdleWorker.msg = NoMessage
        /\ IdleWorker.pc = "idle"
    BY DEF IdleWorker, WorkerRow
  <2>3. \A m \in EmMessages : ~Has(w, m)
    BY <1>1, <2>1 DEF Has, WorkerSound
  <2>4. \A m \in S : emQueue[m].attempts < RetryMaxAttempts /\ emQueue[m].status = "failed"
    OBVIOUS
  <2> HIDE DEF S
  <2>9. /\ emQueue' \in [EmMessages -> ItemRow]
        /\ \A m \in EmMessages :
             /\ emQueue'[m].attempts = emQueue[m].attempts
             /\ emQueue'[m].status = IF m \in S /\ emQueue[m].status # "none" THEN "pending" ELSE emQueue[m].status
    BY <1>3, <2>1
  <2>5. \A m \in EmMessages : m \in S /\ m \notin overtaken => rowOf[m] = NoProvider
    BY <2>4 DEF EmInv, RowsLast
  <2>8. PutsDown(w, IdleWorker, S, "pending")
    BY <2>1, <2>2, <2>3, <2>4, <2>5, <2>9 DEF PutsDown
  <2> QED
    BY <2>8, PutDown
<1>7. CASE CloseItem(w)
  <2> DEFINE q == NextInBatch(workers[w].batch)  S == {workers[w].msg}
  <2>1. /\ workers[w].pc = "close" /\ workers' = [workers EXCEPT ![w] = q]
        /\ emQueue' = SetItemStatus(emQueue, S, "completed")
        /\ UNCHANGED <<emMsgs, rowOf, index, indexFile, server, admin, emNotes>>
    BY <1>7 DEF CloseItem, MarkCompleted
  <2>2. /\ q \in WorkerRow /\ q.batch = workers[w].batch /\ q.msg = NoMessage
        /\ q.pc \in {"idle", "answered"} /\ (q.pc = "idle" => q.batch = {})
    BY <1>2, NextInBatchIs
  <2>3. \A m \in EmMessages : Live(m) /\ m \notin overtaken /\ Has(w, m) /\ m \notin q.batch =>
          m \in S /\ rowOf[m] # NoProvider
    BY <1>1, <2>1, <2>2 DEF Has, WorkerSound
  <2>4. \A m \in EmMessages : m \in S => Has(w, m) /\ m \notin q.batch
    BY <1>1, <2>1, <2>2 DEF Has, WorkerSound
  <2> HIDE DEF q, S
  <2>9. /\ emQueue' \in [EmMessages -> ItemRow]
        /\ \A m \in EmMessages :
             /\ emQueue'[m].attempts = emQueue[m].attempts
             /\ emQueue'[m].status = IF m \in S /\ emQueue[m].status # "none" THEN "completed" ELSE emQueue[m].status
    BY <1>3, <2>1
  <2>8. PutsDown(w, q, S, "completed")
    BY <2>1, <2>2, <2>3, <2>4, <2>9 DEF PutsDown
  <2> QED
    BY <2>8, PutDown
<1>8. ASSUME NEW n \in EmMessages, EmptyEmbedding(w, n) PROVE EmInv'
  <2> DEFINE q == NextInBatch(workers[w].batch \ {n})  S == {n}
  <2>1. /\ workers[w].pc = "answered" /\ workers' = [workers EXCEPT ![w] = q]
        /\ emQueue' = SetItemStatus(emQueue, S, "failed") /\ n \in workers[w].batch
        /\ UNCHANGED <<emMsgs, rowOf, index, indexFile, server, admin, emNotes>>
    BY <1>8 DEF EmptyEmbedding, MarkFailed
  <2>2. workers[w].batch \ {n} \in SUBSET EmMessages
    BY <1>2
  <2>3. /\ q \in WorkerRow /\ q.batch = workers[w].batch \ {n} /\ q.msg = NoMessage
        /\ q.pc \in {"idle", "answered"} /\ (q.pc = "idle" => q.batch = {})
    BY <2>2, NextInBatchIs
  <2>4. workers[w].msg = NoMessage
    BY <1>1, <2>1 DEF WorkerSound
  <2>5. \A m \in EmMessages : Has(w, m) /\ m \notin q.batch => m \in S
    BY <2>3, <2>4 DEF Has
  <2>6. \A m \in EmMessages : m \in S => Has(w, m) /\ m \notin q.batch
    BY <2>1, <2>3 DEF Has
  <2>7. q.batch \subseteq workers[w].batch
    BY <2>3
  <2>10. \A m \in EmMessages : m \in S /\ m \notin overtaken => rowOf[m] = NoProvider
    BY <2>1, <2>6 DEF EmInv, RowsLast
  <2> HIDE DEF q, S
  <2>9. /\ emQueue' \in [EmMessages -> ItemRow]
        /\ \A m \in EmMessages :
             /\ emQueue'[m].attempts = emQueue[m].attempts
             /\ emQueue'[m].status = IF m \in S /\ emQueue[m].status # "none" THEN "failed" ELSE emQueue[m].status
    BY <1>3, <2>1
  <2>8. PutsDown(w, q, S, "failed")
    BY <2>1, <2>3, <2>5, <2>6, <2>7, <2>9, <2>10 DEF PutsDown
  <2> QED
    BY <2>8, PutDown
<1> QED
  BY <1>4, <1>5, <1>6, <1>7, <1>8

LEMMA AddVectorStep ==
  ASSUME EmInv, NEW w \in EmWorkers, NEW n \in EmMessages, AddVector(w, n)
  PROVE  EmInv'
<1> DEFINE q == [pc |-> "row", batch |-> workers[w].batch \ {n}, msg |-> n]
<1>1. /\ workers[w].pc = "answered" /\ n \in workers[w].batch
      /\ workers' = [workers EXCEPT ![w] = q]
      /\ index' = [index EXCEPT ![n] = server.provider] /\ unsaved' = unsaved \ {n}
      /\ UNCHANGED <<emMsgs, emQueue, rowOf, indexFile, server, admin, strandedItems, overtaken, cleared>>
  BY DEF AddVector
<1>2. /\ EmTables /\ BatchesApart /\ WorkerSound(w) /\ server.up /\ server.provider \in Providers
      /\ \A m \in EmMessages : MessageSound(m)
  BY <1>1 DEF EmInv, EmTables, WorkerSound, IdleWorker
<1>3. q \in WorkerRow /\ q.pc = "row" /\ q.batch = workers[w].batch \ {n} /\ q.msg = n
  BY <1>2 DEF EmTables, WorkerRow
<1> HIDE DEF q
<1>4. workers'[w] = q /\ \A v \in EmWorkers : v # w => workers'[v] = workers[v]
  BY <1>1, <1>2 DEF EmTables
<1>5. /\ index' \in Vectors /\ index'[n] = server.provider
      /\ \A m \in EmMessages : m # n => index'[m] = index[m]
  BY <1>1, <1>2 DEF EmTables, Vectors
<1>6. EmTables'
  BY <1>1, <1>2, <1>3, <1>5 DEF EmTables
<1>7. workers[w].msg = NoMessage /\ n # NoMessage
  BY <1>1, <1>2, EmbeddingsAssumption DEF WorkerSound
<1>8. \A m \in EmMessages : /\ \A v \in EmWorkers : Has(v, m)' <=> Has(v, m)
                            /\ Live(m)' <=> Live(m)
  BY <1>1, <1>3, <1>4, <1>7 DEF Has, Live
<1>9. BatchesApart'
  BY <1>1, <1>2, <1>8 DEF BatchesApart
<1>10. ASSUME NEW v \in EmWorkers PROVE WorkerSound(v)'
  <2>1. WorkerSound(v)
    BY DEF EmInv
  <2>2. \A m \in EmMessages : Has(v, m)' /\ Live(m)' /\ m \notin overtaken' => emQueue'[m].status = "processing"
    BY <1>1, <1>8, <2>1 DEF WorkerSound
  <2>5. \A m \in EmMessages : Has(v, m)' => emMsgs'[m] # "absent"
    BY <1>1, <1>8, <2>1 DEF WorkerSound
  <2>3. CASE v = w
    BY <1>1, <1>2, <1>3, <1>4, <1>5, <1>7, <2>2, <2>3, <2>5 DEF WorkerSound
  <2>4. CASE v # w
    <3>1. workers'[v] = workers[v] /\ workers[v] \in WorkerRow
      BY <1>2, <1>4, <2>4 DEF EmTables
    <3>2. workers[v].pc = "row" => workers[v].msg \in EmMessages
      BY <2>1, <3>1 DEF WorkerSound, WorkerRow
    <3>3. workers[v].pc = "row" => index'[workers[v].msg] = server.provider \/ workers[v].msg \in overtaken
      BY <1>5, <2>1, <3>2 DEF WorkerSound
    <3> QED
      BY <1>1, <2>1, <2>2, <2>5, <3>1, <3>3 DEF WorkerSound, Live
  <2> QED
    BY <2>3, <2>4
<1>12. rowOf[n] = NoProvider \/ n \in overtaken
  BY <1>1 DEF EmInv, RowsLast, Has
<1>13. RowsLast'
  <2> SUFFICES ASSUME NEW m \in EmMessages, rowOf[m] # NoProvider, m \notin overtaken
               PROVE  /\ emQueue[m].status \notin {"pending", "failed"}
                      /\ \A v \in EmWorkers : Has(v, m)' => workers'[v].pc = "close" /\ workers'[v].msg = m
    BY <1>1 DEF RowsLast
  <2>1. /\ emQueue[m].status \notin {"pending", "failed"}
        /\ \A v \in EmWorkers : Has(v, m) => workers[v].pc = "close" /\ workers[v].msg = m
    BY DEF EmInv, RowsLast
  <2> QED
    BY <1>1, <1>4, <1>8, <2>1
<1>11. ASSUME NEW m \in EmMessages PROVE MessageSound(m)'
  <2>1. MessageSound(m)
    BY <1>2
  <2>2. Provided(m)' <=> Provided(m)
    <3>1. m \in InBatch <=> \E v \in EmWorkers : Has(v, m)
      BY InBatchIs
    <3>2. (m \in InBatch)' <=> \E v \in EmWorkers : Has(v, m)'
      BY DEF InBatch, Has
    <3>3. (m \in InBatch)' <=> m \in InBatch
      BY <1>8, <3>1, <3>2
    <3> QED
      BY <1>1, <3>3 DEF Provided
  <2>3. rowOf[m] # NoProvider /\ m \notin unsaved' /\ m \notin overtaken => rowOf[m] = index'[m]
    BY <1>1, <1>2, <1>5, <1>12, <2>1 DEF MessageSound
  <2> QED
    BY <1>1, <1>2, <1>8, <2>1, <2>2, <2>3 DEF MessageSound
<1> QED
  BY <1>6, <1>9, <1>10, <1>11, <1>13 DEF EmInv

LEMMA SaveStep ==
  ASSUME EmInv, NEW w \in EmWorkers, SaveEmbedding(w)
  PROVE  EmInv'
<1>0. PICK n : n = workers[w].msg
  OBVIOUS
<1>1. /\ workers[w].pc = "row" /\ UNCHANGED <<emMsgs, emQueue, index, indexFile, server, admin, emNotes>>
      /\ UNCHANGED <<strandedItems, unsaved, overtaken, cleared>>
  BY DEF SaveEmbedding, emNotes
<1>2. /\ EmTables /\ BatchesApart /\ WorkerSound(w) /\ server.up /\ server.provider \in Providers
      /\ \A m \in EmMessages : MessageSound(m)
  BY <1>1 DEF EmInv, EmTables, WorkerSound, IdleWorker
<1>3. workers[w] \in WorkerRow /\ n \in EmMessages /\ n # NoMessage
  BY <1>0, <1>1, <1>2 DEF EmTables, WorkerRow, WorkerSound
<1>4. CASE ~Live(n)
  <2> DEFINE q == NextInBatch(workers[w].batch)
  <2>1. workers' = [workers EXCEPT ![w] = q] /\ rowOf' = rowOf
    BY <1>0, <1>4 DEF SaveEmbedding
  <2>2. /\ q \in WorkerRow /\ q.batch = workers[w].batch /\ q.msg = NoMessage
        /\ q.pc \in {"idle", "answered"} /\ (q.pc = "idle" => q.batch = {})
    BY <1>3, NextInBatchIs DEF WorkerRow
  <2>3. \A m \in EmMessages : Has(w, m) /\ Live(m) => m \in q.batch
    BY <1>0, <1>4, <2>2 DEF Has
  <2>4. emQueue \in [EmMessages -> ItemRow]
    BY <1>2 DEF EmTables
  <2> HIDE DEF q
  <2>5. PutsDown(w, q, {}, "failed")
    BY <1>1, <2>1, <2>2, <2>3, <2>4 DEF PutsDown
  <2> QED
    BY <2>5, PutDown
<1>5. CASE Live(n)
  <2> DEFINE q == [workers[w] EXCEPT !.pc = "close"]
  <2>1. workers' = [workers EXCEPT ![w] = q] /\ rowOf' = [rowOf EXCEPT ![n] = server.provider]
    BY <1>0, <1>5 DEF SaveEmbedding
  <2>2. q \in WorkerRow /\ q.pc = "close" /\ q.batch = workers[w].batch /\ q.msg = n
    BY <1>0, <1>3 DEF WorkerRow
  <2> HIDE DEF q
  <2>3. workers'[w] = q /\ \A v \in EmWorkers : v # w => workers'[v] = workers[v]
    BY <1>2, <2>1 DEF EmTables
  <2>4. /\ rowOf' \in Vectors /\ rowOf'[n] = server.provider /\ server.provider # NoProvider
        /\ \A m \in EmMessages : m # n => rowOf'[m] = rowOf[m]
    BY <1>2, <1>3, <2>1, EmbeddingsAssumption DEF EmTables, Vectors
  <2>5. EmTables'
    BY <1>1, <1>2, <2>1, <2>2, <2>4 DEF EmTables
  <2>6. \A m \in EmMessages : /\ \A v \in EmWorkers : Has(v, m)' <=> Has(v, m)
                              /\ Live(m)' <=> Live(m)
    BY <1>0, <1>1, <2>2, <2>3 DEF Has, Live
  <2>7. BatchesApart'
    BY <1>1, <1>2, <2>6 DEF BatchesApart
  <2>8. ASSUME NEW v \in EmWorkers PROVE WorkerSound(v)'
    <3>1. WorkerSound(v)
      BY DEF EmInv
    <3>2. \A m \in EmMessages : Has(v, m)' /\ Live(m)' /\ m \notin overtaken' => emQueue'[m].status = "processing"
      BY <1>1, <2>6, <3>1 DEF WorkerSound
    <3>5. \A m \in EmMessages : Has(v, m)' => emMsgs'[m] # "absent"
      BY <1>1, <2>6, <3>1 DEF WorkerSound
    <3>3. CASE v = w
      BY <1>0, <1>1, <1>2, <1>3, <2>2, <2>3, <2>4, <3>2, <3>3, <3>5 DEF WorkerSound
    <3>4. CASE v # w
      <4>1. workers'[v] = workers[v] /\ workers[v] \in WorkerRow
        BY <1>2, <2>3, <3>4 DEF EmTables
      <4>2. workers[v].pc = "close" => workers[v].msg \in EmMessages
        BY <3>1, <4>1 DEF WorkerSound, WorkerRow
      <4>3. workers[v].pc = "close" /\ Live(workers[v].msg) =>
              rowOf'[workers[v].msg] # NoProvider \/ workers[v].msg \in overtaken
        BY <2>4, <3>1, <4>2 DEF WorkerSound
      <4> QED
        BY <1>1, <3>1, <3>2, <3>5, <4>1, <4>3 DEF WorkerSound, Live
    <3> QED
      BY <3>3, <3>4
  <2>9. ASSUME NEW m \in EmMessages PROVE MessageSound(m)'
    <3>1. MessageSound(m)
      BY <1>2
    <3>2. Provided(m) => Provided(m)'
      <4>1. m \in InBatch <=> \E v \in EmWorkers : Has(v, m)
        BY InBatchIs
      <4>2. (m \in InBatch)' <=> \E v \in EmWorkers : Has(v, m)'
        BY DEF InBatch, Has
      <4>3. (m \in InBatch)' <=> m \in InBatch
        BY <2>6, <4>1, <4>2
      <4> QED
        BY <1>1, <2>4, <4>3 DEF Provided
    <3>3. m = n => index[m] = server.provider \/ m \in overtaken
      BY <1>0, <1>1, <1>2 DEF WorkerSound
    <3> QED
      BY <1>1, <1>2, <1>5, <2>4, <2>6, <3>1, <3>2, <3>3 DEF MessageSound
  <2>10. RowsLast'
    <3> SUFFICES ASSUME NEW m \in EmMessages, rowOf'[m] # NoProvider, m \notin overtaken
                 PROVE  /\ emQueue[m].status \notin {"pending", "failed"}
                        /\ \A v \in EmWorkers : Has(v, m)' => workers'[v].pc = "close" /\ workers'[v].msg = m
      BY <1>1 DEF RowsLast
    <3>1. CASE m = n
      <4>1. Has(w, n)
        BY <1>0, <1>3 DEF Has
      <4>2. emQueue[n].status = "processing"
        BY <1>2, <1>3, <1>5, <3>1, <4>1 DEF WorkerSound
      <4>3. \A v \in EmWorkers : Has(v, n) => v = w
        BY <1>2, <1>3, <1>5, <3>1, <4>1 DEF BatchesApart
      <4> QED
        BY <2>2, <2>3, <2>6, <3>1, <4>2, <4>3
    <3>2. CASE m # n
      <4>1. /\ emQueue[m].status \notin {"pending", "failed"}
            /\ \A v \in EmWorkers : Has(v, m) => workers[v].pc = "close" /\ workers[v].msg = m
        BY <2>4, <3>2 DEF EmInv, RowsLast
      <4> QED
        BY <1>1, <2>3, <2>6, <4>1
    <3> QED
      BY <3>1, <3>2
  <2> QED
    BY <2>5, <2>7, <2>8, <2>9, <2>10 DEF EmInv
<1> QED
  BY <1>4, <1>5

LEMMA DequeueStep ==
  ASSUME EmInv, NEW w \in EmWorkers, NEW items \in SUBSET EmMessages, Dequeue(w, items)
  PROVE  EmInv'
<1> DEFINE q == [pc |-> "embed", batch |-> items, msg |-> NoMessage]
           Taken(m) == [status |-> "processing", attempts |-> emQueue[m].attempts + 1]
<1>1. /\ server.up /\ workers[w].pc = "idle" /\ workers' = [workers EXCEPT ![w] = q]
      /\ \A m \in items : emQueue[m].status = "pending"
      /\ emQueue' = [m \in EmMessages |-> IF m \in items THEN Taken(m) ELSE emQueue[m]]
      /\ UNCHANGED <<emMsgs, rowOf, index, indexFile, server, admin, strandedItems, unsaved, overtaken, cleared>>
  BY DEF Dequeue, Pending, emNotes
<1>2. /\ EmTables /\ BatchesApart /\ WorkerSound(w)
      /\ \A m \in EmMessages : MessageSound(m)
  BY DEF EmInv
<1>3. q \in WorkerRow /\ q.pc = "embed" /\ q.batch = items /\ q.msg = NoMessage
  BY DEF WorkerRow
<1>4. \A m \in EmMessages : emQueue[m] \in ItemRow /\ emQueue[m].attempts \in Nat
  BY <1>2 DEF EmTables, ItemRow
<1>5. \A m \in EmMessages : /\ Taken(m) \in ItemRow /\ Taken(m).status = "processing"
                            /\ Taken(m).attempts = emQueue[m].attempts + 1
  BY <1>4 DEF ItemRow
<1> HIDE DEF q, Taken
<1>6. /\ \A m \in items : emQueue'[m] = Taken(m)
      /\ \A m \in EmMessages : m \notin items => emQueue'[m] = emQueue[m]
      /\ emQueue' \in [EmMessages -> ItemRow]
  BY <1>1, <1>4, <1>5
<1>7. workers'[w] = q /\ \A v \in EmWorkers : v # w => workers'[v] = workers[v]
  BY <1>1, <1>2 DEF EmTables
<1>8. EmTables'
  BY <1>1, <1>2, <1>3, <1>6 DEF EmTables
<1>9. workers[w].msg = NoMessage /\ workers[w].batch = {}
  BY <1>1, <1>2 DEF WorkerSound
<1>10. \A m \in EmMessages : /\ Live(m)' <=> Live(m)
                             /\ \A v \in EmWorkers : v # w => (Has(v, m)' <=> Has(v, m))
                             /\ Has(w, m)' <=> m \in items
                             /\ ~Has(w, m)
  BY <1>1, <1>3, <1>7, <1>9 DEF Has, Live
<1>15. \A m \in items : emMsgs[m] # "absent"
  BY <1>1, <1>2 DEF MessageSound, Live
<1>11. \A m \in items, v \in EmWorkers : Live(m) /\ m \notin overtaken => ~Has(v, m)
  BY <1>1 DEF EmInv, WorkerSound
<1>12. BatchesApart'
  BY <1>1, <1>2, <1>10, <1>11 DEF BatchesApart
<1>13. ASSUME NEW v \in EmWorkers PROVE WorkerSound(v)'
  <2>1. WorkerSound(v)
    BY DEF EmInv
  <2>2. ASSUME NEW m \in EmMessages, Has(v, m)', Live(m), m \notin overtaken
        PROVE  emQueue'[m].status = "processing"
    <3>1. CASE m \in items
      BY <1>5, <1>6, <3>1
    <3>2. CASE m \notin items
      BY <1>6, <1>10, <2>1, <2>2, <3>2 DEF WorkerSound
    <3> QED
      BY <3>1, <3>2
  <2>3. CASE v = w
    BY <1>1, <1>3, <1>7, <1>10, <1>15, <2>2, <2>3, EmbeddingsAssumption DEF WorkerSound
  <2>4. CASE v # w
    BY <1>1, <1>7, <1>10, <2>1, <2>2, <2>4 DEF WorkerSound, Live
  <2> QED
    BY <2>3, <2>4
<1>14. ASSUME NEW m \in EmMessages PROVE MessageSound(m)'
  <2>1. MessageSound(m)
    BY <1>2
  <2>2. m \in InBatch <=> \E v \in EmWorkers : Has(v, m)
    BY InBatchIs
  <2>3. (m \in InBatch)' <=> \E v \in EmWorkers : Has(v, m)'
    BY DEF InBatch, Has
  <2>4. m \in InBatch \/ m \in items => (m \in InBatch)'
    BY <1>10, <2>2, <2>3
  <2>5. Provided(m) => Provided(m)'
    <3>1. CASE m \in items
      BY <2>4, <3>1 DEF Provided
    <3>2. CASE m \notin items
      BY <1>1, <1>6, <2>4, <3>2 DEF Provided
    <3> QED
      BY <3>1, <3>2
  <2>6. CASE m \in items
    <3>1. /\ emQueue'[m].status = "processing" /\ emQueue'[m].attempts <= RetryMaxAttempts
          /\ Live(m) /\ Provided(m)
      <4>1. emQueue[m].attempts < RetryMaxAttempts /\ Live(m) /\ Provided(m)
        BY <1>1, <2>1, <2>6 DEF MessageSound, Provided
      <4>2. emQueue'[m].attempts = emQueue[m].attempts + 1 /\ emQueue'[m].status = "processing"
        BY <1>5, <1>6, <2>6
      <4> QED
        BY <1>4, <4>1, <4>2, EmbeddingsAssumption
    <3> QED
      BY <1>1, <1>10, <2>1, <2>5, <3>1 DEF MessageSound
  <2>7. CASE m \notin items
    <3>1. emQueue'[m] = emQueue[m]
      BY <1>6, <2>7
    <3> QED
      BY <1>1, <1>10, <2>1, <2>5, <3>1 DEF MessageSound
  <2> QED
    BY <2>6, <2>7
<1>16. RowsLast'
  <2> SUFFICES ASSUME NEW m \in EmMessages, rowOf[m] # NoProvider, m \notin overtaken
               PROVE  /\ emQueue'[m].status \notin {"pending", "failed"}
                      /\ \A v \in EmWorkers : Has(v, m)' => workers'[v].pc = "close" /\ workers'[v].msg = m
    BY <1>1 DEF RowsLast
  <2>1. /\ emQueue[m].status \notin {"pending", "failed"}
        /\ \A v \in EmWorkers : Has(v, m) => workers[v].pc = "close" /\ workers[v].msg = m
    BY DEF EmInv, RowsLast
  <2>2. m \notin items
    BY <1>1, <2>1
  <2> QED
    BY <1>6, <1>7, <1>10, <2>1, <2>2
<1> QED
  BY <1>8, <1>12, <1>13, <1>14, <1>16 DEF EmInv

\* Steps that leave the workers alone.
LEMMA BatchesStay ==
  ASSUME workers' = workers
  PROVE  InBatch' = InBatch /\ \A w \in EmWorkers, m \in EmMessages : Has(w, m)' <=> Has(w, m)
BY DEF InBatch, Has

LEMMA HeldAreMessages ==
  ASSUME EmInv, NEW w \in EmWorkers
  PROVE  /\ workers[w].msg # NoMessage => workers[w].msg \in EmMessages /\ Has(w, workers[w].msg)
         /\ \A m : Has(w, m) => m \in EmMessages
<1>1. workers[w] \in WorkerRow
  BY DEF EmInv, EmTables
<1> QED
  BY <1>1 DEF WorkerRow, Has

LEMMA CreatedStep ==
  ASSUME EmInv, NEW n \in EmMessages, OnMessageCreated(n)
  PROVE  EmInv'
<1>1. /\ emMsgs[n] = "absent" /\ server.up /\ emMsgs' = [emMsgs EXCEPT ![n] = "live"]
      /\ emQueue' = Enqueue(emQueue, {n}) /\ workers' = workers
      /\ UNCHANGED <<rowOf, index, indexFile, server, admin, strandedItems, unsaved, overtaken, cleared>>
  BY DEF OnMessageCreated, emNotes
<1>2. EmTables /\ BatchesApart /\ \A m \in EmMessages : MessageSound(m)
  BY DEF EmInv
<1>3. /\ emQueue' \in [EmMessages -> ItemRow]
      /\ \A m \in EmMessages : m # n => emQueue'[m] = emQueue[m]
      /\ emQueue'[n] = [status |-> "pending", attempts |-> 0]
  <2>1. ~Live(n) /\ emQueue[n].status = "none"
    BY <1>1, <1>2 DEF MessageSound, Live
  <2> QED
    BY <1>1, <1>2, <2>1, EnqueueIs DEF EmTables
<1>4. EmTables'
  BY <1>1, <1>2, <1>3 DEF EmTables
<1>5. /\ emMsgs'[n] = "live"
      /\ \A m \in EmMessages : m # n => (Live(m)' <=> Live(m)) /\ emMsgs'[m] = emMsgs[m]
  BY <1>1, <1>2 DEF EmTables, Live
<1>6. \A w \in EmWorkers : ~Has(w, n)
  BY <1>1 DEF EmInv, WorkerSound
<1>7. InBatch' = InBatch /\ \A w \in EmWorkers, m \in EmMessages : Has(w, m)' <=> Has(w, m)
  BY <1>1, BatchesStay
<1>8. BatchesApart'
  BY <1>1, <1>2, <1>5, <1>6, <1>7 DEF BatchesApart
<1>9. ASSUME NEW w \in EmWorkers PROVE WorkerSound(w)'
  <2>1. WorkerSound(w)
    BY DEF EmInv
  <2>2. PICK r : r = workers[w].msg
    OBVIOUS
  <2>3. r # NoMessage => (Live(r)' <=> Live(r))
    BY <1>5, <1>6, <2>2, HeldAreMessages
  <2>4. Live(workers[w].msg)' <=> Live(r)'
    BY <1>1, <2>2 DEF Live
  <2>5. \A m \in EmMessages : Has(w, m)' => emMsgs'[m] # "absent"
    BY <1>5, <1>6, <1>7, <2>1 DEF WorkerSound
  <2>6. \A m \in EmMessages : Has(w, m)' /\ Live(m)' /\ m \notin overtaken' =>
          emQueue'[m].status = "processing"
    BY <1>1, <1>3, <1>5, <1>6, <1>7, <2>1 DEF WorkerSound
  <2> QED
    BY <1>1, <2>1, <2>2, <2>3, <2>4, <2>5, <2>6 DEF WorkerSound
<1>10. ASSUME NEW m \in EmMessages PROVE MessageSound(m)'
  <2>1. MessageSound(m)
    BY <1>2
  <2>2. CASE m = n
    <3>1. Provided(m)'
      BY <1>3, <2>2 DEF Provided
    <3>2. Live(m)'
      BY <1>5, <2>2 DEF Live
    <3> QED
      BY <1>1, <1>3, <2>1, <2>2, <3>1, <3>2, EmbeddingsAssumption DEF MessageSound
  <2>3. CASE m # n
    <3>1. (Provided(m)' <=> Provided(m)) /\ (Live(m)' <=> Live(m)) /\ emQueue'[m] = emQueue[m]
      BY <1>1, <1>3, <1>5, <1>7, <2>3 DEF Provided
    <3> QED
      BY <1>1, <2>1, <3>1 DEF MessageSound
  <2> QED
    BY <2>2, <2>3
<1>11. RowsLast'
  <2>1. rowOf[n] = NoProvider
    BY <1>1, <1>2 DEF MessageSound, Live
  <2> QED
    BY <1>1, <1>3, <1>7, <2>1 DEF EmInv, RowsLast
<1> QED
  BY <1>4, <1>8, <1>9, <1>10, <1>11 DEF EmInv

LEMMA DeletedStep ==
  ASSUME EmInv, NEW n \in EmMessages, MessageDeleted(n)
  PROVE  EmInv'
<1>1. /\ server.up /\ emMsgs' = [emMsgs EXCEPT ![n] = "gone"]
      /\ emQueue' = [emQueue EXCEPT ![n] = NoItem] /\ rowOf' = [rowOf EXCEPT ![n] = NoProvider]
      /\ workers' = workers
      /\ UNCHANGED <<index, indexFile, server, admin, strandedItems, unsaved, overtaken, cleared>>
  BY DEF MessageDeleted, emNotes
<1>2. EmTables /\ BatchesApart /\ \A m \in EmMessages : MessageSound(m)
  BY DEF EmInv
<1>3. NoItem \in ItemRow /\ NoItem.status = "none" /\ NoItem.attempts = 0
  BY DEF NoItem, ItemRow
<1>4. /\ emQueue'[n] = NoItem /\ rowOf'[n] = NoProvider /\ emMsgs'[n] = "gone"
      /\ \A m \in EmMessages : m # n =>
           /\ emQueue'[m] = emQueue[m] /\ rowOf'[m] = rowOf[m]
           /\ (Live(m)' <=> Live(m)) /\ emMsgs'[m] = emMsgs[m]
  BY <1>1, <1>2 DEF EmTables, Vectors, Live
<1>5. EmTables'
  BY <1>1, <1>2, <1>3 DEF EmTables, Vectors
<1>6. ~Live(n)'
  BY <1>4 DEF Live
<1>7. InBatch' = InBatch /\ \A w \in EmWorkers, m \in EmMessages : Has(w, m)' <=> Has(w, m)
  BY <1>1, BatchesStay
<1>8. BatchesApart'
  BY <1>1, <1>2, <1>4, <1>6, <1>7 DEF BatchesApart
<1>9. ASSUME NEW w \in EmWorkers PROVE WorkerSound(w)'
  <2>1. WorkerSound(w)
    BY DEF EmInv
  <2>2. \A m \in EmMessages : Has(w, m)' /\ Live(m)' /\ m \notin overtaken' =>
          emQueue'[m].status = "processing"
    BY <1>1, <1>4, <1>6, <1>7, <2>1 DEF WorkerSound
  <2>3. \A m \in EmMessages : Has(w, m)' => emMsgs'[m] # "absent"
    BY <1>4, <1>7, <2>1 DEF WorkerSound
  <2>6. PICK r : r = workers[w].msg
    OBVIOUS
  <2>4. workers[w].pc = "close" /\ Live(r)' => rowOf'[r] # NoProvider \/ r \in overtaken
    <3>1. workers[w].pc = "close" => r \in EmMessages
      BY <2>1, <2>6, HeldAreMessages DEF WorkerSound
    <3> QED
      BY <1>4, <1>6, <2>1, <2>6, <3>1 DEF WorkerSound
  <2>5. Live(workers[w].msg)' <=> Live(r)'
    BY <1>1, <2>6 DEF Live
  <2> QED
    BY <1>1, <2>1, <2>2, <2>3, <2>4, <2>5, <2>6 DEF WorkerSound
<1>10. ASSUME NEW m \in EmMessages PROVE MessageSound(m)'
  <2>1. MessageSound(m)
    BY <1>2
  <2>2. CASE m = n
    BY <1>1, <1>3, <1>4, <1>6, <2>1, <2>2, EmbeddingsAssumption DEF MessageSound
  <2>3. CASE m # n
    <3>1. (Provided(m)' <=> Provided(m)) /\ (Live(m)' <=> Live(m))
      BY <1>1, <1>4, <1>7, <2>3 DEF Provided
    <3> QED
      BY <1>1, <1>4, <2>1, <2>3, <3>1 DEF MessageSound
  <2> QED
    BY <2>2, <2>3
<1>11. RowsLast'
  BY <1>1, <1>4, <1>7 DEF EmInv, RowsLast
<1> QED
  BY <1>5, <1>8, <1>9, <1>10, <1>11 DEF EmInv

\* A start before its workers run: nothing is in hand, so only the tables matter.
BootStep(q, rows, strays) ==
  /\ server.boot # "off" \/ ~server.up
  /\ server' \in ServerRow /\ server'.provider \in Providers
  /\ server'.up = (server'.boot = "off")
  /\ emQueue' = q /\ q \in [EmMessages -> ItemRow] /\ rowOf' = rows /\ rows \in Vectors
  /\ index' \in Vectors /\ strandedItems' = strays
  /\ UNCHANGED <<emMsgs, indexFile, workers, admin, overtaken>>

LEMMA BootTables ==
  ASSUME EmInv, NEW q, NEW rows, NEW strays, BootStep(q, rows, strays),
         \A m \in EmMessages : MessageSound(m)',
         \A m \in EmMessages : rows[m] # NoProvider /\ m \notin overtaken =>
            q[m].status \notin {"pending", "failed"}
  PROVE  EmInv'
<1>1. EmTables /\ ~server.up /\ admin.pc = "idle" /\ \A w \in EmWorkers : workers[w] = IdleWorker
  BY DEF EmInv, EmTables, BootStep, WorkerSound
<1>2. EmTables'
  BY <1>1 DEF EmTables, BootStep
<1>3. \A w \in EmWorkers : workers'[w] = IdleWorker
  BY <1>1 DEF BootStep
<1>4. \A w \in EmWorkers, m \in EmMessages : ~Has(w, m)'
  BY <1>3 DEF Has, IdleWorker
<1>5. BatchesApart'
  BY <1>4 DEF BatchesApart
<1>8. IdleWorker.pc = "idle" /\ IdleWorker.batch = {} /\ IdleWorker.msg = NoMessage
  BY DEF IdleWorker
<1>6. ASSUME NEW w \in EmWorkers PROVE WorkerSound(w)'
  <2>1. /\ workers'[w] = IdleWorker /\ workers'[w].pc = "idle" /\ workers'[w].batch = {}
        /\ workers'[w].msg = NoMessage
    BY <1>3, <1>8
  <2> QED
    BY <1>4, <2>1 DEF WorkerSound
<1>7. RowsLast'
  BY <1>4 DEF RowsLast, BootStep
<1> QED
  BY <1>2, <1>5, <1>6, <1>7 DEF EmInv

\* What every statement of the start leaves as it is.
LEMMA BootKeeps ==
  ASSUME EmInv, ~server.up, emMsgs' = emMsgs, workers' = workers, admin' = admin
  PROVE  /\ InBatch' = {} /\ InBatch = {} /\ admin'.pc = "idle"
         /\ \A m : Live(m)' <=> Live(m)
         /\ \A m \in EmMessages : MessageSound(m)
<1>1. \A w \in EmWorkers : workers[w] = IdleWorker
  BY DEF EmInv, WorkerSound
<1>2. InBatch = {}
  BY <1>1 DEF InBatch, IdleWorker
<1>3. InBatch' = InBatch
  BY DEF InBatch
<1>4. admin.pc = "idle"
  BY DEF EmInv, EmTables
<1> QED
  BY <1>2, <1>3, <1>4 DEF Live, EmInv

LEMMA StartStep ==
  ASSUME EmInv,
         \/ \E p \in Providers, readable \in BOOLEAN : NewVectorIndex(p, readable)
         \/ \E existing \in Providers \union {NoProvider} : GetEmbeddingProvider(existing)
         \/ \E ok \in BOOLEAN : StartDeletesRows(ok) \/ StartClearsQueue(ok) \/ StartPipeline(ok)
         \/ StartRebuilds
  PROVE  EmInv'
<1>1. EmTables /\ RowsLast /\ \A m \in EmMessages : MessageSound(m)
  BY DEF EmInv
<1>2. ~server.up /\ emMsgs' = emMsgs /\ workers' = workers /\ admin' = admin
      /\ UNCHANGED <<indexFile, overtaken>>
  BY <1>1 DEF NewVectorIndex, GetEmbeddingProvider, StartDeletesRows, StartClearsQueue, StartPipeline,
              StartRebuilds, BootAt, EmTables, Booting, emNotes
<1>3. /\ InBatch' = {} /\ InBatch = {} /\ admin'.pc = "idle"
      /\ \A m : Live(m)' <=> Live(m)
  BY <1>2, BootKeeps
<1>4. /\ emQueue \in [EmMessages -> ItemRow] /\ rowOf \in Vectors /\ index \in Vectors /\ indexFile \in Vectors
      /\ NoVectors \in Vectors /\ server \in ServerRow
  BY <1>1 DEF EmTables, NoVectors, Vectors
<1>5. \A m \in EmMessages : rowOf[m] # NoProvider /\ m \notin overtaken =>
        emQueue[m].status \notin {"pending", "failed"}
  BY <1>1 DEF RowsLast
<1>6. ASSUME NEW x \in {"rows", "queue", "index", "enqueue"}, BootAt(x), server.boot # "off"
      PROVE  /\ server' \in ServerRow /\ server'.provider \in Providers /\ ~server'.up
             /\ server'.boot = x
  BY <1>1, <1>2, <1>6 DEF BootAt, EmTables, ServerRow
<1>7. ASSUME NEW p \in Providers, NEW readable \in BOOLEAN, NewVectorIndex(p, readable) PROVE EmInv'
  <2>1. /\ server.boot = "off" /\ server'.up = FALSE /\ server'.boot = "provider" /\ server'.provider = p
        /\ server' \in ServerRow
    BY <1>4, <1>7 DEF NewVectorIndex, Booting, ServerRow
  <2>2. /\ index' \in Vectors /\ UNCHANGED <<emQueue, rowOf, strandedItems, cleared>>
        /\ \/ index' = indexFile /\ unsaved' = unsaved
           \/ unsaved' = unsaved \union {m \in EmMessages : indexFile[m] # NoProvider}
    BY <1>4, <1>7 DEF NewVectorIndex
  <2>3. BootStep(emQueue, rowOf, strandedItems)
    BY <1>2, <1>4, <2>1, <2>2 DEF BootStep
  <2>4. ASSUME NEW m \in EmMessages PROVE MessageSound(m)'
    <3>1. MessageSound(m) /\ (Provided(m)' <=> Provided(m))
      BY <1>1, <1>2, <1>3, <2>2 DEF Provided
    <3>2. rowOf[m] # NoProvider /\ m \notin unsaved' /\ m \notin overtaken => rowOf[m] = index'[m]
      BY <1>2, <2>1, <2>2, <3>1 DEF MessageSound
    <3> QED
      BY <1>2, <1>3, <2>1, <2>2, <3>1, <3>2 DEF MessageSound
  <2> QED
    BY <1>5, <2>3, <2>4, BootTables
<1>8. ASSUME NEW existing, GetEmbeddingProvider(existing) PROVE EmInv'
  <2>1. /\ server.boot = "provider" /\ (BootAt("enqueue") \/ BootAt("rows"))
        /\ UNCHANGED <<emQueue, rowOf, index, strandedItems, unsaved, cleared>>
    BY <1>8 DEF GetEmbeddingProvider, emNotes
  <2>2. /\ server' \in ServerRow /\ server'.provider \in Providers /\ ~server'.up /\ server'.boot # "off"
    BY <1>6, <2>1
  <2>3. BootStep(emQueue, rowOf, strandedItems)
    BY <1>2, <1>4, <2>1, <2>2 DEF BootStep, ServerRow
  <2>4. ASSUME NEW m \in EmMessages PROVE MessageSound(m)'
    <3>1. MessageSound(m) /\ (Provided(m)' <=> Provided(m))
      BY <1>1, <1>2, <1>3, <2>1 DEF Provided
    <3> QED
      BY <1>2, <1>3, <2>1, <2>2, <3>1 DEF MessageSound
  <2> QED
    BY <1>5, <2>3, <2>4, BootTables
<1>9. ASSUME NEW ok \in BOOLEAN, StartDeletesRows(ok) PROVE EmInv'
  <2>1. /\ server.boot = "rows" /\ BootAt("queue") /\ UNCHANGED <<emQueue, index, strandedItems, unsaved>>
        /\ \/ rowOf' = rowOf /\ cleared' = cleared
           \/ rowOf' = NoVectors /\ cleared' = {m \in EmMessages : Live(m)}
    BY <1>9 DEF StartDeletesRows, DeleteAllEmbeddings, NoVectors
  <2>2. /\ server' \in ServerRow /\ server'.provider \in Providers /\ ~server'.up /\ server'.boot = "queue"
    BY <1>6, <2>1
  <2>3. BootStep(emQueue, rowOf', strandedItems)
    BY <1>2, <1>4, <2>1, <2>2 DEF BootStep, ServerRow
  <2>4. ASSUME NEW m \in EmMessages PROVE MessageSound(m)'
    <3>1. MessageSound(m)
      BY <1>1
    <3>2. CASE rowOf' = rowOf /\ cleared' = cleared
      <4>1. Provided(m)' <=> Provided(m)
        BY <1>2, <1>3, <2>1, <3>2 DEF Provided
      <4> QED
        BY <1>2, <1>3, <2>1, <2>2, <3>1, <3>2, <4>1 DEF MessageSound
    <3>3. CASE rowOf' = NoVectors /\ cleared' = {n \in EmMessages : Live(n)}
      <4>1. rowOf'[m] = NoProvider /\ (Live(m) => m \in cleared')
        BY <3>3 DEF NoVectors
      <4> QED
        BY <1>2, <1>3, <2>1, <2>2, <3>1, <4>1 DEF MessageSound
    <3> QED
      BY <2>1, <3>2, <3>3
  <2>5. \A m \in EmMessages : rowOf'[m] # NoProvider /\ m \notin overtaken =>
          emQueue[m].status \notin {"pending", "failed"}
    BY <1>5, <2>1 DEF NoVectors
  <2> QED
    BY <2>3, <2>4, <2>5, BootTables
<1>10. ASSUME NEW ok \in BOOLEAN, StartClearsQueue(ok) PROVE EmInv'
  <2>1. /\ server.boot = "queue" /\ BootAt("index") /\ UNCHANGED <<rowOf, index, unsaved>>
        /\ \/ emQueue' = emQueue /\ cleared' = cleared /\ strandedItems' = strandedItems
           \/ emQueue' = [m \in EmMessages |-> NoItem] /\ cleared' = {m \in EmMessages : Live(m)}
    BY <1>10 DEF StartClearsQueue, ClearQueue
  <2>2. /\ server' \in ServerRow /\ server'.provider \in Providers /\ ~server'.up /\ server'.boot = "index"
    BY <1>6, <2>1
  <2>6. NoItem \in ItemRow /\ NoItem.status = "none" /\ NoItem.attempts = 0
    BY DEF NoItem, ItemRow
  <2>7. emQueue' \in [EmMessages -> ItemRow]
    BY <1>4, <2>1, <2>6
  <2>3. BootStep(emQueue', rowOf, strandedItems')
    BY <1>2, <1>4, <2>1, <2>2, <2>7 DEF BootStep, ServerRow
  <2>4. ASSUME NEW m \in EmMessages PROVE MessageSound(m)'
    <3>1. MessageSound(m)
      BY <1>1
    <3>2. CASE emQueue' = emQueue /\ cleared' = cleared /\ strandedItems' = strandedItems
      <4>1. Provided(m)' <=> Provided(m)
        BY <1>2, <1>3, <2>1, <3>2 DEF Provided
      <4> QED
        BY <1>2, <1>3, <2>1, <2>2, <3>1, <3>2, <4>1 DEF MessageSound
    <3>3. CASE emQueue' = [n \in EmMessages |-> NoItem] /\ cleared' = {n \in EmMessages : Live(n)}
      <4>1. emQueue'[m].status = "none" /\ emQueue'[m].attempts = 0 /\ (Live(m) => m \in cleared')
        BY <2>6, <3>3
      <4> QED
        BY <1>2, <1>3, <2>1, <2>2, <3>1, <4>1, EmbeddingsAssumption DEF MessageSound
    <3> QED
      BY <2>1, <3>2, <3>3
  <2>5. \A m \in EmMessages : rowOf[m] # NoProvider /\ m \notin overtaken =>
          emQueue'[m].status \notin {"pending", "failed"}
    BY <1>5, <2>1, <2>6
  <2> QED
    BY <2>3, <2>4, <2>5, BootTables
<1>11. ASSUME StartRebuilds PROVE EmInv'
  <2>1. /\ server.boot = "index" /\ BootAt("enqueue") /\ UNCHANGED <<emQueue, rowOf, strandedItems, cleared>>
        /\ index' = NoVectors /\ unsaved' = unsaved \union {m \in EmMessages : rowOf[m] # NoProvider}
    BY <1>11 DEF StartRebuilds
  <2>2. /\ server' \in ServerRow /\ server'.provider \in Providers /\ ~server'.up /\ server'.boot = "enqueue"
    BY <1>6, <2>1
  <2>3. BootStep(emQueue, rowOf, strandedItems)
    BY <1>2, <1>4, <2>1, <2>2 DEF BootStep, ServerRow
  <2>4. ASSUME NEW m \in EmMessages PROVE MessageSound(m)'
    <3>1. MessageSound(m) /\ (Provided(m)' <=> Provided(m))
      BY <1>1, <1>2, <1>3, <2>1 DEF Provided
    <3>2. rowOf[m] # NoProvider => m \in unsaved'
      BY <2>1
    <3> QED
      BY <1>2, <1>3, <2>1, <2>2, <3>1, <3>2 DEF MessageSound
  <2> QED
    BY <1>5, <2>3, <2>4, BootTables
<1>12. ASSUME NEW ok \in BOOLEAN, StartPipeline(ok) PROVE EmInv'
  <2> DEFINE S == {m \in EmMessages : Live(m) /\ rowOf[m] = NoProvider /\ emQueue[m].status = "none"}
  <2>1. /\ server.boot = "enqueue" /\ UNCHANGED <<rowOf, index, strandedItems, unsaved>>
        /\ server' = [server EXCEPT !.boot = "off", !.up = TRUE]
        /\ \/ emQueue' = Enqueue(emQueue, S) /\ cleared' = {m \in cleared : emQueue[m].status # "none"}
           \/ emQueue' = emQueue /\ cleared' = cleared \union S
    BY <1>12 DEF StartPipeline, EnqueueAllMessages
  <2>2. server' \in ServerRow /\ server'.provider \in Providers /\ server'.up = TRUE /\ server'.boot = "off"
    BY <1>1, <1>4, <2>1 DEF EmTables, ServerRow
  <2>3. CASE emQueue' = emQueue /\ cleared' = cleared \union S
    <3>1. BootStep(emQueue, rowOf, strandedItems)
      BY <1>2, <1>4, <2>1, <2>2, <2>3 DEF BootStep
    <3>2. ASSUME NEW m \in EmMessages PROVE MessageSound(m)'
      <4>1. MessageSound(m) /\ (Provided(m)' <=> Provided(m))
        BY <1>1, <1>2, <1>3, <2>1, <2>3 DEF Provided
      <4>2. Live(m) => Provided(m) \/ m \in cleared'
        BY <2>3, <4>1 DEF MessageSound, Provided
      <4> QED
        BY <1>2, <1>3, <2>1, <2>2, <2>3, <4>1, <4>2 DEF MessageSound
    <3> QED
      BY <1>5, <3>1, <3>2, BootTables
  <2>4. CASE emQueue' = Enqueue(emQueue, S) /\ cleared' = {m \in cleared : emQueue[m].status # "none"}
    <3>1. /\ emQueue' \in [EmMessages -> ItemRow]
          /\ \A m \in EmMessages :
               emQueue'[m] = IF m \in S THEN [status |-> "pending", attempts |-> 0] ELSE emQueue[m]
      BY <1>4, <2>4, EnqueueIs
    <3>2. BootStep(emQueue', rowOf, strandedItems)
      BY <1>2, <1>4, <2>1, <2>2, <3>1 DEF BootStep
    <3>3. ASSUME NEW m \in EmMessages PROVE MessageSound(m)'
      <4>1. MessageSound(m)
        BY <1>1
      <4>2. CASE m \in S
        <5>1. emQueue'[m] = [status |-> "pending", attempts |-> 0] /\ Live(m) /\ rowOf[m] = NoProvider
          BY <3>1, <4>2
        <5>2. Provided(m)'
          BY <5>1 DEF Provided
        <5> QED
          BY <1>2, <1>3, <2>1, <2>2, <4>1, <5>1, <5>2, EmbeddingsAssumption DEF MessageSound
      <4>3. CASE m \notin S
        <5>1. emQueue'[m] = emQueue[m]
          BY <3>1, <4>3
        <5>2. Provided(m)' <=> Provided(m)
          BY <1>2, <1>3, <2>1, <5>1 DEF Provided
        <5>3. Live(m) => Provided(m) \/ m \in cleared'
          BY <2>4, <4>1, <4>3 DEF MessageSound, Provided
        <5> QED
          BY <1>2, <1>3, <2>1, <2>2, <4>1, <5>1, <5>2, <5>3 DEF MessageSound
      <4> QED
        BY <4>2, <4>3
    <3>4. \A m \in EmMessages : rowOf[m] # NoProvider /\ m \notin overtaken =>
            emQueue'[m].status \notin {"pending", "failed"}
      BY <1>5, <3>1
    <3> QED
      BY <3>2, <3>3, <3>4, BootTables
  <2> QED
    BY <2>1, <2>3, <2>4
<1> QED
  BY <1>7, <1>8, <1>9, <1>10, <1>11, <1>12

\* The workers stop; what the index held is on disk, or is known to be lost.
LEMMA StopStep ==
  ASSUME EmInv, StopPipeline \/ Crash
  PROVE  EmInv'
<1>1. /\ server.up \/ server.boot # "off"
      /\ workers' = [w \in EmWorkers |-> IdleWorker]
      /\ strandedItems' = strandedItems \union {m \in InBatch : emQueue[m].status = "processing"}
      /\ server' = [server EXCEPT !.up = FALSE, !.boot = "off"] /\ admin' = NoAdmin
      /\ UNCHANGED <<emMsgs, emQueue, rowOf, overtaken, cleared>>
  BY DEF StopPipeline, Crash, StopWorkers, Booting
<1>2. \/ indexFile' = index /\ index' = index /\ unsaved' = unsaved
      \/ /\ indexFile' = indexFile /\ index' = NoVectors
         /\ unsaved' = unsaved \union {m \in EmMessages : index[m] \notin {NoProvider, indexFile[m]}}
  BY DEF StopPipeline, Crash, Save
<1>3. /\ EmTables /\ \A m \in EmMessages : MessageSound(m)
      /\ \A w \in EmWorkers : WorkerSound(w)
  BY DEF EmInv
<1>4. EmTables'
  <2>1. index' \in Vectors /\ indexFile' \in Vectors
    BY <1>2, <1>3 DEF EmTables, Vectors, NoVectors
  <2>2. IdleWorker \in WorkerRow /\ NoAdmin \in [pc : {"idle", "queue", "index", "enqueue"}, again : BOOLEAN]
        /\ NoAdmin.pc = "idle"
    BY DEF IdleWorker, WorkerRow, NoAdmin
  <2>3. server' \in ServerRow /\ ~server'.up /\ server'.boot = "off"
    BY <1>1, <1>3 DEF EmTables, ServerRow
  <2> QED
    BY <1>1, <1>3, <2>1, <2>2, <2>3 DEF EmTables
<1>5. \A w \in EmWorkers : workers'[w] = IdleWorker
  BY <1>1
<1>6. \A w \in EmWorkers, m \in EmMessages : ~Has(w, m)'
  BY <1>5 DEF Has, IdleWorker
<1>7. BatchesApart'
  BY <1>6 DEF BatchesApart
<1>8. \A w \in EmWorkers : WorkerSound(w)'
  BY <1>5, <1>6 DEF WorkerSound, IdleWorker
<1>9. ASSUME NEW m \in EmMessages PROVE MessageSound(m)'
  <2>1. MessageSound(m) /\ (Live(m)' <=> Live(m)) /\ ~server'.up /\ server'.boot = "off" /\ admin'.pc = "idle"
    BY <1>1, <1>3 DEF Live, NoAdmin, EmTables, ServerRow
  <2>2. Provided(m) /\ Live(m) => Provided(m)'
    <3>1. CASE m \in InBatch /\ m \notin overtaken /\ Live(m)
      <4>1. PICK w \in EmWorkers : Has(w, m)
        BY <3>1, InBatchIs
      <4>2. emQueue[m].status = "processing"
        BY <1>3, <3>1, <4>1 DEF WorkerSound
      <4>3. m \in strandedItems'
        BY <1>1, <3>1, <4>2
      <4> QED
        BY <4>3 DEF Provided
    <3> QED
      BY <1>1, <3>1 DEF Provided
  <2>3. rowOf[m] # NoProvider /\ m \notin unsaved' /\ m \notin overtaken => rowOf[m] = indexFile'[m]
    BY <1>1, <1>2, <2>1 DEF MessageSound
  <2> QED
    BY <1>1, <2>1, <2>2, <2>3 DEF MessageSound
<1>10. RowsLast'
  BY <1>1, <1>6 DEF EmInv, RowsLast
<1> QED
  BY <1>4, <1>7, <1>8, <1>9, <1>10 DEF EmInv

\* The administrator's steps: whatever is in hand counts as overtaken.
LEMMA AdminStep ==
  ASSUME EmInv,
         handleEmbeddingsClear \/ handleEmbeddingsReindex \/ AdminClearsQueue \/ Rebuild \/ AdminDone
  PROVE  EmInv'
<1>1. /\ EmTables /\ BatchesApart /\ \A m \in EmMessages : MessageSound(m)
      /\ \A w \in EmWorkers : WorkerSound(w)
  BY DEF EmInv
<1>2. workers' = workers /\ emMsgs' = emMsgs /\ server' = server /\ UNCHANGED <<indexFile, unsaved>> /\ server.up
  BY <1>1 DEF handleEmbeddingsClear, handleEmbeddingsReindex, ClearEmbeddings, AdminClearsQueue, Rebuild,
              AdminDone, EmTables
<1>3. InBatch' = InBatch /\ \A w \in EmWorkers, m \in EmMessages : Has(w, m)' <=> Has(w, m)
  BY <1>2, BatchesStay
<1>4. /\ \A m : Live(m)' <=> Live(m)
      /\ overtaken \subseteq overtaken'
  BY <1>2 DEF Live, handleEmbeddingsClear, handleEmbeddingsReindex, ClearEmbeddings, AdminClearsQueue, Rebuild,
              AdminDone
<1>5. BatchesApart'
  BY <1>1, <1>3, <1>4 DEF BatchesApart
<1>6. \A w \in EmWorkers, m \in EmMessages : Has(w, m) => m \in InBatch
  BY InBatchIs
<1>7. \A w \in EmWorkers : workers[w].pc \in {"row", "close"} => workers[w].msg \in InBatch
  BY <1>1, <1>6, HeldAreMessages DEF WorkerSound
<1>8. ASSUME NEW w \in EmWorkers, InBatch \subseteq overtaken' PROVE WorkerSound(w)'
  <2>1. WorkerSound(w) /\ \A m \in EmMessages : Has(w, m)' => m \in overtaken'
    BY <1>1, <1>3, <1>6, <1>8
  <2>2. workers[w].pc \in {"row", "close"} => workers[w].msg \in overtaken'
    BY <1>7, <1>8
  <2> QED
    BY <1>2, <1>3, <2>1, <2>2 DEF WorkerSound
<1>13. ASSUME \A m \in EmMessages : rowOf'[m] # NoProvider /\ m \notin overtaken' =>
                rowOf[m] # NoProvider /\ emQueue'[m].status \in {"none", emQueue[m].status}
       PROVE  RowsLast'
  BY <1>2, <1>3, <1>4, <1>13 DEF EmInv, RowsLast
<1>9. CASE handleEmbeddingsClear \/ handleEmbeddingsReindex
  <2>1. /\ rowOf' = [m \in EmMessages |-> NoProvider] /\ overtaken' = overtaken \union InBatch
        /\ cleared' = {m \in EmMessages : Live(m)} /\ admin'.pc = "queue"
        /\ admin' \in [pc : {"idle", "queue", "index", "enqueue"}, again : BOOLEAN]
        /\ UNCHANGED <<emQueue, index, strandedItems>>
    <3>1. PICK again \in BOOLEAN : ClearEmbeddings(again)
      BY <1>9, Zenon DEF handleEmbeddingsClear, handleEmbeddingsReindex
    <3> QED
      BY <3>1 DEF ClearEmbeddings, DeleteAllEmbeddings
  <2>2. EmTables'
    BY <1>1, <1>2, <2>1 DEF EmTables, Vectors
  <2>3. \A m \in EmMessages : MessageSound(m)'
    BY <1>1, <1>2, <1>4, <2>1 DEF MessageSound
  <2>4. InBatch \subseteq overtaken'
    BY <2>1
  <2> QED
    BY <1>5, <1>8, <1>13, <2>1, <2>2, <2>3, <2>4 DEF EmInv
<1>10. CASE AdminClearsQueue
  <2>1. /\ emQueue' = [m \in EmMessages |-> NoItem] /\ overtaken' = overtaken \union InBatch
        /\ cleared' = {m \in EmMessages : Live(m)} /\ admin' = [admin EXCEPT !.pc = "index"]
        /\ UNCHANGED <<rowOf, index>>
    BY <1>10 DEF AdminClearsQueue, ClearQueue
  <2>2. NoItem \in ItemRow /\ NoItem.status = "none" /\ NoItem.attempts = 0
    BY DEF NoItem, ItemRow
  <2>3. EmTables'
    BY <1>1, <1>2, <2>1, <2>2 DEF EmTables
  <2>4. ASSUME NEW m \in EmMessages PROVE MessageSound(m)'
    <3>1. emQueue'[m].status = "none" /\ emQueue'[m].attempts = 0
      BY <2>1, <2>2
    <3>2. Live(m) => m \in cleared'
      BY <2>1
    <3> QED
      BY <1>1, <1>2, <1>4, <2>1, <3>1, <3>2, EmbeddingsAssumption DEF MessageSound
  <2>5. InBatch \subseteq overtaken'
    BY <2>1
  <2> QED
    BY <1>5, <1>8, <1>13, <2>1, <2>2, <2>3, <2>4, <2>5 DEF EmInv
<1>11. CASE Rebuild
  <2>1. /\ admin.pc = "index" /\ admin' = [admin EXCEPT !.pc = "enqueue"] /\ index' = NoVectors
        /\ overtaken' = overtaken \union InBatch \union {m \in EmMessages : rowOf[m] # NoProvider}
        /\ UNCHANGED <<emQueue, rowOf, strandedItems, cleared>>
    BY <1>11 DEF Rebuild
  <2>2. EmTables'
    BY <1>1, <1>2, <2>1 DEF EmTables, Vectors, NoVectors
  <2>3. ASSUME NEW m \in EmMessages PROVE MessageSound(m)'
    <3>1. MessageSound(m)
      BY <1>1
    <3>2. Provided(m) => Provided(m)'
      BY <1>3, <1>4, <2>1 DEF Provided
    <3>3. rowOf[m] # NoProvider => m \in overtaken'
      BY <2>1
    <3> QED
      BY <1>1, <1>2, <1>4, <2>1, <3>1, <3>2, <3>3 DEF MessageSound
  <2>4. InBatch \subseteq overtaken'
    BY <2>1
  <2> QED
    BY <1>5, <1>8, <1>13, <2>1, <2>2, <2>3, <2>4 DEF EmInv
<1>12. CASE AdminDone
  <2> DEFINE S == {m \in EmMessages : Live(m) /\ rowOf[m] = NoProvider /\ emQueue[m].status = "none"}
  <2>1. /\ admin.pc = "enqueue" /\ admin' = NoAdmin
        /\ UNCHANGED <<rowOf, index, strandedItems, overtaken>>
        /\ \/ emQueue' = emQueue /\ cleared' = cleared
           \/ emQueue' = Enqueue(emQueue, S) /\ cleared' = {}
    BY <1>12 DEF AdminDone, EnqueueAllMessages
  <2>2. CASE emQueue' = emQueue /\ cleared' = cleared
    <3>1. EmTables'
      BY <1>1, <1>2, <2>1, <2>2 DEF EmTables, NoAdmin
    <3>2. \A w \in EmWorkers : WorkerSound(w)'
      BY <1>1, <1>2, <1>3, <1>4, <2>1, <2>2 DEF WorkerSound, Live
    <3>3. ASSUME NEW m \in EmMessages PROVE MessageSound(m)'
      <4>1. Provided(m)' <=> Provided(m)
        BY <1>3, <2>1, <2>2 DEF Provided
      <4> QED
        BY <1>1, <1>2, <1>4, <2>1, <2>2, <4>1 DEF MessageSound, NoAdmin
    <3> QED
      BY <1>5, <1>13, <2>1, <2>2, <3>1, <3>2, <3>3 DEF EmInv
  <2>3. CASE emQueue' = Enqueue(emQueue, S) /\ cleared' = {}
    <3>1. /\ emQueue' \in [EmMessages -> ItemRow]
          /\ \A m \in EmMessages :
               emQueue'[m] = IF m \in S THEN [status |-> "pending", attempts |-> 0] ELSE emQueue[m]
      <4>1. emQueue \in [EmMessages -> ItemRow]
        BY <1>1 DEF EmTables
      <4> QED
        BY <2>3, <4>1, EnqueueIs
    <3>2. EmTables'
      BY <1>1, <1>2, <2>1, <3>1 DEF EmTables, NoAdmin
    <3>3. \A m \in EmMessages : emQueue[m].status = "processing" => emQueue'[m].status = "processing"
      BY <3>1
    <3>4. \A w \in EmWorkers : WorkerSound(w)'
      BY <1>1, <1>2, <1>3, <1>4, <2>1, <3>3 DEF WorkerSound, Live
    <3>5. ASSUME NEW m \in EmMessages PROVE MessageSound(m)'
      <4>1. MessageSound(m)
        BY <1>1
      <4>2. CASE m \in S
        <5>1. emQueue'[m] = [status |-> "pending", attempts |-> 0]
          BY <3>1, <4>2
        <5>2. Provided(m)' /\ Live(m)
          BY <4>2, <5>1 DEF Provided
        <5> QED
          BY <1>2, <1>4, <2>1, <2>3, <4>1, <5>1, <5>2, EmbeddingsAssumption DEF MessageSound
      <4>3. CASE m \notin S
        <5>1. emQueue'[m] = emQueue[m]
          BY <3>1, <4>3
        <5>2. Live(m) => Provided(m)
          BY <2>1, <4>1, <4>3 DEF MessageSound, Provided
        <5>3. Provided(m)' <=> Provided(m)
          BY <1>3, <2>1, <5>1 DEF Provided
        <5> QED
          BY <1>2, <1>4, <2>1, <4>1, <5>1, <5>2, <5>3 DEF MessageSound, NoAdmin
      <4> QED
        BY <4>2, <4>3
    <3> QED
      BY <1>5, <1>13, <2>1, <3>1, <3>2, <3>4, <3>5 DEF EmInv
  <2> QED
    BY <2>1, <2>2, <2>3
<1> QED
  BY <1>9, <1>10, <1>11, <1>12

LEMMA EmStep == EmInv /\ [EmbeddingsNext]_emVars => EmInv'
<1> SUFFICES ASSUME EmInv, [EmbeddingsNext]_emVars PROVE EmInv'
  OBVIOUS
<1>1. CASE UNCHANGED emVars
  BY <1>1 DEF emVars, EmInv, EmTables, BatchesApart, RowsLast, WorkerSound, MessageSound, Provided, Has, InBatch, Live
<1>2. CASE EmbeddingsNext
  BY <1>2, CreatedStep, DeletedStep, StartStep, StopStep, BatchStep, DequeueStep, AddVectorStep, SaveStep, AdminStep
     DEF EmbeddingsNext
<1> QED
  BY <1>1, <1>2

\* The queue forgets no message, what is recorded as embedded is indexed, and
\* attempts are bounded.
LEMMA PipelineHolds == EmInv => EmbeddingsTypeOK /\ NothingForgotten /\ EmbeddedIsIndexed /\ AttemptsBounded
<1> SUFFICES ASSUME EmInv PROVE EmbeddingsTypeOK /\ NothingForgotten /\ EmbeddedIsIndexed /\ AttemptsBounded
  OBVIOUS
<1>1. EmbeddingsTypeOK
  BY DEF EmInv, EmTables, EmbeddingsTypeOK, Vectors, ItemRow, WorkerRow
<1>2. NothingForgotten
  BY DEF EmInv, MessageSound, Provided, NothingForgotten
<1>3. EmbeddedIsIndexed
  BY DEF EmInv, MessageSound, EmbeddedIsIndexed
<1>4. AttemptsBounded
  BY DEF EmInv, MessageSound, AttemptsBounded
<1> QED
  BY <1>1, <1>2, <1>3, <1>4

-----------------------------------------------------------------------------
(* Search.  A ranking is an injective sequence of a finite set.            *)

LEMMA SeqIsFunction ==
  ASSUME NEW S, NEW x \in Seq(S) PROVE x \in [1..Len(x) -> S]
OBVIOUS

LEMMA Listing ==
  ASSUME NEW S, IsFiniteSet(S), NEW f \in SetToSeqs(S)
  PROVE  /\ Cardinality(S) \in Nat /\ f \in [1..Cardinality(S) -> S] /\ f \in Seq(S)
         /\ Len(f) = Cardinality(S) /\ DOMAIN f = 1..Cardinality(S)
         /\ \A i, j \in DOMAIN f : f[i] = f[j] => i = j
         /\ Range(f) = S
<1> DEFINE n == Cardinality(S)
<1>1. n \in Nat
  BY FS_CardinalityType
<1>2. f \in [1..n -> S] /\ \A i, j \in 1..n : i # j => f[i] # f[j]
  BY DEF SetToSeqs
<1>3. f \in Injection(1..n, S)
  BY <1>2 DEF Injection, IsInjective
<1>4. Cardinality(1..n) = n
  BY <1>1, FS_Interval
<1>5. f \in Surjection(1..n, S)
  BY <1>3, <1>4, FS_Injection
<1>6. Range(f) = S
  BY <1>2, <1>5 DEF Surjection, Range
<1> QED
  BY <1>1, <1>2, <1>6

\* The position of a message in a ranking; 0 if it is not there.
LEMMA RankIs ==
  ASSUME NEW S, IsFiniteSet(S), NEW f \in SetToSeqs(S), NEW m
  PROVE  /\ m \in S => Rank(f, m) \in 1..Cardinality(S)
         /\ m \notin S => Rank(f, m) = 0
BY Listing DEF Rank, Range

\* Reciprocal ranks with one denominator.
LEMMA ScoreIs ==
  ASSUME NEW sem, NEW full, NEW m, Rank(sem, m) \in Nat, Rank(full, m) \in Nat
  PROVE  /\ Rank(sem, m) # 0 /\ Rank(full, m) # 0 =>
              Score(sem, full, m) = <<(60 + Rank(full, m)) + (60 + Rank(sem, m)),
                                      (60 + Rank(sem, m)) * (60 + Rank(full, m))>>
         /\ Rank(sem, m) # 0 /\ Rank(full, m) = 0 => Score(sem, full, m) = <<1, 60 + Rank(sem, m)>>
         /\ Rank(sem, m) = 0 /\ Rank(full, m) # 0 => Score(sem, full, m) = <<1, 60 + Rank(full, m)>>
<1>1. PICK a \in Nat, b \in Nat : a = Rank(sem, m) /\ b = Rank(full, m)
  OBVIOUS
<1>2. a # 0 /\ b # 0 => Score(sem, full, m) = <<(60 + b) + (60 + a), (60 + a) * (60 + b)>>
  BY <1>1 DEF Score, rrfK
<1>3. a # 0 /\ b = 0 => Score(sem, full, m) = <<1, 60 + a>>
  BY <1>1 DEF Score, rrfK
<1>4. a = 0 /\ b # 0 => Score(sem, full, m) = <<1, 60 + b>>
  BY <1>1 DEF Score, rrfK
<1> QED
  BY <1>1, <1>2, <1>3, <1>4

\* Two reciprocals of ranks up to 60 outweigh a single one of any rank.
LEMMA TwoOutweighOne ==
  ASSUME NEW a \in 1..60, NEW b \in 1..60, NEW c \in Nat \ {0}
  PROVE  ((60 + b) + (60 + a)) * (60 + c) > 1 * ((60 + a) * (60 + b))
<1>1. (60 - a) * (60 - b) >= 0
  OBVIOUS
<1>2. (60 + a) * (60 + b) < ((60 + b) + (60 + a)) * 61
  BY <1>1
<1>3. ((60 + b) + (60 + a)) * 61 <= ((60 + b) + (60 + a)) * (60 + c)
  OBVIOUS
<1> QED
  BY <1>2, <1>3

\* What MergeSound says of one pair of rankings.
Merged(sem, full, t, both, any, limit) ==
  /\ Cardinality(Range(t)) = Len(t) /\ Range(t) \subseteq any
  /\ Len(t) = IF Cardinality(any) < limit THEN Cardinality(any) ELSE limit
  /\ \A i, j \in DOMAIN t : t[i] \in any \ both /\ t[j] \in both /\ FoundEarly(sem, full, t[j]) => j < i
  /\ \A m \in any : m \notin Range(t) => \A i \in DOMAIN t : ~Higher(Score(sem, full, m), Score(sem, full, t[i]))

\* For any two rankings and any limit: the merged ranking names each message once
\* and fills the limit, what both found among their first 60 precedes what one of
\* them found, and what is left out is not scored higher.
LEMMA MergeRankings ==
  ASSUME NEW A, IsFiniteSet(A), NEW B, IsFiniteSet(B),
         NEW sem \in SetToSeqs(A), NEW full \in SetToSeqs(B), NEW limit \in Nat,
         NEW t \in mergeRRF(sem, full, limit)
  PROVE  Merged(sem, full, t, A \intersect B, A \union B, limit)
<1> DEFINE any == A \union B
           Worse(x, y) == ~Higher(Score(sem, full, y), Score(sem, full, x))
           n == Cardinality(any)
           k == IF n < limit THEN n ELSE limit
<1>1. IsFiniteSet(any) /\ n \in Nat /\ k \in 0..n
  <2>1. IsFiniteSet(any)
    BY FS_Union
  <2>2. n \in Nat
    BY <2>1, FS_CardinalityType
  <2> HIDE DEF any
  <2> QED
    BY <2>1, <2>2
<1>2. Range(sem) = A /\ Range(full) = B
  BY Listing
<1>3. PICK s \in SetToSeqs(any) :
        /\ \A i, j \in DOMAIN s : i < j => Worse(s[i], s[j])
        /\ t = SubSeq(s, 1, IF Len(s) < limit THEN Len(s) ELSE limit)
  BY <1>2 DEF mergeRRF
<1> HIDE DEF any, Worse
<1>4. /\ s \in [1..n -> any] /\ s \in Seq(any) /\ Len(s) = n /\ DOMAIN s = 1..n /\ Range(s) = any
      /\ \A i, j \in 1..n : s[i] = s[j] => i = j
  BY <1>1, Listing
<1> HIDE DEF n
<1>5. /\ t = SubSeq(s, 1, k) /\ t \in Seq(any) /\ Len(t) = k /\ DOMAIN t = 1..k
      /\ \A i \in 1..k : i \in 1..n /\ t[i] = s[i]
  BY <1>1, <1>3, <1>4
<1> HIDE DEF k
<1>6. k \in Nat /\ Cardinality(1..k) = k /\ IsFiniteSet(1..k)
  <2>1. k \in Nat /\ k \in Int /\ 1 \in Int
    BY <1>1
  <2>2. IsFiniteSet(1..k) /\ Cardinality(1..k) = IF 1 > k THEN 0 ELSE k - 1 + 1
    BY <2>1, FS_Interval, Zenon
  <2> QED
    BY <2>1, <2>2
<1>7. Cardinality(Range(t)) = Len(t)
  <2>1. t \in [1..k -> Range(t)] /\ \A i, j \in 1..k : t[i] = t[j] => i = j
    <3>1. \A i \in 1..k : t[i] \in Range(t)
      <4>1. \A i \in DOMAIN t : t[i] \in Range(t)
        BY DEF Range
      <4> QED
        BY <1>5, <4>1
    <3>2. t \in [1..Len(t) -> any]
      BY <1>5, SeqIsFunction, Zenon
    <3>3. t \in [1..k -> Range(t)]
      BY <1>5, <3>1, <3>2
    <3> QED
      BY <1>4, <1>5, <3>3
  <2>2. t \in Surjection(1..k, Range(t))
    BY <1>5, <2>1 DEF Surjection, Range
  <2>3. t \in Injection(1..k, Range(t))
    BY <2>1 DEF Injection, IsInjective
  <2> QED
    BY <1>5, <1>6, <2>2, <2>3, FS_Surjection
<1>8. Range(t) \subseteq any
  BY <1>4, <1>5 DEF Range
<1>9. ASSUME NEW i \in 1..k, NEW j \in 1..k, t[i] \in any \ (A \intersect B), t[j] \in A \intersect B,
             FoundEarly(sem, full, t[j])
      PROVE  j < i
  <2>1. PICK x, y : /\ x = t[i] /\ y = t[j] /\ x \in any \ (A \intersect B) /\ y \in A \intersect B
                    /\ Rank(sem, y) <= 60 /\ Rank(full, y) <= 60
    BY <1>9 DEF FoundEarly, rrfK
  <2>2. Cardinality(A) \in Nat /\ Cardinality(B) \in Nat
    BY FS_CardinalityType
  <2>3. PICK a \in 1..60, b \in 1..60 :
          Score(sem, full, y) = <<(60 + b) + (60 + a), (60 + a) * (60 + b)>>
    <3>1. Rank(sem, y) \in 1..Cardinality(A) /\ Rank(full, y) \in 1..Cardinality(B)
      BY <2>1, RankIs
    <3>2. Rank(sem, y) \in 1..60 /\ Rank(full, y) \in 1..60
      BY <2>1, <2>2, <3>1
    <3> QED
      BY <3>2, ScoreIs, SMTT(30)
  <2>5. \E e \in Nat \ {0} : Score(sem, full, x) = <<1, 60 + e>>
    <3>1. CASE x \in A
      <4>1. Rank(sem, x) \in 1..Cardinality(A) /\ Rank(full, x) = 0
        BY <2>1, <3>1, RankIs
      <4>2. Rank(sem, x) \in Nat \ {0} /\ Rank(full, x) = 0
        BY <2>2, <4>1
      <4> QED
        BY <4>2, ScoreIs
    <3>2. CASE x \notin A
      <4>1. Rank(sem, x) = 0 /\ Rank(full, x) \in 1..Cardinality(B)
        BY <2>1, <3>2, RankIs DEF any
      <4>2. Rank(sem, x) = 0 /\ Rank(full, x) \in Nat \ {0}
        BY <2>2, <4>1
      <4> QED
        BY <4>2, ScoreIs
    <3> QED
      BY <3>1, <3>2
  <2>6. Higher(Score(sem, full, t[j]), Score(sem, full, t[i]))
    BY <2>1, <2>3, <2>5, TwoOutweighOne DEF Higher
  <2>7. ~(i < j)
    BY <1>3, <1>4, <1>5, <2>6 DEF Worse
  <2>8. i # j
    BY <1>9
  <2> QED
    BY <1>6, <2>7, <2>8
<1>10. ASSUME NEW m \in any, m \notin Range(t), NEW i \in 1..k
       PROVE  ~Higher(Score(sem, full, m), Score(sem, full, t[i]))
  <2>1. PICK j \in 1..n : s[j] = m
    BY <1>4 DEF Range
  <2>2. j \notin 1..k
    BY <1>5, <1>10, <2>1 DEF Range
  <2>3. i < j /\ i \in 1..n
    BY <1>1, <1>6, <2>2
  <2> QED
    BY <1>3, <1>4, <1>5, <2>1, <2>3 DEF Worse
<1> QED
  BY <1>5, <1>7, <1>8, <1>9, <1>10 DEF Merged, any, n, k

LEMMA RankingsList ==
  ASSUME NEW r \in Rankings
  PROVE  \E S \in SUBSET Ids : r \in SetToSeqs(S) /\ IsFiniteSet(S) /\ Range(r) = S
<1>1. PICK S \in SUBSET Ids : r \in SetToSeqs(S)
  BY DEF Rankings
<1>2. IsFiniteSet(Ids) /\ Cardinality(Ids) = 3
  <2>1. 1 \in Int /\ 3 \in Int
    OBVIOUS
  <2>2. IsFiniteSet(1..3) /\ Cardinality(1..3) = IF 1 > 3 THEN 0 ELSE 3 - 1 + 1
    BY <2>1, FS_Interval, Zenon
  <2> QED
    BY <2>2 DEF Ids
<1>3. IsFiniteSet(S) /\ Cardinality(S) <= 3 /\ Cardinality(S) \in Nat
  BY <1>2, FS_Subset, FS_CardinalityType
<1> QED
  BY <1>1, <1>3, Listing

LEMMA MergeHolds == MergeSound
<1> SUFFICES ASSUME NEW sem \in Rankings, NEW full \in Rankings, NEW limit \in 1..3,
                    NEW t \in mergeRRF(sem, full, limit)
             PROVE  Merged(sem, full, t, Range(sem) \intersect Range(full), Range(sem) \union Range(full), limit)
  BY DEF MergeSound, Merged
<1> QED
  BY RankingsList, MergeRankings

\* A search that fails or finds nothing leaves the answer to the full text.
LEMMA FallbackHolds == FallbackSound
<1>1. ASSUME NEW full \in Rankings PROVE full # Failed
  <2>1. PICK S \in SUBSET Ids : Range(full) = S
    BY RankingsList
  <2>2. 0 \in Range(Failed)
    BY DEF Failed, Range
  <2> QED
    BY <2>1, <2>2 DEF Ids
<1>2. ASSUME NEW mode \in {"auto", "semantic", "fulltext"}, NEW provider \in BOOLEAN, NEW vectors \in BOOLEAN,
             NEW full \in Rankings
      PROVE  callSearchMessages(mode, provider, vectors, Failed, full, 3) =
               {IF mode = "semantic" /\ ~provider THEN Failed ELSE full}
  BY <1>1 DEF callSearchMessages, Search, hybridSearch
<1>3. ASSUME NEW mode \in {"auto", "semantic", "fulltext"}, NEW provider \in BOOLEAN, NEW vectors \in BOOLEAN,
             NEW full \in Rankings, mode # "semantic"
      PROVE  callSearchMessages(mode, provider, vectors, <<>>, full, 3) = {full}
  BY <1>1, <1>3 DEF callSearchMessages, Search, hybridSearch, Failed
<1> QED
  BY <1>2, <1>3 DEF FallbackSound

\* No message is forgotten by the queue, what a row says is embedded has a
\* vector, the provider is asked RetryMaxAttempts times at most, and a search
\* merges and falls back as it says.
THEOREM EmbeddingsCorrect == EmbeddingsSpec => []EmbeddingsSafe
<1>1. EmbeddingsSpec => []EmInv
  BY EmInitInv, EmStep, PTL DEF EmbeddingsSpec
<1>2. EmInv => EmbeddingsSafe
  BY PipelineHolds, MergeHolds, FallbackHolds DEF EmbeddingsSafe
<1> QED
  BY <1>1, <1>2, PTL

-----------------------------------------------------------------------------
(* The composition: one component moves, the others stay as they are.      *)

LEMMA WorkComposes ==
  /\ WorkInit => GoalsInit /\ SecretsInit /\ HarnessInit /\ K8sInit /\ EmbeddingsInit
  /\ [WorkNext]_<<part, glVars, seVars, hxVars, khVars, emVars>> =>
        /\ [GoalsNext]_glVars /\ [SecretsNext]_seVars /\ [HarnessNext]_hxVars
        /\ [K8sNext]_khVars /\ [EmbeddingsNext]_emVars
BY DEF WorkInit, WorkNext

\* Secrets of the composed system: one live value per name and scope, the
\* narrowest scope wins, and what is listed can be decrypted.
THEOREM SecretsHoldAlways == WorkSpec => []SecretsHold
<1>1. SecretsSafe => SecretsHold
  BY DEF SecretsHold
<1>2. WorkSpec => SecretsSpec
  BY WorkComposes, PTL DEF WorkSpec, SecretsSpec
<1> QED
  BY <1>1, <1>2, SecretsCorrect, PTL

\* Kubernetes handlers of the composed system: every Job is on record under
\* the owner of its handler, and its logs are its own.
THEOREM K8sHoldsAlways == WorkSpec => []K8sHolds
<1>1. K8sSafe => K8sHolds
  BY DEF K8sHolds
<1>2. WorkSpec => K8sSpec
  BY WorkComposes, PTL DEF WorkSpec, K8sSpec
<1> QED
  BY <1>1, <1>2, K8sCorrect, PTL

\* Goals of the composed system: slugs and channels stay apart, trees are
\* sound, work has an assignee, and the costs on every page add up.
THEOREM GoalsHoldAlways == WorkSpec => []GoalsHold
<1>1. GoalsSafe => GoalsHold
  BY DEF GoalsHold
<1>2. WorkSpec => GoalsSpec
  BY WorkComposes, PTL DEF WorkSpec, GoalsSpec
<1> QED
  BY <1>1, <1>2, GoalsCorrect, PTL

\* Goals, tasks and secrets of the composed system: what is over is reopened
\* only by a call that judged it before, a task stays with its agent, and a
\* revoked value does not come back.
THEOREM OverStaysOver == WorkSpec => OverForGood
<1>1. WorkSpec => GoalsSpec
  BY WorkComposes, PTL DEF WorkSpec, GoalsSpec
<1>2. WorkSpec => SecretsSpec
  BY WorkComposes, PTL DEF WorkSpec, SecretsSpec
<1> QED
  BY <1>1, <1>2, OverStays, RevokedStays, PTL DEF OverForGood

\* The harness of the composed system: router and Registry choose alike, and
\* rows, work and directories are settled with the execution.
THEOREM HarnessHoldsAlways == WorkSpec => []HarnessHolds
<1>1. HarnessSafe => HarnessHolds
  BY DEF HarnessHolds
<1>2. WorkSpec => HarnessSpec
  BY WorkComposes, PTL DEF WorkSpec, HarnessSpec
<1> QED
  BY <1>1, <1>2, HarnessCorrect, PTL

\* The embedding pipeline and search of the composed system: no message is
\* forgotten, rows have their vectors, attempts are bounded, rankings merge.
THEOREM EmbeddingsHoldAlways == WorkSpec => []EmbeddingsHold
<1>1. EmbeddingsSafe => EmbeddingsHold
  BY DEF EmbeddingsHold
<1>2. WorkSpec => EmbeddingsSpec
  BY WorkComposes, PTL DEF WorkSpec, EmbeddingsSpec
<1> QED
  BY <1>1, <1>2, EmbeddingsCorrect, PTL
=============================================================================

---------------------------- MODULE TaskAuction ----------------------------
(***************************************************************************)
(* Task auctions (internal/channels: SwarmService, task store, expiry      *)
(* worker) and the marketplace on top of them (internal/marketplace).      *)
(*                                                                         *)
(* Every store call is one SQL statement, and nothing holds a lock or a    *)
(* transaction between two of them: each is an action.  A bid is a task    *)
(* and a bidder, because of UNIQUE(task_id, agent_name).                   *)
(***************************************************************************)
EXTENDS Integers, FiniteSets

CONSTANTS
  Tasks,
  Agents,
  Members,       \* the members of the auction channel
  Domains,       \* the domains a task declares
  BidCalls,      \* calls of bid_task
  AwardCalls,    \* calls of accept_bid, or of award
  DoneCalls,     \* calls of complete_task, or of mark_task_done
  Marketplace,   \* the calls that come through award and mark_task_done
  None,          \* no agent
  BatchSize,     \* expireTasksBatchSize
  MaxRestarts    \* bound: how often the server is restarted

Bids  == Tasks \X Agents
Calls == BidCalls \cup AwardCalls \cup DoneCalls

ASSUME AuctionAssumption ==
  /\ Members \subseteq Agents /\ Marketplace \subseteq Calls
  /\ None \notin Agents \cup Tasks
  /\ BidCalls \cap AwardCalls = {} /\ BidCalls \cap DoneCalls = {} /\ AwardCalls \cap DoneCalls = {}
  /\ BatchSize \in Nat \ {0} /\ MaxRestarts \in Nat

VARIABLES
  task,      \* tasks.status; "none": not posted
  poster,    \* tasks.posted_by
  deadline,  \* "never" (NULL), "future" or "past"
  assigned,  \* tasks.assigned_to
  bid,       \* task_bids.status; "none": no row
  at,        \* the statement each call comes to next
  target,    \* the bid each call is about
  job,       \* the task each call is about
  rest,      \* what a call's loop still has to do: bids to reject, domains to record
  est,       \* the bidder whose estimate a mark_task_done has read
  dm,        \* award messages: who was told about which task
  ledger,    \* agent_reputation; the call tells rows apart
  restarts

tables == <<task, poster, deadline, assigned, bid, dm, ledger>>
vars   == <<tables, at, target, job, rest, est, restarts>>

Goto(c, label) == at' = [at EXCEPT ![c] = label]

-----------------------------------------------------------------------------
(* Posting and expiry. *)

PostTask(t, p, d) ==
  /\ task[t] = "none"
  /\ p \in Members
  /\ task' = [task EXCEPT ![t] = "open"]
  /\ poster' = [poster EXCEPT ![t] = p]
  /\ deadline' = [deadline EXCEPT ![t] = d]
  /\ UNCHANGED <<assigned, bid, dm, ledger, at, target, job, rest, est, restarts>>

DeadlinePasses(t) ==
  /\ deadline[t] = "future"
  /\ deadline' = [deadline EXCEPT ![t] = "past"]
  /\ UNCHANGED <<task, poster, assigned, bid, dm, ledger, at, target, job, rest, est, restarts>>

Overdue == {t \in Tasks : task[t] = "open" /\ deadline[t] = "past"}

\* One UPDATE of the expiry worker's loop.
ExpireTasks(batch) ==
  /\ batch \subseteq Overdue /\ batch # {}
  /\ batch = Overdue \/ Cardinality(batch) = BatchSize
  /\ Cardinality(batch) <= BatchSize
  /\ task' = [t \in Tasks |-> IF t \in batch THEN "cancelled" ELSE task[t]]
  /\ UNCHANGED <<poster, deadline, assigned, bid, dm, ledger, at, target, job, rest, est, restarts>>

-----------------------------------------------------------------------------
(* BidOnTask. *)

BidCheck(c, t, a) ==
  /\ at[c] = "start"
  /\ task[t] = "open" /\ poster[t] # a /\ a \in Members
  /\ Goto(c, "insert")
  /\ job' = [job EXCEPT ![c] = t]
  /\ target' = [target EXCEPT ![c] = <<t, a>>]
  /\ UNCHANGED <<tables, rest, est, restarts>>

CreateBid(c) ==
  /\ at[c] = "insert"
  /\ bid' = [bid EXCEPT ![target[c]] = IF @ = "none" THEN "pending" ELSE @]
  /\ Goto(c, "end")
  /\ UNCHANGED <<task, poster, deadline, assigned, dm, ledger, target, job, rest, est, restarts>>

-----------------------------------------------------------------------------
(* AcceptBid by the poster of the task, and Award. *)

AcceptCheck(c, t, b) ==
  /\ at[c] = "start"
  /\ task[t] = "open"
  /\ Goto(c, "bid")
  /\ job' = [job EXCEPT ![c] = t]
  /\ target' = [target EXCEPT ![c] = b]
  /\ UNCHANGED <<tables, rest, est, restarts>>

\* Mutant: the bid is not compared with the task.
GetBidOfAnyTask(c) ==
  /\ at[c] = "bid"
  /\ Goto(c, IF bid[target[c]] # "none" THEN "assign" ELSE "end")
  /\ UNCHANGED <<tables, target, job, rest, est, restarts>>

GetBid(c) ==
  /\ at[c] = "bid"
  /\ Goto(c, IF bid[target[c]] # "none" /\ target[c][1] = job[c] THEN "assign" ELSE "end")
  /\ UNCHANGED <<tables, target, job, rest, est, restarts>>

\* UpdateTaskStatus: WHERE id = ? and nothing else.
AssignTask(c) ==
  /\ at[c] = "assign"
  /\ task' = [task EXCEPT ![job[c]] = "assigned"]
  /\ assigned' = [assigned EXCEPT ![job[c]] = target[c][2]]
  /\ Goto(c, "accept")
  /\ UNCHANGED <<poster, deadline, bid, dm, ledger, target, job, rest, est, restarts>>

UpdateBidStatus(b, status) == bid' = [bid EXCEPT ![b] = status]

AcceptWinner(c) ==
  /\ at[c] = "accept"
  /\ UpdateBidStatus(target[c], "accepted")
  /\ Goto(c, "list")
  /\ UNCHANGED <<task, poster, deadline, assigned, dm, ledger, target, job, rest, est, restarts>>

\* Mutant: the winner is among the bids that are rejected.
GetBidsWithWinner(c) ==
  /\ at[c] = "list"
  /\ rest' = [rest EXCEPT ![c] = {b \in Bids : b[1] = job[c] /\ bid[b] # "none"}]
  /\ Goto(c, "reject")
  /\ UNCHANGED <<tables, target, job, est, restarts>>

GetBids(c) ==
  /\ at[c] = "list"
  /\ rest' = [rest EXCEPT ![c] = {b \in Bids : b[1] = job[c] /\ b # target[c] /\ bid[b] = "pending"}]
  /\ Goto(c, "reject")
  /\ UNCHANGED <<tables, target, job, est, restarts>>

RejectLoser(c, b) ==
  /\ at[c] = "reject" /\ b \in rest[c]
  /\ UpdateBidStatus(b, "rejected")
  /\ rest' = [rest EXCEPT ![c] = @ \ {b}]
  /\ UNCHANGED <<task, poster, deadline, assigned, dm, ledger, at, target, job, est, restarts>>

\* Award reads the task again and sends its assignee a message.
EndAward(c) ==
  /\ at[c] = "reject" /\ rest[c] = {}
  /\ dm' = IF c \in Marketplace THEN dm \cup {<<job[c], assigned[job[c]]>>} ELSE dm
  /\ Goto(c, "end")
  /\ UNCHANGED <<task, poster, deadline, assigned, bid, ledger, target, job, rest, est, restarts>>

-----------------------------------------------------------------------------
(* CompleteTask by an agent, and MarkTaskDone. *)

\* MarkTaskDone reads the bids first: the estimate is that of an accepted bid.
DoneRead(c, t, a, e) ==
  /\ at[c] = "start"
  /\ task[t] # "none"
  /\ \/ e \in Agents /\ bid[<<t, e>>] = "accepted"
     \/ e = None /\ \A x \in Agents : bid[<<t, x>>] # "accepted"
  /\ est' = [est EXCEPT ![c] = e]
  /\ job' = [job EXCEPT ![c] = t]
  /\ target' = [target EXCEPT ![c] = <<t, a>>]
  /\ Goto(c, "check")
  /\ UNCHANGED <<tables, rest, restarts>>

\* Mutant: the caller is not compared with the assignee.
DoneCheckAnyone(c) ==
  /\ at[c] = "check"
  /\ Goto(c, CASE task[job[c]] = "completed" -> "record"
               [] task[job[c]] = "assigned" -> "update"
               [] OTHER -> "end")
  /\ rest' = [rest EXCEPT ![c] = {job[c]} \X Domains]
  /\ UNCHANGED <<tables, target, job, est, restarts>>

\* A repeated completion is no error: MarkTaskDone goes on to the ledger.
DoneCheck(c) ==
  LET t == job[c]
      mine == assigned[t] = target[c][2]
  IN
  /\ at[c] = "check"
  /\ Goto(c, CASE task[t] = "completed" /\ mine -> "record"
               [] task[t] = "assigned" /\ mine -> "update"
               [] OTHER -> "end")
  /\ rest' = [rest EXCEPT ![c] = {t} \X Domains]
  /\ UNCHANGED <<tables, target, job, est, restarts>>

CompleteTask(c) ==
  /\ at[c] = "update"
  /\ task' = [task EXCEPT ![job[c]] = "completed"]
  /\ Goto(c, "record")
  /\ UNCHANGED <<poster, deadline, assigned, bid, dm, ledger, target, job, rest, est, restarts>>

RecordEntry(c, d) ==
  /\ at[c] = "record" /\ c \in Marketplace
  /\ <<job[c], d>> \in rest[c]
  /\ ledger' = ledger \cup {[call |-> c, task |-> job[c], agent |-> target[c][2], domain |-> d, est |-> est[c]]}
  /\ rest' = [rest EXCEPT ![c] = @ \ {<<job[c], d>>}]
  /\ UNCHANGED <<task, poster, deadline, assigned, bid, dm, at, target, job, est, restarts>>

EndDone(c) ==
  /\ at[c] = "record"
  /\ c \in Marketplace => rest[c] = {}
  /\ Goto(c, "end")
  /\ UNCHANGED <<tables, target, job, rest, est, restarts>>

-----------------------------------------------------------------------------
\* The calls in progress are lost, the tables stay.
Restart ==
  /\ restarts < MaxRestarts
  /\ at' = [c \in Calls |-> IF at[c] = "start" THEN "start" ELSE "end"]
  /\ restarts' = restarts + 1
  /\ UNCHANGED <<tables, target, job, rest, est>>

Init ==
  /\ task = [t \in Tasks |-> "none"]
  /\ poster = [t \in Tasks |-> None]
  /\ deadline = [t \in Tasks |-> "never"]
  /\ assigned = [t \in Tasks |-> None]
  /\ bid = [b \in Bids |-> "none"]
  /\ at = [c \in Calls |-> "start"]
  /\ target = [c \in Calls |-> None] /\ job = [c \in Calls |-> None]
  /\ rest = [c \in Calls |-> {}] /\ est = [c \in Calls |-> None]
  /\ dm = {} /\ ledger = {}
  /\ restarts = 0

BidStep(c) == (\E t \in Tasks, a \in Agents : BidCheck(c, t, a)) \/ CreateBid(c)

AwardStep(c) ==
  \/ GetBid(c) \/ AssignTask(c) \/ AcceptWinner(c) \/ GetBids(c) \/ EndAward(c)
  \/ \E b \in Bids : RejectLoser(c, b)

DoneStep(c) ==
  \/ DoneCheck(c) \/ CompleteTask(c) \/ EndDone(c)
  \/ \E d \in Domains : RecordEntry(c, d)

Next ==
  \/ \E t \in Tasks : \/ \E p \in Agents, d \in {"never", "future"} : PostTask(t, p, d)
                      \/ DeadlinePasses(t)
  \/ \E batch \in SUBSET Tasks : ExpireTasks(batch)
  \/ \E c \in BidCalls : BidStep(c)
  \/ \E c \in AwardCalls : AwardStep(c) \/ \E t \in Tasks, b \in Bids : AcceptCheck(c, t, b)
  \/ \E c \in DoneCalls : \/ DoneStep(c)
                          \/ \E t \in Tasks, a \in Agents, e \in Agents \cup {None} : DoneRead(c, t, a, e)
  \/ Restart

\* A call that has begun goes on, and the expiry worker's ticker ticks.  Nobody
\* has to post, bid, award or complete.
Fairness ==
  /\ WF_vars(\E batch \in SUBSET Tasks : ExpireTasks(batch))
  /\ \A c \in BidCalls : WF_vars(CreateBid(c))
  /\ \A c \in AwardCalls : WF_vars(AwardStep(c))
  /\ \A c \in DoneCalls : WF_vars(DoneStep(c))

Spec     == Init /\ [][Next]_vars
FairSpec == Spec /\ Fairness

-----------------------------------------------------------------------------
\* Tables and the local variables of calls keep their types.
TypeOK ==
  /\ task \in [Tasks -> {"none", "open", "assigned", "completed", "cancelled"}]
  /\ poster \in [Tasks -> Agents \cup {None}]
  /\ deadline \in [Tasks -> {"never", "future", "past"}]
  /\ assigned \in [Tasks -> Agents \cup {None}]
  /\ bid \in [Bids -> {"none", "pending", "accepted", "rejected"}]
  /\ at \in [Calls -> {"start", "end", "insert", "bid", "assign", "accept", "list", "reject",
                       "check", "update", "record"}]
  /\ target \in [Calls -> Bids \cup {None}]
  /\ job \in [Calls -> Tasks \cup {None}]
  /\ rest \in [Calls -> SUBSET (Bids \cup (Tasks \X Domains))]
  /\ est \in [Calls -> Agents \cup {None}]
  /\ dm \in SUBSET Bids
  /\ ledger \in SUBSET [call : DoneCalls, task : Tasks, agent : Agents, domain : Domains, est : Agents \cup {None}]
  /\ restarts \in 0..MaxRestarts

Awarded(t)    == task[t] \in {"assigned", "completed"}
InProgress(c) == at[c] \notin {"start", "end"}

\* The awards of a task were not made at once: one call at most.
AwardedOnce(t) == \A c, d \in AwardCalls : job[c] = t /\ job[d] = t => c = d

\* However awards, late bids, expiry and completions interleave, a task is only
\* ever assigned to an agent who has bid on this very task and did not post it.
AssigneeHasBid ==
  \A t \in Tasks : Awarded(t) => /\ assigned[t] # poster[t]
                                 /\ bid[<<t, assigned[t]>>] # "none"

\* When the poster makes one award and no restart cuts it off, the bids agree
\* with the task: the assignee's is the accepted one, and no other is, whatever
\* bids and completions arrive meanwhile.
AwardConsistent ==
  \A t \in Tasks :
    restarts = 0 /\ Awarded(t) /\ AwardedOnce(t) /\ (\A c \in AwardCalls : job[c] = t => ~InProgress(c))
      => {a \in Agents : bid[<<t, a>>] = "accepted"} = {assigned[t]}

\* Reputation is earned: with one award, the ledger names the agent the task was
\* assigned to, the task is completed, and the estimate is that agent's own (or
\* missing, when the call read the bids before AcceptBid had marked the winner).
ReputationEarned ==
  \A e \in ledger : AwardedOnce(e.task) =>
    task[e.task] = "completed" /\ assigned[e.task] = e.agent /\ e.est \in {e.agent, None}

-----------------------------------------------------------------------------
(* What the documentation says and the code does not do. *)

\* .specify/specs/010-swarm-patterns/spec.md, FR-010: the task lifecycle.
TaskLifecycle ==
  [][\A t \in Tasks : task'[t] # task[t] =>
       <<task[t], task'[t]>> \in {<<"none", "open">>, <<"open", "assigned">>,
                                  <<"assigned", "completed">>, <<"open", "cancelled">>}]_vars

\* specs/016-agent-marketplace/spec.md, FR-008: a task is awarded to one bid.
OneWinner ==
  \A t \in Tasks : Cardinality({a \in Agents : bid[<<t, a>>] = "accepted"}) <= 1

\* FR-010 there: the losing bids of an awarded task are not left pending.
LosersTold ==
  \A t \in Tasks, a \in Agents :
    (task[t] = "assigned" /\ bid[<<t, a>>] = "pending") ~> bid[<<t, a>>] # "pending"

\* FR-009 there: the assignee of an awarded task is told about it.
WinnerTold ==
  \A t \in Tasks : task[t] = "assigned" ~> <<t, assigned[t]>> \in dm

\* internal/storage/schema/018_agent_marketplace.sql: one row of the ledger per
\* completed task, agent and domain.
OneLedgerRow ==
  \A e, f \in ledger : <<e.task, e.agent, e.domain>> = <<f.task, f.agent, f.domain>> => e = f

=============================================================================

------------------------------- MODULE Goals -------------------------------
(***************************************************************************)
(* Goals and their task trees (internal/goals, internal/goaltasks, the MCP *)
(* tools create_goal, propose_task_tree, claim_task and complete_goal, and *)
(* the REST views of a goal).                                              *)
(*                                                                         *)
(* A call reads a row, decides, and writes with a later statement; only    *)
(* the insertion of a tree is one transaction and only the claim is one    *)
(* conditional UPDATE.  glCalls holds what a call has read, so calls       *)
(* interleave there, and any of them may stop half way.  A slug is a title *)
(* with a number (1: no suffix).  Transition and AddSpend are operations   *)
(* of the service: of the handlers only claim_task calls the first, and    *)
(* the second is left to the runners of tasks.                             *)
(***************************************************************************)
EXTENDS Naturals, Sequences, FiniteSets, FiniteSetsExt, SequencesExt

CONSTANTS
    Titles,       \* of goals
    GoalUsers,    \* owners
    Workers,      \* agents that claim tasks
    GoalCalls,    \* concurrent calls
    Codes,        \* billing codes of nodes
    DefaultCode,  \* "mcp"
    Unbilled,     \* the empty billing code
    Trees,        \* task trees that are proposed
    MaxSlug,      \* 99 in the code
    MaxRows,      \* goals and tasks together
    MaxSpend,     \* in all
    GoalMoves,    \* bound: outcomes of complete_goal that are tried
    TaskMoves     \* bound: statuses a task is moved to

\* A tree is a sequence of nodes [up, code], parents before children: the
\* position of the parent (0 at the root, which is first) and the billing code
ASSUME GoalsAssumption ==
    /\ "none" \notin Workers
    /\ MaxSlug \in Nat \ {0} /\ MaxRows \in Nat
    /\ Trees \subseteq Seq([up : Nat, code : Codes \union {Unbilled}])
    /\ \A tree \in Trees :
         /\ tree # <<>>
         /\ \A n \in 1..Len(tree) : tree[n].up < n /\ (tree[n].up = 0 <=> n = 1)

VARIABLES
    goals,        \* sequence of rows
    goalChannels, \* slugs that have a channel
    gtasks,       \* sequence of goal_tasks rows; byHand is history: Transition
                  \* made the task claimed while it had no assignee
    glCalls,      \* call -> what it does next
    stranded      \* history: titles whose creation stopped after the channel

glVars == <<goals, goalChannels, gtasks, glCalls, stranded>>

NoCall == [pc |-> "idle"]

GoalsInit ==
    /\ goals = <<>>
    /\ goalChannels = {}
    /\ gtasks = <<>>
    /\ glCalls = [c \in GoalCalls |-> NoCall]
    /\ stranded = {}

Room(n) == Len(goals) + Len(gtasks) + n <= MaxRows

Continue(c, next) == glCalls' = [glCalls EXCEPT ![c] = next]

-----------------------------------------------------------------------------
(* The status machines.                                                    *)

GoalOver == {"completed", "cancelled"}
TaskOver == {"done", "failed", "cancelled"}

legalTransition(from, to) ==
    CASE from = "draft"  -> to \in {"active", "completed", "stuck", "cancelled"}
      [] from = "active" -> to \in {"paused", "completed", "stuck", "cancelled"}
      [] from = "paused" -> to \in {"active", "completed", "stuck", "cancelled"}
      [] from = "stuck"  -> to \in {"active", "completed", "cancelled"}
      [] OTHER           -> FALSE

legalTaskTransition(from, to) ==
    \/ to = "cancelled" /\ from \notin TaskOver
    \/ from = "proposed" /\ to = "approved"
    \/ from = "approved" /\ to = "claimed"
    \/ from = "claimed" /\ to \in {"in_progress", "awaiting_verification"}
    \/ from = "in_progress" /\ to = "awaiting_verification"
    \/ from = "awaiting_verification" /\ to \in {"done", "failed"}

-----------------------------------------------------------------------------
(* Creation of a goal: a free slug, its channel, its row.                  *)

SlugExists(slug) == \E g \in 1..Len(goals) : goals[g].slug = slug

\* The first number whose slug no goal has; the last one is not looked at
FreeSlug(title) ==
    LET free == {i \in 1..MaxSlug : ~SlugExists(<<title, i>>)}
    IN <<title, IF free = {} THEN MaxSlug ELSE Min(free)>>

CreateGoal(c, title, user) ==
    /\ glCalls[c] = NoCall /\ Room(1)
    /\ Continue(c, [pc |-> "channel", slug |-> FreeSlug(title), user |-> user])
    /\ UNCHANGED <<goals, goalChannels, gtasks, stranded>>

\* create_goal: the owner of the calling agent becomes the owner
handleCreateGoal(c, title, user) == CreateGoal(c, title, user)

\* The channel goal-<slug>; a name that is taken ends the call
CreateGoalChannel(c) ==
    LET q == glCalls[c] IN
    /\ q.pc = "channel"
    /\ goalChannels' = goalChannels \union {q.slug}
    /\ Continue(c, IF q.slug \in goalChannels THEN NoCall ELSE [q EXCEPT !.pc = "insert"])
    /\ UNCHANGED <<goals, gtasks, stranded>>

InsertGoal(c) ==
    LET q == glCalls[c] IN
    /\ q.pc = "insert" /\ ~SlugExists(q.slug) /\ Room(1)
    /\ goals' = Append(goals, [slug |-> q.slug, owner |-> q.user, root |-> 0,
                               status |-> "draft"])
    /\ Continue(c, NoCall)
    /\ UNCHANGED <<goalChannels, gtasks, stranded>>

-----------------------------------------------------------------------------
(* Task trees.                                                             *)

\* The ancestors of a node, outermost first (marshalAncestry caps their size)
ancestry(tree, base) ==
    LET above[n \in 0..Len(tree)] ==
          IF n = 0 \/ tree[n].up = 0 THEN <<>>
          ELSE Append(above[tree[n].up], base + tree[n].up) IN
    above

Insert(g, tree, default, n) ==
    LET base == Len(gtasks)  line == ancestry(tree, base)[n] IN
    [goal |-> g, parent |-> IF tree[n].up = 0 THEN 0 ELSE base + tree[n].up,
     ancestry |-> line, depth |-> Len(line),
     status |-> "approved", assignee |-> "none", byHand |-> FALSE, spent |-> 0,
     code |-> IF tree[n].code = Unbilled THEN default ELSE tree[n].code]

\* One transaction
CreateTree(g, tree, default) ==
    /\ Room(Len(tree))
    /\ gtasks' = gtasks \o [n \in 1..Len(tree) |-> Insert(g, tree, default, n)]

\* propose_task_tree: the tree, then the root of the goal, then its status
handleProposeTaskTree(c, g, tree) ==
    /\ glCalls[c] = NoCall
    /\ CreateTree(g, tree, DefaultCode)
    /\ Continue(c, [pc |-> "root", goal |-> g, root |-> Len(gtasks) + 1])
    /\ UNCHANGED <<goals, goalChannels, stranded>>

SetRootTask(c) ==
    LET q == glCalls[c] IN
    /\ q.pc = "root"
    /\ goals' = [goals EXCEPT ![q.goal].root = q.root]
    /\ Continue(c, [pc |-> "activate", goal |-> q.goal])
    /\ UNCHANGED <<goalChannels, gtasks, stranded>>

-----------------------------------------------------------------------------
(* Status of a goal: read and judged, then written without a condition.    *)

TransitionStatus(c, g, to) ==
    IF legalTransition(goals[g].status, to)
    THEN Continue(c, [pc |-> "status", goal |-> g, to |-> to, ends |-> FALSE])
    ELSE Continue(c, NoCall)

\* The last statement of propose_task_tree; an illegal transition is ignored
Activate(c) ==
    /\ glCalls[c].pc = "activate"
    /\ TransitionStatus(c, glCalls[c].goal, "active")
    /\ UNCHANGED <<goals, goalChannels, gtasks, stranded>>

\* complete_goal, for agents of the goal's owner
Complete(c, g, to) ==
    /\ goals[g].status # to /\ legalTransition(goals[g].status, to)
    /\ Continue(c, [pc |-> "status", goal |-> g, to |-> to, ends |-> TRUE])
    /\ UNCHANGED <<goals, goalChannels, gtasks, stranded>>

handleCompleteGoal(c, g, user, to) ==
    /\ glCalls[c] = NoCall /\ to \in {"completed", "stuck", "cancelled"}
    /\ goals[g].owner = user
    /\ Complete(c, g, to)

\* SetCompletion also keeps the summary and the time, which nothing here reads
SetCompletion(g, to) == goals' = [goals EXCEPT ![g].status = to]
SetStatus(g, to) == goals' = [goals EXCEPT ![g].status = to]

WriteStatus(c) ==
    LET q == glCalls[c] IN
    /\ q.pc = "status"
    /\ IF q.ends THEN SetCompletion(q.goal, q.to) ELSE SetStatus(q.goal, q.to)
    /\ Continue(c, NoCall)
    /\ UNCHANGED <<goalChannels, gtasks, stranded>>

-----------------------------------------------------------------------------
(* Tasks.                                                                  *)

\* Mutant: the UPDATE loses its WHERE assignee_agent_id IS NULL.
ClaimAnyway(t, w) ==
    /\ gtasks[t].status \in {"approved", "claimed"}
    /\ gtasks' = [gtasks EXCEPT ![t].assignee = w, ![t].status = "claimed"]

ClaimAtomic(t, w) ==
    /\ gtasks[t].assignee = "none" /\ gtasks[t].status = "approved"
    /\ gtasks' = [gtasks EXCEPT ![t].assignee = w, ![t].status = "claimed"]

\* claim_task: the claim, then in_progress, whose failure is ignored
handleClaimTask(c, t, w) ==
    /\ glCalls[c] = NoCall
    /\ ClaimAtomic(t, w)
    /\ Continue(c, [pc |-> "start", task |-> t])
    /\ UNCHANGED <<goals, goalChannels, stranded>>

Judge(c, t, to) ==
    /\ Continue(c, IF legalTaskTransition(gtasks[t].status, to)
                   THEN [pc |-> "task", task |-> t, to |-> to] ELSE NoCall)
    /\ UNCHANGED <<goals, goalChannels, gtasks, stranded>>

StartClaimed(c) == glCalls[c].pc = "start" /\ Judge(c, glCalls[c].task, "in_progress")

\* The service's operation takes any status, claimed among them
Transition(c, t, to) ==
    /\ glCalls[c] = NoCall /\ legalTaskTransition(gtasks[t].status, to)
    /\ Judge(c, t, to)

\* UPDATE ... SET status WHERE id: neither the status nor the assignee is looked at
StoreTransitionStatus(c) ==
    LET q == glCalls[c] IN
    /\ q.pc = "task"
    /\ gtasks' = [gtasks EXCEPT ![q.task].status = q.to,
                                ![q.task].byHand = @ \/ (q.to = "claimed" /\ gtasks[q.task].assignee = "none")]
    /\ Continue(c, NoCall)
    /\ UNCHANGED <<goals, goalChannels, stranded>>

SpentIn(tasks) == MapThenSumSet(LAMBDA t : gtasks[t].spent, tasks)

AddSpend(t) ==
    /\ SpentIn(1..Len(gtasks)) < MaxSpend
    /\ gtasks' = [gtasks EXCEPT ![t].spent = @ + 1]
    /\ UNCHANGED <<goals, goalChannels, glCalls, stranded>>

\* A statement fails (a taken slug among them) or the process stops
GoalCallStops(c) ==
    LET q == glCalls[c] IN
    /\ q.pc # "idle"
    /\ stranded' = IF q.pc = "insert" THEN stranded \union {q.slug[1]} ELSE stranded
    /\ Continue(c, NoCall)
    /\ UNCHANGED <<goals, goalChannels, gtasks>>

GoalsNext ==
    \E c \in GoalCalls :
        \/ CreateGoalChannel(c) \/ InsertGoal(c) \/ SetRootTask(c) \/ Activate(c)
        \/ WriteStatus(c) \/ StartClaimed(c) \/ StoreTransitionStatus(c) \/ GoalCallStops(c)
        \/ \E u \in GoalUsers : \/ \E title \in Titles : handleCreateGoal(c, title, u)
                                \/ \E g \in 1..Len(goals), to \in GoalMoves :
                                      handleCompleteGoal(c, g, u, to)
        \/ \E g \in 1..Len(goals), tree \in Trees : handleProposeTaskTree(c, g, tree)
        \/ \E t \in 1..Len(gtasks) :
              \/ \E w \in Workers : handleClaimTask(c, t, w)
              \/ \E to \in TaskMoves : Transition(c, t, to)
              \/ AddSpend(t)

GoalsSpec == GoalsInit /\ [][GoalsNext]_glVars

-----------------------------------------------------------------------------
(* Views.                                                                  *)

\* Mutant: the recursive query begins with the children.
Descendants(root) == {t \in 1..Len(gtasks) : root \in Range(gtasks[t].ancestry)}

\* WITH RECURSIVE subtree: the root and whatever has it as an ancestor
Subtree(root) == {t \in 1..Len(gtasks) : t = root \/ root \in Range(gtasks[t].ancestry)}

RollupCosts(root) == [spent |-> SpentIn(Subtree(root)), count |-> Cardinality(Subtree(root))]

RollupByBillingCode(root) ==
    [k \in {gtasks[t].code : t \in Subtree(root)} |->
        SpentIn({t \in Subtree(root) : gtasks[t].code = k})]

ListByGoal(g) == {t \in 1..Len(gtasks) : gtasks[t].goal = g}

\* GET /api/goals/{id} and one line of GET /api/goals
GetGoal(g) ==
    [tasks |-> ListByGoal(g),
     rollup |-> IF goals[g].root = 0 THEN [spent |-> 0, count |-> 0] ELSE RollupCosts(goals[g].root),
     billing |-> IF goals[g].root = 0 THEN <<>> ELSE RollupByBillingCode(goals[g].root),
     agents |-> {gtasks[t].assignee : t \in ListByGoal(g)} \ {"none"}]

ListGoals == [g \in 1..Len(goals) |->
                 IF goals[g].root = 0 THEN [spent |-> 0, count |-> 0] ELSE RollupCosts(goals[g].root)]

-----------------------------------------------------------------------------
\* Rows refer to rows that exist
GoalsTypeOK ==
    /\ \A g \in 1..Len(goals) :
          /\ goals[g].status \in {"draft", "active", "paused", "stuck"} \union GoalOver
          /\ goals[g].root \in 0..Len(gtasks)
    /\ \A t \in 1..Len(gtasks) :
          /\ gtasks[t].goal \in 1..Len(goals) /\ gtasks[t].parent \in 0..(t - 1)
          /\ gtasks[t].assignee \in Workers \union {"none"}

\* CreateGoal: two calls with one title may choose one slug; the name of the
\* channel and the UNIQUE slug keep the goals apart, each with its channel
SlugsApart ==
    /\ \A g, h \in 1..Len(goals) : goals[g].slug = goals[h].slug => g = h
    /\ \A g \in 1..Len(goals) : goals[g].slug \in goalChannels

\* CreateGoal looks for a free slug among the goals but creates a channel: a
\* title can be used again unless a creation with it stopped after the channel,
\* which no later call repairs, or ran out of numbers
TitleUsable ==
    \A title \in Titles :
        \/ FreeSlug(title) \notin goalChannels
        \/ title \in stranded \/ SlugExists(<<title, MaxSlug>>)
        \/ \E c \in GoalCalls : glCalls[c].pc = "insert" /\ glCalls[c].slug = FreeSlug(title)

\* CreateTree: ancestry is that of the parent and the parent, depth its length,
\* and a tree does not leave its goal
TreesSound ==
    \A t \in 1..Len(gtasks) :
        LET r == gtasks[t] IN
        /\ r.depth = Len(r.ancestry)
        /\ IF r.parent = 0 THEN r.ancestry = <<>>
           ELSE /\ r.ancestry = Append(gtasks[r.parent].ancestry, r.parent)
                /\ gtasks[r.parent].goal = r.goal

WorkBegun == {"claimed", "in_progress", "awaiting_verification", "done", "failed"}

\* ClaimAtomic, Transition: work is under way or over with an assignee, whatever
\* stale statuses are written, unless a caller of Transition itself moved the
\* task to claimed (FR-005: "atomic single-assignee claim"; Transition sets no
\* assignee).  A task cancelled before anyone claimed it needs none
WorkHasAssignee ==
    \A t \in 1..Len(gtasks) :
        gtasks[t].status \in WorkBegun => gtasks[t].assignee # "none" \/ gtasks[t].byHand

\* The numbers a user sees of a goal: parts of the rollup add up to it, the
\* list shows the same, and the rollup covers every task of the goal as long as
\* one tree was proposed for it and its root recorded
CostsAddUp ==
    \A g \in 1..Len(goals) :
        LET v == GetGoal(g)
            roots == {t \in v.tasks : gtasks[t].parent = 0} IN
        /\ MapThenSumSet(LAMBDA k : v.billing[k], DOMAIN v.billing) = v.rollup.spent
        /\ ListGoals[g] = v.rollup
        /\ goals[g].root # 0 => goals[g].root \in roots
        /\ roots = {goals[g].root} => v.rollup.count = Cardinality(v.tasks)
                                      /\ v.rollup.spent = SpentIn(v.tasks)

GoalsSafe ==
    /\ GoalsTypeOK /\ SlugsApart /\ TitleUsable /\ TreesSound
    /\ WorkHasAssignee /\ CostsAddUp

\* A call that read the goal or task before it was over writes it afterwards
WritesGoal(g) == \E c \in GoalCalls : glCalls[c].pc = "status" /\ glCalls[c].goal = g /\ glCalls'[c] = NoCall
WritesTask(t) == \E c \in GoalCalls : glCalls[c].pc = "task" /\ glCalls[c].task = t /\ glCalls'[c] = NoCall

\* ClaimAtomic: a task is never taken from its agent.  legalTransition: a goal
\* or a task that is over is only reopened by a call that had judged it before
NothingReopened ==
    [][/\ \A t \in 1..Len(gtasks) :
             /\ gtasks[t].assignee # "none" => gtasks'[t].assignee = gtasks[t].assignee
             /\ gtasks[t].status \in TaskOver /\ ~WritesTask(t) => gtasks'[t].status = gtasks[t].status
       /\ \A g \in 1..Len(goals) :
             goals[g].status \in GoalOver /\ ~WritesGoal(g) => goals'[g].status = goals[g].status
      ]_glVars
=============================================================================

-------------------------- MODULE MemoryToolsProofs --------------------------
(***************************************************************************)
(* Proofs about DreamWorker and MemoryTools, for any owners, jobs, admins, *)
(* calls and memories.                                                     *)
(***************************************************************************)
EXTENDS MemoryTools, SequenceTheorems, FiniteSetTheorems, TLAPS

\* Rewrites of the core memory are planned, and recorded, for slot 0 only.
Items == {x \in [type : Types, slot : 0..(MaxParallel - 1)] : x.type = "core_rewrite" => x.slot = 0}

RewriteSlots ==
  /\ \A d \in Dispatchers : ctl[d].plan \in Seq(Items)
  /\ \A j \in JobIds : jobOf[j].type = "core_rewrite" => jobOf[j].slot = 0

\* The partial unique index: one job in flight per owner, type and slot.
OneInFlight ==
  \A j, k \in JobIds :
    /\ status[j] \in Flying /\ status[k] \in Flying
    /\ OwnerOf(j) = OwnerOf(k) /\ jobOf[j].type = jobOf[k].type /\ jobOf[j].slot = jobOf[k].slot
    => j = k

\* A dispatcher between two statements has its job to itself, and nothing has
\* been done to the job in between.
InHand ==
  \A d \in Dispatchers :
    /\ ctl[d].at \in {"token", "flip", "close"} => status[ctl[d].job] = "pending"
    /\ ctl[d].at = "start" => status[ctl[d].job] = "dispatched" /\ run[ctl[d].job] = "none"
    /\ ctl[d].job # NoJob => \A e \in Dispatchers \ {d} : ctl[e].job # ctl[d].job

\* The status of the row follows the goroutine of the job.
Goroutines ==
  \A j \in JobIds :
    /\ status[j] \in {"none", "pending"} => run[j] = "none"
    /\ run[j] \in {"queued", "lease"} => status[j] = "dispatched"
    /\ run[j] \in {"exec", "orphan"}  => status[j] = "running"

DreamInv == DreamTypeOK /\ RewriteSlots /\ OneInFlight /\ InHand /\ Goroutines

-----------------------------------------------------------------------------
\* What is planned for slot 0 is planned.
LEMMA PlanType == Seq(Items) \subseteq Plans
  <1> DEFINE T == [type : Types, slot : 0..(MaxParallel - 1)]
  <1>1. Items \subseteq T
    BY DEF Items
  <1> QED
    BY <1>1, SeqMonotonic DEF Plans

\* Dispatchers at rest have a type.
LEMMA RestType == Rest \in Control /\ Rest.at = "idle" /\ Rest.job = NoJob /\ Rest.plan = <<>>
  <1>1. (CHOOSE o \in Owners : TRUE) \in Owners
    BY DreamAssumption
  <1> QED
    BY <1>1 DEF Rest, Control, Labels, Plans

\* The dispatcher d is done with its job and has gone on to the next, or to rest.
PutDown(d) ==
  /\ ctl' \in [Dispatchers -> Control]
  /\ \A e \in Dispatchers \ {d} : ctl'[e] = ctl[e]
  /\ ctl'[d].job = NoJob /\ ctl'[d].plan \in Seq(Items)
  /\ ctl'[d].at \in {"idle", "gate", "create"}
  /\ ctl'[d].at = "idle" <=> ctl'[d].plan = <<>>

\* What is left of a plan of several jobs.
LEMMA TailOfPlan ==
  ASSUME NEW S, NEW p \in Seq(S), p # <<>>
  PROVE  Head(p) \in S /\ Tail(p) \in Seq(S) /\ (Len(p) # 1 => Tail(p) # <<>>)
  <1>1. Head(p) \in S /\ Tail(p) \in Seq(S) /\ Len(Tail(p)) = Len(p) - 1 /\ Len(p) \in Nat
    BY HeadTailProperties, LenProperties
  <1>2. ASSUME Len(p) # 1, Tail(p) = <<>> PROVE FALSE
    <2>1. Len(Tail(p)) = 0
      BY <1>2, EmptySeq
    <2> QED
      BY <1>1, <1>2, <2>1
  <1> QED
    BY <1>1, <1>2

\* The next job of a plan, for the worker and for a dream-run.
LEMMA NextItemPutsDown ==
  ASSUME ctl \in [Dispatchers -> Control], NEW d \in Dispatchers,
         ctl[d].plan \in Seq(Items), ctl[d].plan # <<>>, NextItem(d)
  PROVE  PutDown(d)
  <1>1. /\ Tail(ctl[d].plan) \in Seq(Items) /\ Tail(ctl[d].plan) \in Plans
        /\ Len(ctl[d].plan) # 1 => Tail(ctl[d].plan) # <<>>
    BY TailOfPlan, PlanType
  <1>2. <<>> \in Seq(Items)
    OBVIOUS
  <1>3. CASE Len(ctl[d].plan) = 1
    BY <1>2, <1>3, RestType DEF NextItem, PutDown
  <1>4. CASE Len(ctl[d].plan) # 1
    BY <1>1, <1>4 DEF NextItem, PutDown, Control, Labels
  <1> QED
    BY <1>3, <1>4

\* An error ends a dream-run and not the worker's plan.
LEMMA GiveUpPutsDown ==
  ASSUME ctl \in [Dispatchers -> Control], NEW d \in Dispatchers,
         ctl[d].plan \in Seq(Items), ctl[d].plan # <<>>, GiveUp(d)
  PROVE  PutDown(d)
  <1>1. <<>> \in Seq(Items)
    OBVIOUS
  <1> QED
    BY <1>1, NextItemPutsDown, RestType DEF GiveUp, PutDown

\* The empty tables satisfy the inductive invariant.
LEMMA InitDream == DreamInit => DreamInv
  <1> SUFFICES ASSUME DreamInit PROVE DreamInv
    OBVIOUS
  <1>0. (CHOOSE o \in Owners : TRUE) \in Owners /\ 0 \in 0..(MaxParallel - 1)
    BY DreamAssumption
  <1>1. DreamTypeOK
    BY <1>0, RestType, DreamAssumption
       DEF DreamInit, DreamTypeOK, NoRow, Types, Storable, Flying, Over, Launched, Holding
  <1>2. <<>> \in Seq(Items)
    OBVIOUS
  <1>3. RewriteSlots
    BY <1>2, RestType DEF DreamInit, RewriteSlots, NoRow
  <1>4. OneInFlight /\ InHand /\ Goroutines
    BY RestType DEF DreamInit, OneInFlight, InHand, Goroutines, Flying
  <1> QED
    BY <1>1, <1>3, <1>4 DEF DreamInv

\* What a tick plans is a plan, of slot 0 throughout.
LEMMA TickPlan ==
  ASSUME NEW items \in Seq(Types)
  PROVE  /\ [i \in DOMAIN items |-> [type |-> items[i], slot |-> 0]] \in Seq(Items)
         /\ items # <<>> => [i \in DOMAIN items |-> [type |-> items[i], slot |-> 0]] # <<>>
  <1> DEFINE plan == [i \in DOMAIN items |-> [type |-> items[i], slot |-> 0]]
  <1>1. Len(items) \in Nat /\ DOMAIN items = 1..Len(items)
    BY LenProperties
  <1>2. \A i \in 1..Len(items) : items[i] \in Types /\ [type |-> items[i], slot |-> 0] \in Items
    BY ElementOfSeq, DreamAssumption DEF Items
  <1>3. plan \in [1..Len(items) -> Items]
    BY <1>1, <1>2
  <1>4. plan \in Seq(Items)
    BY <1>1, <1>3, SeqDef
  <1>5. items # <<>> => 1 \in DOMAIN plan
    BY <1>1, EmptySeq
  <1>6. DOMAIN <<>> = {}
    BY EmptySeq, LenProperties
  <1> QED
    BY <1>4, <1>5, <1>6

\* What a dream-run plans is a plan: several slots, but one for a rewrite.
LEMMA ForcePlan ==
  ASSUME NEW t \in Types, NEW n \in 1..MaxParallel, t = "core_rewrite" => n = 1
  PROVE  /\ [i \in 1..n |-> [type |-> t, slot |-> i - 1]] \in Seq(Items)
         /\ [i \in 1..n |-> [type |-> t, slot |-> i - 1]] # <<>>
  <1> DEFINE plan == [i \in 1..n |-> [type |-> t, slot |-> i - 1]]
  <1>1. n \in Nat /\ 1 \in 1..n
    BY DreamAssumption
  <1>2. \A i \in 1..n : [type |-> t, slot |-> i - 1] \in Items
    BY DreamAssumption DEF Items
  <1>3. plan \in [1..n -> Items]
    BY <1>2
  <1>4. plan \in Seq(Items)
    BY <1>1, <1>3, SeqDef
  <1>6. DOMAIN <<>> = {}
    BY EmptySeq, LenProperties
  <1> QED
    BY <1>1, <1>4, <1>6

-----------------------------------------------------------------------------
\* A dispatcher that has no job in hand moves, or puts its job down, without
\* touching the tables.
LEMMA MovePreserves ==
  ASSUME DreamInv, NEW d \in Dispatchers, UNCHANGED <<status, jobOf, token, run, usageVars, days, restarts>>,
         ctl' \in [Dispatchers -> Control], \A e \in Dispatchers \ {d} : ctl'[e] = ctl[e],
         ctl'[d].job = NoJob, ctl'[d].plan \in Seq(Items),
         ctl'[d].at \in {"idle", "gate", "create", "broken"},
         ctl'[d].at = "idle" <=> ctl'[d].plan = <<>>
  PROVE  DreamInv'
  <1>1. DreamTypeOK'
    BY ZenonT(40) DEF DreamInv, DreamTypeOK, usageVars
  <1>2. RewriteSlots' /\ OneInFlight' /\ Goroutines'
    BY DEF DreamInv, RewriteSlots, OneInFlight, Goroutines, OwnerOf
  <1>3. InHand'
    BY DEF DreamInv, InHand
  <1> QED
    BY <1>1, <1>2, <1>3 DEF DreamInv

\* A new row: the index has let it in, so its slot was free, and its dispatcher
\* takes it in hand.
LEMMA InsertPreserves ==
  ASSUME DreamInv, NEW d \in Dispatchers, ctl[d].at \in {"create", "broken"},
         NEW s \in {Item(d).slot, 0}, NEW broken \in BOOLEAN, NEW label \in {"token", "close"},
         ~Taken(ctl[d].owner, Item(d).type, s), InsertJob(d, s, broken, label),
         UNCHANGED <<token, run, usageVars, days, restarts>>
  PROVE  DreamInv'
  <1>0. PICK j \in JobIds :
          /\ status[j] = "none"
          /\ status' = [status EXCEPT ![j] = "pending"]
          /\ jobOf'  = [jobOf EXCEPT ![j] = [owner |-> ctl[d].owner, type |-> Item(d).type,
                                             slot |-> s, broken |-> broken]]
          /\ ctl' = [ctl EXCEPT ![d].job = j, ![d].at = label]
    BY DEF InsertJob
  <1>1. ctl[d] \in Control /\ ctl[d].plan # <<>> /\ ctl[d].plan \in Seq(Items) /\ ctl[d].job = NoJob
    BY DEF DreamInv, DreamTypeOK, RewriteSlots, Control
  <1>2. Item(d) \in Items /\ s \in 0..(MaxParallel - 1) /\ Item(d).type \in Types
    BY <1>1, TailOfPlan, DreamAssumption DEF Item, Items
  <1>3. Item(d).type = "core_rewrite" => s = 0
    BY <1>2 DEF Items
  <1>4. /\ ctl' \in [Dispatchers -> Control]
        /\ \A e \in Dispatchers \ {d} : ctl'[e] = ctl[e]
        /\ ctl'[d].job = j /\ ctl'[d].at = label /\ ctl'[d].plan = ctl[d].plan
    BY <1>0, <1>1 DEF DreamInv, DreamTypeOK, Control, Labels
  <1>5. j # NoJob
    BY DreamAssumption
  <1>6. DreamTypeOK'
    BY <1>0, <1>1, <1>2, <1>4, <1>5 DEF DreamInv, DreamTypeOK, usageVars, Control, Storable, Flying
  <1>7. RewriteSlots'
    BY <1>0, <1>1, <1>3, <1>4 DEF DreamInv, DreamTypeOK, RewriteSlots
  <1>8. OneInFlight'
    BY <1>0 DEF DreamInv, DreamTypeOK, OneInFlight, OwnerOf, Taken, Flying
  <1>9. InHand'
    <2>1. \A e \in Dispatchers : ctl[e].job # NoJob => status[ctl[e].job] # "none"
      BY DEF DreamInv, DreamTypeOK, InHand
    <2>2. \A e \in Dispatchers \ {d} : ctl[e].job # j
      BY <1>0, <1>5, <2>1
    <2>3. \A e \in Dispatchers : ctl[e].job # NoJob => ctl[e].job \in JobIds
      BY DEF DreamInv, DreamTypeOK, Control
    <2> QED
      BY <1>0, <1>1, <1>4, <1>5, <2>2, <2>3 DEF DreamInv, DreamTypeOK, InHand
  <1>10. Goroutines'
    BY <1>0 DEF DreamInv, DreamTypeOK, Goroutines
  <1> QED
    BY <1>6, <1>7, <1>8, <1>9, <1>10 DEF DreamInv

\* The dispatcher d puts its job down after a write to the row of that job, to its
\* token or to its goroutine: a row that ended, or one with a goroutine queued.
LEMMA HandOverPreserves ==
  ASSUME DreamInv, NEW d \in Dispatchers, NEW j \in JobIds, ctl[d].job = j, PutDown(d),
         status[j] \in {"pending", "dispatched"}, run[j] = "none",
         \/ run' = run /\ (status' = status \/ status' = [status EXCEPT ![j] = "failed"])
         \/ status[j] = "dispatched" /\ status' = status /\ run' = [run EXCEPT ![j] = "queued"],
         started' \in [Owners -> Nat], UNCHANGED <<jobOf, token, finished, overspent, days, restarts>>
  PROVE  DreamInv'
  <1>0. /\ status' \in [JobIds -> {"none"} \cup Storable]
        /\ run' \in [JobIds -> Launched \cup {"none", "done", "lost", "orphan"}]
        /\ \A k \in JobIds \ {j} : status'[k] = status[k] /\ run'[k] = run[k]
        /\ \/ status'[j] \in {status[j], "failed"} /\ run'[j] = "none"
           \/ status'[j] = "dispatched" /\ status[j] = "dispatched" /\ run'[j] = "queued"
    <2>1. CASE run' = run /\ (status' = status \/ status' = [status EXCEPT ![j] = "failed"])
      BY <2>1 DEF DreamInv, DreamTypeOK, Storable, Over
    <2>2. CASE status[j] = "dispatched" /\ status' = status /\ run' = [run EXCEPT ![j] = "queued"]
      BY <2>2 DEF DreamInv, DreamTypeOK, Launched
    <2> QED
      BY <2>1, <2>2
  <1>1. /\ ctl' \in [Dispatchers -> Control]
        /\ \A e \in Dispatchers :
             /\ ctl'[e].at = "idle" <=> ctl'[e].plan = <<>>
             /\ ctl'[e].at \in {"token", "flip", "start", "close"} <=> ctl'[e].job # NoJob
    <2>1. ctl'[d].at \notin {"token", "flip", "start", "close"} /\ ctl'[d].job = NoJob
      BY DEF PutDown
    <2>2. ctl'[d].at = "idle" <=> ctl'[d].plan = <<>>
      BY DEF PutDown
    <2>3. ASSUME NEW e \in Dispatchers, e # d
          PROVE  /\ ctl'[e].at = "idle" <=> ctl'[e].plan = <<>>
                 /\ ctl'[e].at \in {"token", "flip", "start", "close"} <=> ctl'[e].job # NoJob
      <3>1. ctl'[e] = ctl[e]
        BY <2>3 DEF PutDown
      <3> QED
        BY <3>1 DEF DreamInv, DreamTypeOK
    <2>4. ctl' \in [Dispatchers -> Control]
      BY DEF PutDown
    <2> QED
      BY <2>1, <2>2, <2>3, <2>4
  <1>2. DreamTypeOK'
    BY <1>0, <1>1 DEF DreamInv, DreamTypeOK
  <1>3. RewriteSlots'
    BY DEF DreamInv, PutDown, RewriteSlots
  <1>4. OneInFlight'
    BY <1>0 DEF DreamInv, OneInFlight, OwnerOf, Flying
  <1>5. Goroutines'
    BY <1>0 DEF DreamInv, Goroutines
  <1>6. InHand'
    <2>1. \A e \in Dispatchers \ {d} : ctl'[e] = ctl[e] /\ ctl[e].job # j
      BY DreamAssumption DEF DreamInv, InHand, PutDown
    <2>2. \A e \in Dispatchers : ctl[e].job # NoJob => ctl[e].job \in JobIds
      BY DEF DreamInv, DreamTypeOK, Control
    <2>3. ctl'[d].job = NoJob /\ ctl'[d].at \notin {"token", "flip", "start", "close"}
      BY DEF PutDown
    <2>4. ASSUME NEW e \in Dispatchers \ {d}, ctl[e].job # NoJob
          PROVE  status'[ctl[e].job] = status[ctl[e].job] /\ run'[ctl[e].job] = run[ctl[e].job]
      BY <1>0, <2>1, <2>2, <2>4
    <2>5. \A e \in Dispatchers : ctl[e].at \in {"token", "flip", "start", "close"} <=> ctl[e].job # NoJob
      BY DEF DreamInv, DreamTypeOK
    <2> QED
      BY <2>1, <2>3, <2>4, <2>5 DEF DreamInv, InHand
  <1> QED
    BY <1>2, <1>3, <1>4, <1>5, <1>6 DEF DreamInv

\* What a job in hand is like.
LEMMA JobInHand ==
  ASSUME DreamInv, NEW d \in Dispatchers, ctl[d].at \in {"token", "flip", "close", "start"}
  PROVE  /\ ctl[d].job \in JobIds /\ run[ctl[d].job] = "none"
         /\ ctl[d].at = "start" => status[ctl[d].job] = "dispatched"
         /\ ctl[d].at # "start" => status[ctl[d].job] = "pending"
         /\ ctl \in [Dispatchers -> Control] /\ ctl[d] \in Control
         /\ ctl[d].plan \in Seq(Items) /\ ctl[d].plan # <<>>
  <1>1. ctl[d].job \in JobIds
    BY DEF DreamInv, DreamTypeOK, Control
  <1> QED
    BY <1>1 DEF DreamInv, DreamTypeOK, RewriteSlots, Control, InHand, Goroutines

\* The goroutine of a job moves on, and its row with it: the job is in nobody's hand
\* any more, since a job in hand has no goroutine yet.
LEMMA RunPreserves ==
  ASSUME DreamInv, NEW j \in JobIds, run[j] # "none",
         NEW x \in Storable \ {"pending"}, NEW r \in Launched \cup {"done"},
         status' = [status EXCEPT ![j] = x], run' = [run EXCEPT ![j] = r],
         x \in Flying => status[j] \in Flying,
         r \in {"queued", "lease"} => x = "dispatched", r = "exec" => x = "running",
         token' \in [JobIds -> {"none", "live", "old", "expired", "revoked"}],
         finished' \in [Owners -> Nat], overspent' \in [Owners -> BOOLEAN],
         UNCHANGED <<jobOf, ctl, started, days, restarts>>
  PROVE  DreamInv'
  <1>1. DreamTypeOK'
    BY DEF DreamInv, DreamTypeOK
  <1>2. RewriteSlots'
    BY DEF DreamInv, RewriteSlots
  <1>3. OneInFlight'
    BY DEF DreamInv, DreamTypeOK, OneInFlight, OwnerOf
  <1>4. Goroutines'
    BY DEF DreamInv, DreamTypeOK, Goroutines, Storable, Flying, Over, Launched, Holding
  <1>5. InHand'
    <2>1. \A d \in Dispatchers : ctl[d].at \in {"token", "flip", "start", "close"} <=> ctl[d].job # NoJob
      BY DEF DreamInv, DreamTypeOK
    <2>2. \A d \in Dispatchers : ctl[d].job # NoJob => ctl[d].job \in JobIds /\ ctl[d].job # j
      BY <2>1, JobInHand
    <2> QED
      BY <2>1, <2>2 DEF DreamInv, DreamTypeOK, InHand
  <1> QED
    BY <1>1, <1>2, <1>3, <1>4, <1>5 DEF DreamInv

-----------------------------------------------------------------------------
\* Every step of a dispatcher preserves the inductive invariant.
LEMMA DispatchPreserves ==
  ASSUME DreamInv, NEW d \in Dispatchers, DispatchStep(d)
  PROVE  DreamInv'
  <1>0. /\ ctl \in [Dispatchers -> Control] /\ ctl[d] \in Control /\ ctl[d].plan \in Seq(Items)
        /\ ctl[d].at # "idle" => ctl[d].plan # <<>>
        /\ ctl[d].at \notin {"token", "flip", "start", "close"} => ctl[d].job = NoJob
    BY DEF DreamInv, DreamTypeOK, RewriteSlots
  <1>1. CASE Gate(d)
    <2>1. PICK label \in {"create", "broken"} : ctl' = [ctl EXCEPT ![d].at = label]
      BY <1>1 DEF Gate, Goto
    <2>2. /\ ctl' \in [Dispatchers -> Control] /\ \A e \in Dispatchers \ {d} : ctl'[e] = ctl[e]
          /\ ctl'[d].job = ctl[d].job /\ ctl'[d].plan = ctl[d].plan /\ ctl'[d].at = label
      BY <1>0, <2>1 DEF Control, Labels
    <2>3. ctl[d].at = "gate" /\ UNCHANGED <<status, jobOf, token, run, usageVars, days, restarts>>
      BY <1>1 DEF Gate
    <2> QED
      BY <1>0, <2>2, <2>3, MovePreserves
  <1>2. CASE CreateOnSlot(d)
    <2>1. ctl[d].at = "create" /\ UNCHANGED <<token, run, usageVars, days, restarts>>
      BY <1>2 DEF CreateOnSlot
    <2>2. CASE Taken(ctl[d].owner, Item(d).type, Item(d).slot)
      <3>1. PutDown(d) /\ UNCHANGED <<status, jobOf>>
        BY <1>0, <1>2, <2>1, <2>2, NextItemPutsDown, GiveUpPutsDown DEF CreateOnSlot
      <3> QED
        BY <2>1, <3>1, MovePreserves DEF PutDown
    <2>3. CASE ~Taken(ctl[d].owner, Item(d).type, Item(d).slot)
      BY <1>2, <2>1, <2>3, InsertPreserves DEF CreateOnSlot
    <2> QED
      BY <2>2, <2>3
  <1>3. CASE CreateBroken(d)
    <2>1. ctl[d].at = "broken" /\ UNCHANGED <<token, run, usageVars, days, restarts>>
      BY <1>3 DEF CreateBroken
    <2>2. CASE Taken(ctl[d].owner, Item(d).type, 0)
      <3>1. PutDown(d) /\ UNCHANGED <<status, jobOf>>
        BY <1>0, <1>3, <2>1, <2>2, GiveUpPutsDown DEF CreateBroken
      <3> QED
        BY <2>1, <3>1, MovePreserves DEF PutDown
    <2>3. CASE ~Taken(ctl[d].owner, Item(d).type, 0)
      BY <1>3, <2>1, <2>3, InsertPreserves DEF CreateBroken
    <2> QED
      BY <2>2, <2>3
  <1>4. CASE CompleteBroken(d)
    <2>1. ctl[d].at = "close" /\ PutDown(d)
      BY <1>0, <1>4, GiveUpPutsDown DEF CompleteBroken
    <2>2. status' = status
      BY <1>4 DEF CompleteBroken, Complete, Storable, Flying, Over
    <2>3. UNCHANGED <<jobOf, token, run, started, finished, overspent, days, restarts>>
      BY <1>4 DEF CompleteBroken, usageVars
    <2>4. started' \in [Owners -> Nat]
      BY <2>3 DEF DreamInv, DreamTypeOK
    <2> QED
      BY <2>1, <2>2, <2>3, <2>4, JobInHand, HandOverPreserves
  <1>5. CASE Issue(d)
    <2>1. /\ ctl[d].at = "token" /\ token' = [token EXCEPT ![ctl[d].job] = "live"]
          /\ ctl' = [ctl EXCEPT ![d].at = "flip"]
          /\ UNCHANGED <<status, jobOf, run, started, finished, overspent, days, restarts>>
      BY <1>5 DEF Issue, Goto, usageVars
    <2>2. /\ ctl' \in [Dispatchers -> Control] /\ \A e \in Dispatchers \ {d} : ctl'[e] = ctl[e]
          /\ ctl'[d].job = ctl[d].job /\ ctl'[d].plan = ctl[d].plan /\ ctl'[d].at = "flip"
      BY <1>0, <2>1 DEF Control, Labels
    <2>3. DreamTypeOK'
      BY <2>1, <2>2, JobInHand, SMTT(30) DEF DreamInv, DreamTypeOK
    <2>4. RewriteSlots' /\ OneInFlight' /\ Goroutines'
      BY <2>1, <2>2 DEF DreamInv, RewriteSlots, OneInFlight, OwnerOf, Goroutines
    <2>5. InHand'
      BY <2>1, <2>2 DEF DreamInv, InHand
    <2> QED
      BY <2>3, <2>4, <2>5 DEF DreamInv
  <1>6. ASSUME NEW found \in BOOLEAN, Dispatch(d, found)
        PROVE  DreamInv'
    <2>0. /\ ctl[d].at = "flip"
          /\ UNCHANGED <<jobOf, token, run, started, finished, overspent, days, restarts>>
      BY <1>6 DEF Dispatch, usageVars
    <2>1. ctl[d].job \in JobIds /\ run[ctl[d].job] = "none" /\ status[ctl[d].job] = "pending"
      BY <2>0, JobInHand
    <2>2. CASE found
      <3>1. /\ status' = [status EXCEPT ![ctl[d].job] = "dispatched"]
            /\ ctl' = [ctl EXCEPT ![d].at = "start"]
        BY <1>6, <2>1, <2>2 DEF Dispatch, Goto
      <3>2. /\ ctl' \in [Dispatchers -> Control] /\ \A e \in Dispatchers \ {d} : ctl'[e] = ctl[e]
            /\ ctl'[d].job = ctl[d].job /\ ctl'[d].plan = ctl[d].plan /\ ctl'[d].at = "start"
        BY <1>0, <3>1 DEF Control, Labels
      <3>3. DreamTypeOK'
        BY <2>0, <2>1, <3>1, <3>2 DEF DreamInv, DreamTypeOK, Storable, Flying
      <3>4. RewriteSlots' /\ OneInFlight' /\ Goroutines'
        BY <2>0, <2>1, <3>1, <3>2
           DEF DreamInv, DreamTypeOK, RewriteSlots, OneInFlight, OwnerOf, Goroutines, Flying
      <3>5. InHand'
        <4>1. \A e \in Dispatchers \ {d} : ctl[e].job # ctl[d].job
          BY <2>1, DreamAssumption DEF DreamInv, InHand
        <4>2. \A e \in Dispatchers : ctl[e].at \in {"token", "flip", "start", "close"} => ctl[e].job \in JobIds
          BY JobInHand
        <4> QED
          BY <2>0, <2>1, <3>1, <3>2, <4>1, <4>2 DEF DreamInv, DreamTypeOK, InHand
      <3> QED
        BY <3>3, <3>4, <3>5 DEF DreamInv
    <2>3. CASE ~found
      <3>1. PutDown(d) /\ status' = [status EXCEPT ![ctl[d].job] = "failed"]
        BY <1>0, <1>6, <2>0, <2>3, GiveUpPutsDown DEF Dispatch, Complete, Storable, Over
      <3>2. started' \in [Owners -> Nat]
        BY <2>0 DEF DreamInv, DreamTypeOK
      <3> QED
        BY <2>0, <2>1, <3>1, <3>2, HandOverPreserves
    <2> QED
      BY <2>2, <2>3
  <1>7. CASE Launch(d)
    <2>1. /\ ctl[d].at = "start" /\ PutDown(d) /\ run' = [run EXCEPT ![ctl[d].job] = "queued"]
          /\ UNCHANGED <<status, jobOf, token, finished, overspent, days, restarts>>
      BY <1>0, <1>7, NextItemPutsDown DEF Launch
    <2>2. started' \in [Owners -> Nat]
      BY <1>0, <1>7 DEF Launch, DreamInv, DreamTypeOK, Control
    <2> QED
      BY <2>1, <2>2, JobInHand, HandOverPreserves
  <1> QED
    BY <1>1, <1>2, <1>3, <1>4, <1>5, <1>6, <1>7 DEF DispatchStep

\* Every step of the goroutine of a job preserves the inductive invariant.
LEMMA GoroutinePreserves ==
  ASSUME DreamInv, NEW j \in JobIds, RunStep(j)
  PROVE  DreamInv'
  <1>0. /\ status \in [JobIds -> {"none"} \cup Storable] /\ token \in [JobIds -> {"none", "live", "old", "expired", "revoked"}]
        /\ run[j] # "none" => status[j] \in Storable \ {"pending"}
        /\ finished \in [Owners -> Nat] /\ overspent \in [Owners -> BOOLEAN] /\ OwnerOf(j) \in Owners
        /\ run[j] = "queued" \/ run[j] = "lease" => status[j] = "dispatched"
        /\ run[j] = "exec" => status[j] = "running"
    BY DEF DreamInv, DreamTypeOK, Goroutines, OwnerOf
  <1>1. CASE Acquire(j)
    <2>1. /\ run[j] = "queued" /\ run' = [run EXCEPT ![j] = "lease"]
          /\ UNCHANGED <<status, jobOf, token, ctl, started, finished, overspent, days, restarts>>
      BY <1>1 DEF Acquire, Resume, usageVars
    <2>2. status' = [status EXCEPT ![j] = status[j]] /\ "lease" \in Launched
      BY <1>0, <2>1 DEF Launched, Holding
    <2> QED
      BY <1>0, <2>1, <2>2, RunPreserves DEF Flying
  <1>2. CASE Lease(j)
    <2>1. /\ run[j] = "lease" /\ run' = [run EXCEPT ![j] = "exec"]
          /\ UNCHANGED <<jobOf, token, ctl, started, finished, overspent, days, restarts>>
      BY <1>2 DEF Lease, Resume, usageVars
    <2>2. /\ status' = [status EXCEPT ![j] = "running"] /\ "exec" \in Launched
          /\ "running" \in Storable \ {"pending"} /\ status[j] \in Flying
      BY <1>0, <1>2, <2>1 DEF Lease, Launched, Holding, Storable, Flying
    <2> QED
      BY <1>0, <2>1, <2>2, RunPreserves
  <1>3. ASSUME NEW s \in Over, CompleteJob(j, s)
        PROVE  DreamInv'
    <2>1. /\ run[j] = "exec" /\ run' = [run EXCEPT ![j] = "revoke"]
          /\ UNCHANGED <<jobOf, token, ctl, started, finished, overspent, days, restarts>>
      BY <1>3 DEF CompleteJob, Resume, usageVars
    <2>2. /\ status' = [status EXCEPT ![j] = s] /\ "revoke" \in Launched
          /\ s \in Storable \ {"pending"} /\ s \notin Flying
      BY <1>0, <1>3 DEF CompleteJob, Complete, Launched, Holding, Storable, Flying, Over
    <2> QED
      BY <1>0, <2>1, <2>2, RunPreserves
  <1>4. CASE Revoke(j)
    <2>1. /\ run[j] = "revoke" /\ run' = [run EXCEPT ![j] = "account"]
          /\ token' = [token EXCEPT ![j] = "revoked"]
          /\ UNCHANGED <<status, jobOf, ctl, started, finished, overspent, days, restarts>>
      BY <1>4 DEF Revoke, Resume, usageVars
    <2>2. /\ status' = [status EXCEPT ![j] = status[j]] /\ "account" \in Launched
          /\ token' \in [JobIds -> {"none", "live", "old", "expired", "revoked"}]
      BY <1>0, <2>1 DEF Launched, Holding
    <2> QED
      BY <1>0, <2>1, <2>2, RunPreserves
  <1>5. ASSUME NEW spent \in {FALSE, TokenLimits}, RecordCompletion(j, spent)
        PROVE  DreamInv'
    <2>1. /\ run[j] = "account" /\ run' = [run EXCEPT ![j] = "done"]
          /\ UNCHANGED <<status, jobOf, token, ctl, started, days, restarts>>
      BY <1>5 DEF RecordCompletion, Resume
    <2>2. finished' \in [Owners -> Nat] /\ overspent' \in [Owners -> BOOLEAN]
      BY <1>0, <1>5 DEF RecordCompletion
    <2>3. status' = [status EXCEPT ![j] = status[j]]
      BY <1>0, <2>1
    <2> QED
      BY <1>0, <2>1, <2>2, <2>3, RunPreserves
  <1> QED
    BY <1>1, <1>2, <1>3, <1>4, <1>5 DEF RunStep

\* The inductive step.
LEMMA StepDream == DreamInv /\ [DreamNext]_dreamVars => DreamInv'
  <1> SUFFICES ASSUME DreamInv, [DreamNext]_dreamVars PROVE DreamInv'
    OBVIOUS
  <1>1. ASSUME NEW o \in Owners, NEW full \in BOOLEAN, NEW deep \in BOOLEAN, Tick(o, full, deep)
        PROVE  DreamInv'
    <2> DEFINE items == (IF full THEN WatermarkTypes ELSE <<>>) \o (IF deep THEN Wanted("core_rewrite") ELSE <<>>)
               plan == [i \in DOMAIN items |-> [type |-> items[i], slot |-> 0]]
    <2>1. items \in Seq(Types)
      <3>1. \A t \in Types : Wanted(t) \in Seq(Types)
        BY DEF Wanted
      <3>2. /\ "reflection" \in Types /\ "link_gen" \in Types /\ "dedup_contradiction" \in Types
            /\ "core_rewrite" \in Types
        BY DEF Types
      <3>3. WatermarkTypes \in Seq(Types)
        BY <3>1, <3>2, ConcatProperties DEF WatermarkTypes
      <3> QED
        BY <3>1, <3>2, <3>3, ConcatProperties, EmptySeq
    <2>2. /\ items # <<>> /\ Worker \in Dispatchers
          /\ ctl' = [ctl EXCEPT ![Worker] = [at |-> "gate", owner |-> o, job |-> NoJob, plan |-> plan]]
          /\ UNCHANGED <<status, jobOf, token, run, usageVars, days, restarts>>
      BY <1>1 DEF Tick, Dispatchers
    <2>3. plan \in Seq(Items) /\ plan # <<>> /\ plan \in Plans
      BY <2>1, <2>2, TickPlan, PlanType
    <2> HIDE DEF plan, items
    <2>4. /\ ctl' \in [Dispatchers -> Control] /\ \A e \in Dispatchers \ {Worker} : ctl'[e] = ctl[e]
          /\ ctl'[Worker] = [at |-> "gate", owner |-> o, job |-> NoJob, plan |-> plan]
      BY <2>2, <2>3 DEF DreamInv, DreamTypeOK, Control, Labels
    <2> QED
      BY <2>2, <2>3, <2>4, MovePreserves
  <1>2. ASSUME NEW d \in Admins, NEW o \in Owners, NEW t \in JobTypes, NEW n \in 1..MaxParallel,
               ForceRunN(d, o, t, n)
        PROVE  DreamInv'
    <2> DEFINE parallel == IF t = "core_rewrite" THEN 1 ELSE n
               plan == [i \in 1..parallel |-> [type |-> t, slot |-> i - 1]]
    <2>1. /\ d \in Dispatchers
          /\ ctl' = [ctl EXCEPT ![d] = [at |-> "gate", owner |-> o, job |-> NoJob, plan |-> plan]]
          /\ UNCHANGED <<status, jobOf, token, run, usageVars, days, restarts>>
      BY <1>2 DEF ForceRunN, Dispatchers
    <2>2. t \in Types /\ parallel \in 1..MaxParallel
      BY DreamAssumption
    <2>3. plan \in Seq(Items) /\ plan # <<>> /\ plan \in Plans
      BY <2>2, ForcePlan, PlanType
    <2> HIDE DEF plan, parallel
    <2>4. /\ ctl' \in [Dispatchers -> Control] /\ \A e \in Dispatchers \ {d} : ctl'[e] = ctl[e]
          /\ ctl'[d] = [at |-> "gate", owner |-> o, job |-> NoJob, plan |-> plan]
      BY <2>1, <2>3 DEF DreamInv, DreamTypeOK, Control, Labels
    <2> QED
      BY <2>1, <2>3, <2>4, MovePreserves
  <1>3. ASSUME NEW j \in JobIds, RunsLong(j) \/ TokenExpires(j)
        PROVE  DreamInv'
    <2>1. /\ token' \in [JobIds -> {"none", "live", "old", "expired", "revoked"}]
          /\ UNCHANGED <<status, jobOf, run, ctl, usageVars, days, restarts>>
      BY <1>3, ZenonT(40) DEF RunsLong, TokenExpires, DreamInv, DreamTypeOK
    <2> QED
      BY <2>1 DEF DreamInv, DreamTypeOK, RewriteSlots, OneInFlight, InHand, Goroutines, OwnerOf, usageVars
  <1>4. CASE Midnight
    BY <1>4, DreamAssumption
       DEF Midnight, DreamInv, DreamTypeOK, RewriteSlots, OneInFlight, InHand, Goroutines, OwnerOf
  <1>5. CASE Restart
    <2>1. /\ ctl' = [d \in Dispatchers |-> Rest] /\ restarts' \in 0..MaxRestarts
          /\ run' = [j \in JobIds |-> IF run[j] = "exec" THEN "orphan"
                                      ELSE IF run[j] \in Launched THEN "lost" ELSE run[j]]
          /\ UNCHANGED <<status, jobOf, token, started, finished, overspent, days>>
      BY <1>5, DreamAssumption DEF Restart, usageVars, DreamInv, DreamTypeOK
    <2>2. <<>> \in Seq(Items)
      OBVIOUS
    <2>3. DreamTypeOK'
      BY <2>1, RestType DEF DreamInv, DreamTypeOK
    <2>4. RewriteSlots' /\ OneInFlight' /\ InHand'
      BY <2>1, <2>2, RestType DEF DreamInv, RewriteSlots, OneInFlight, InHand, OwnerOf
    <2>5. Goroutines'
      BY <2>1 DEF DreamInv, DreamTypeOK, Goroutines, Launched, Holding
    <2> QED
      BY <2>3, <2>4, <2>5 DEF DreamInv
  <1>6. CASE UNCHANGED dreamVars
    BY <1>6 DEF dreamVars, usageVars, DreamInv, DreamTypeOK, RewriteSlots, OneInFlight, InHand, Goroutines, OwnerOf
  <1> QED
    BY <1>1, <1>2, <1>3, <1>4, <1>5, <1>6, DispatchPreserves, GoroutinePreserves DEF DreamNext, Working

\* The inductive invariant of the dream worker.
LEMMA DreamInvariance == DreamSpec => []DreamInv
  BY InitDream, StepDream, PTL DEF DreamSpec

\* Rows, tokens, goroutines and dispatchers of the dream worker keep their types.
THEOREM DreamTypes == DreamSpec => []DreamTypeOK
  <1>1. DreamInv => DreamTypeOK
    BY DEF DreamInv
  <1> QED
    BY <1>1, DreamInvariance, PTL

\* Never two dream agents on the core memory of one owner: the unique index keeps
\* two rewrites apart because all of them use slot 0, and a row stays in flight as
\* long as its goroutine, or an agent that outlived the server, is at work.
THEOREM SingleRewrite == DreamSpec => []OneRewrite
  <1>1. DreamInv => OneRewrite
    BY DEF DreamInv, RewriteSlots, OneInFlight, Goroutines, OneRewrite, Flying
  <1> QED
    BY <1>1, DreamInvariance, PTL

-----------------------------------------------------------------------------
\* What a step may do to a row: move it forward, and nothing to what it says
\* about owner, type and slot.
RowMoves(j) ==
  /\ status[j] # status'[j] =>
       \/ status[j] = "none"       /\ status'[j] = "pending"
       \/ status[j] = "pending"    /\ status'[j] \in {"dispatched", "failed"}
       \/ status[j] = "dispatched" /\ status'[j] = "running"
       \/ status[j] = "running"    /\ status'[j] \in Over
  /\ status[j] # "none" => jobOf'[j] = jobOf[j]

\* No step of the dispatchers and goroutines does anything else to a row.
LEMMA RowsMove ==
  ASSUME DreamInv, [DreamNext]_dreamVars, NEW j \in JobIds
  PROVE  RowMoves(j)
  <1>0. status \in [JobIds -> {"none"} \cup Storable] /\ jobOf = [k \in JobIds |-> jobOf[k]]
    BY DEF DreamInv, DreamTypeOK
  <1>1. ASSUME NEW d \in Dispatchers, DispatchStep(d)
        PROVE  RowMoves(j)
    <2>1. ASSUME NEW s, NEW broken, NEW label, InsertJob(d, s, broken, label)
          PROVE  RowMoves(j)
      BY <1>0, <2>1 DEF InsertJob, RowMoves
    <2>2. CASE CreateOnSlot(d)
      BY <2>1, <2>2 DEF CreateOnSlot, RowMoves
    <2>3. CASE CreateBroken(d)
      BY <2>1, <2>3 DEF CreateBroken, RowMoves
    <2>4. ASSUME NEW found \in BOOLEAN, Dispatch(d, found)
          PROVE  RowMoves(j)
      <3>1. ctl[d].job \in JobIds /\ status[ctl[d].job] = "pending"
        BY <2>4, JobInHand DEF Dispatch
      <3> QED
        BY <1>0, <2>4, <3>1 DEF Dispatch, Complete, RowMoves, Storable, Over
    <2>5. CASE Gate(d) \/ CompleteBroken(d) \/ Issue(d) \/ Launch(d)
      BY <2>5 DEF Gate, CompleteBroken, Issue, Launch, Complete, Storable, Flying, Over, RowMoves
    <2> QED
      BY <1>1, <2>2, <2>3, <2>4, <2>5 DEF DispatchStep
  <1>2. ASSUME NEW k \in JobIds, RunStep(k)
        PROVE  RowMoves(j)
    <2>1. run[k] \in {"queued", "lease"} => status[k] = "dispatched"
      BY DEF DreamInv, Goroutines
    <2>2. run[k] = "exec" => status[k] = "running"
      BY DEF DreamInv, Goroutines
    <2>3. CASE Lease(k)
      BY <1>0, <2>1, <2>3 DEF Lease, RowMoves
    <2>4. ASSUME NEW s \in Over, CompleteJob(k, s)
          PROVE  RowMoves(j)
      BY <1>0, <2>2, <2>4 DEF CompleteJob, Complete, RowMoves
    <2>5. CASE Acquire(k) \/ Revoke(k) \/ \E spent \in {FALSE, TokenLimits} : RecordCompletion(k, spent)
      BY <2>5 DEF Acquire, Revoke, RecordCompletion, RowMoves
    <2> QED
      BY <1>2, <2>3, <2>4, <2>5 DEF RunStep
  <1>3. CASE \/ \E o \in Owners, full \in BOOLEAN, deep \in BOOLEAN : Tick(o, full, deep)
             \/ \E d \in Admins, o \in Owners, t \in JobTypes, n \in 1..MaxParallel : ForceRunN(d, o, t, n)
             \/ \E k \in JobIds : RunsLong(k) \/ TokenExpires(k)
             \/ Midnight \/ Restart \/ UNCHANGED dreamVars
    <2>1. UNCHANGED <<status, jobOf>>
      BY <1>3 DEF Tick, ForceRunN, RunsLong, TokenExpires, Midnight, Restart, dreamVars
    <2> QED
      BY <2>1 DEF RowMoves
  <1> QED
    BY <1>1, <1>2, <1>3 DEF DreamNext, Working

\* The UPDATEs of dispatchers and goroutines, none of which looks at the outcome
\* a row already has, never meet in the wrong order.
THEOREM RowsOnlyForward == DreamSpec => JobLifecycle
  <1>1. DreamInv /\ [DreamNext]_dreamVars =>
          [\A j \in JobIds : status[j] # status'[j] =>
             \/ status[j] = "none"       /\ status'[j] = "pending"
             \/ status[j] = "pending"    /\ status'[j] \in {"dispatched", "failed"}
             \/ status[j] = "dispatched" /\ status'[j] = "running"
             \/ status[j] = "running"    /\ status'[j] \in Over]_dreamVars
    BY RowsMove DEF RowMoves
  <1> QED
    BY <1>1, DreamInvariance, PTL DEF DreamSpec, JobLifecycle

-----------------------------------------------------------------------------
\* The job in a dispatcher's hand is one of the owner it works for.
OwnJob == \A d \in Dispatchers : ctl[d].job # NoJob => OwnerOf(ctl[d].job) = ctl[d].owner

\* The goroutines of o's jobs that are alive.
Alive == [o \in Owners |-> {j \in JobIds : run[j] \in Launched /\ OwnerOf(j) = o}]

\* A dispatcher never takes a job of another owner in hand.
LEMMA StepOwnJob == DreamInv /\ OwnJob /\ [DreamNext]_dreamVars => OwnJob'
  <1> SUFFICES ASSUME DreamInv, OwnJob, [DreamNext]_dreamVars PROVE OwnJob'
    OBVIOUS
  <1>0. /\ ctl \in [Dispatchers -> Control]
        /\ \A e \in Dispatchers : ctl[e].job # NoJob => ctl[e].job \in JobIds /\ status[ctl[e].job] # "none"
    BY JobInHand DEF DreamInv, DreamTypeOK
  <1>1. \A e \in Dispatchers : ctl[e].job # NoJob => jobOf'[ctl[e].job].owner = ctl[e].owner
    BY <1>0, RowsMove DEF OwnJob, OwnerOf, RowMoves
  <1>2. ASSUME NEW d \in Dispatchers, DispatchStep(d)
        PROVE  OwnJob'
    <2>0. ctl[d].plan \in Seq(Items) /\ (ctl[d].at # "idle" => ctl[d].plan # <<>>)
      BY DEF DreamInv, DreamTypeOK, RewriteSlots
    <2>1. CASE PutDown(d)
      BY <1>1, <2>1 DEF OwnJob, OwnerOf, PutDown
    <2>2. ASSUME NEW label, Goto(d, label) PROVE OwnJob'
      BY <1>0, <1>1, <2>2 DEF OwnJob, OwnerOf, Goto, Control
    <2>3. ASSUME NEW s, NEW broken, NEW label, InsertJob(d, s, broken, label) PROVE OwnJob'
      <3>1. PICK j \in JobIds :
              /\ jobOf'  = [jobOf EXCEPT ![j] = [owner |-> ctl[d].owner, type |-> Item(d).type,
                                                 slot |-> s, broken |-> broken]]
              /\ ctl' = [ctl EXCEPT ![d].job = j, ![d].at = label]
        BY <2>3 DEF InsertJob
      <3>2. /\ \A e \in Dispatchers \ {d} : ctl'[e] = ctl[e]
            /\ ctl'[d].job = j /\ ctl'[d].owner = ctl[d].owner
        BY <1>0, <3>1 DEF Control
      <3>3. jobOf'[j].owner = ctl[d].owner
        BY <3>1 DEF DreamInv, DreamTypeOK
      <3> QED
        BY <1>1, <3>2, <3>3 DEF OwnJob, OwnerOf
    <2>4. CASE NextItem(d) \/ GiveUp(d)
      <3>1. ctl[d].at # "idle"
        BY <1>2 DEF DispatchStep, Gate, CreateOnSlot, CreateBroken, CompleteBroken, Issue, Dispatch, Launch
      <3> QED
        BY <1>0, <2>0, <2>1, <2>4, <3>1, NextItemPutsDown, GiveUpPutsDown
    <2>5. CASE Gate(d) \/ Issue(d)
      BY <2>2, <2>5 DEF Gate, Issue
    <2>6. CASE CreateOnSlot(d)
      BY <2>3, <2>4, <2>6 DEF CreateOnSlot
    <2>7. CASE CreateBroken(d)
      BY <2>3, <2>4, <2>7 DEF CreateBroken
    <2>8. CASE CompleteBroken(d) \/ Launch(d)
      BY <2>4, <2>8 DEF CompleteBroken, Launch
    <2>9. ASSUME NEW found \in BOOLEAN, Dispatch(d, found)
          PROVE  OwnJob'
      <3>1. Goto(d, "start") \/ GiveUp(d)
        BY <2>9 DEF Dispatch
      <3> QED
        BY <2>2, <2>4, <3>1
    <2> QED
      BY <1>2, <2>5, <2>6, <2>7, <2>8, <2>9 DEF DispatchStep
  <1>3. ASSUME NEW d \in Dispatchers, NEW r, r.job = NoJob, ctl' = [ctl EXCEPT ![d] = r]
        PROVE  OwnJob'
    BY <1>0, <1>1, <1>3 DEF OwnJob, OwnerOf
  <1>4. CASE \E o \in Owners, full \in BOOLEAN, deep \in BOOLEAN : Tick(o, full, deep)
    BY <1>3, <1>4 DEF Tick, Dispatchers
  <1>5. CASE \E d \in Admins, o \in Owners, t \in JobTypes, n \in 1..MaxParallel : ForceRunN(d, o, t, n)
    BY <1>3, <1>5 DEF ForceRunN, Dispatchers
  <1>6. CASE Restart
    BY <1>6, RestType DEF Restart, OwnJob
  <1>7. CASE ctl' = ctl
    BY <1>1, <1>7 DEF OwnJob, OwnerOf
  <1>8. CASE (\E j \in JobIds : RunStep(j) \/ RunsLong(j) \/ TokenExpires(j)) \/ Midnight \/ UNCHANGED dreamVars
    BY <1>7, <1>8 DEF RunStep, Acquire, Lease, CompleteJob, Revoke, RecordCompletion, RunsLong, TokenExpires,
       Midnight, dreamVars
  <1> QED
    BY <1>2, <1>4, <1>5, <1>6, <1>8 DEF DreamNext, Working

\* A step that neither starts nor ends a goroutine.
Counted == started' = started /\ finished' = finished /\ Alive' = Alive

\* What a step does to the counters and the goroutines of the day: nothing, or
\* it starts one and counts a start, or it ends one and counts an end.
Accounting ==
  \/ Counted
  \/ \E j \in JobIds, o \in Owners :
       /\ j \notin Alive[o] /\ Alive' = [Alive EXCEPT ![o] = @ \cup {j}]
       /\ started' = [started EXCEPT ![o] = @ + 1] /\ finished' = finished
  \/ \E j \in JobIds, o \in Owners :
       /\ j \in Alive[o] /\ Alive' = [Alive EXCEPT ![o] = @ \ {j}]
       /\ finished' = [finished EXCEPT ![o] = @ + 1] /\ started' = started

\* Launch counts the start of the goroutine it starts, for the owner whose job it
\* is; RecordCompletion counts the end of the one that ends.
LEMMA StepAccounting ==
  ASSUME DreamInv, OwnJob, [DreamNext]_dreamVars, days' = days, restarts' = restarts
  PROVE  Accounting
  <1>0. /\ \A j \in JobIds : status[j] # "none" => jobOf'[j] = jobOf[j]
        /\ \A j \in JobIds : run[j] # "none" => status[j] # "none"
        /\ run \in [JobIds -> Launched \cup {"none", "done", "lost", "orphan"}]
        /\ jobOf \in [JobIds -> [owner : Owners, type : Types, slot : 0..(MaxParallel - 1), broken : BOOLEAN]]
    BY RowsMove DEF RowMoves, DreamInv, DreamTypeOK, Goroutines
  <1>1. \A j \in JobIds : run[j] \in Launched => jobOf'[j].owner = jobOf[j].owner
    BY <1>0 DEF Launched, Holding
  <1>2. ASSUME \A j \in JobIds : run'[j] \in Launched <=> run[j] \in Launched
        PROVE  Alive' = Alive
    BY <1>1, <1>2 DEF Alive, OwnerOf
  <1>3. ASSUME NEW d \in Dispatchers, Launch(d)
        PROVE  Accounting
    <2>1. /\ ctl[d].job \in JobIds /\ run[ctl[d].job] = "none"
          /\ jobOf' = jobOf /\ jobOf[ctl[d].job].owner = ctl[d].owner /\ ctl[d].owner \in Owners
          /\ run' = [run EXCEPT ![ctl[d].job] = "queued"]
      BY <1>0, <1>3, JobInHand DEF Launch, OwnJob, OwnerOf, DreamInv, DreamTypeOK, Control, InHand
    <2>2. ctl[d].job \notin Alive[ctl[d].owner]
      BY <2>1 DEF Alive, Launched, Holding
    <2>3. Alive' = [Alive EXCEPT ![ctl[d].owner] = @ \cup {ctl[d].job}]
      <3>1. \A j \in JobIds : run'[j] \in Launched <=> run[j] \in Launched \/ j = ctl[d].job
        BY <1>0, <2>1 DEF Launched, Holding
      <3>2. \A o \in Owners : {j \in JobIds : run'[j] \in Launched /\ jobOf[j].owner = o} =
              IF o = ctl[d].owner THEN Alive[o] \cup {ctl[d].job} ELSE Alive[o]
        <4> TAKE o \in Owners
        <4>1. Alive[o] = {j \in JobIds : run[j] \in Launched /\ jobOf[j].owner = o}
          BY DEF Alive, OwnerOf
        <4> QED
          BY <2>1, <3>1, <4>1
      <3>3. Alive' = [o \in Owners |-> {j \in JobIds : run'[j] \in Launched /\ jobOf[j].owner = o}]
        BY <2>1 DEF Alive, OwnerOf
      <3>4. Alive = [o \in Owners |-> Alive[o]]
        BY DEF Alive
      <3> QED
        BY <2>1, <3>2, <3>3, <3>4
    <2> QED
      BY <1>3, <2>1, <2>2, <2>3 DEF Launch, Accounting
  <1>4. ASSUME NEW j \in JobIds, NEW spent \in {FALSE, TokenLimits}, RecordCompletion(j, spent)
        PROVE  Accounting
    <2>1. /\ run[j] = "account" /\ run' = [run EXCEPT ![j] = "done"] /\ jobOf' = jobOf
          /\ jobOf[j].owner \in Owners
      BY <1>0, <1>4 DEF RecordCompletion, Resume
    <2>2. j \in Alive[OwnerOf(j)]
      BY <2>1 DEF Alive, Launched, Holding, OwnerOf
    <2>3. Alive' = [Alive EXCEPT ![OwnerOf(j)] = @ \ {j}]
      BY <1>0, <2>1 DEF Alive, Launched, Holding, OwnerOf
    <2> QED
      BY <1>4, <2>1, <2>2, <2>3 DEF RecordCompletion, Accounting, OwnerOf
  <1>5. ASSUME started' = started, finished' = finished, run' = run
        PROVE  Accounting
    BY <1>2, <1>5 DEF Accounting, Counted
  <1>6. ASSUME NEW j \in JobIds, Acquire(j) \/ Lease(j) \/ Revoke(j) \/ \E s \in Over : CompleteJob(j, s)
        PROVE  Accounting
    <2>1. started' = started /\ finished' = finished
      BY <1>6 DEF Acquire, Lease, Revoke, CompleteJob, usageVars
    <2>2. /\ run[j] \in Launched
          /\ \E label \in Launched : run' = [run EXCEPT ![j] = label]
      BY <1>6 DEF Acquire, Lease, Revoke, CompleteJob, Resume, Launched, Holding
    <2> QED
      BY <1>0, <1>2, <2>1, <2>2 DEF Accounting, Counted
  <1>7. ASSUME NEW d \in Dispatchers, DispatchStep(d), ~Launch(d)
        PROVE  Accounting
    BY <1>5, <1>7 DEF DispatchStep, Gate, CreateOnSlot, CreateBroken, CompleteBroken, Issue, Dispatch, usageVars
  <1>8. CASE \/ \E o \in Owners, full \in BOOLEAN, deep \in BOOLEAN : Tick(o, full, deep)
             \/ \E d \in Admins, o \in Owners, t \in JobTypes, n \in 1..MaxParallel : ForceRunN(d, o, t, n)
             \/ \E j \in JobIds : RunsLong(j) \/ TokenExpires(j)
             \/ UNCHANGED dreamVars
    BY <1>5, <1>8 DEF Tick, ForceRunN, RunsLong, TokenExpires, dreamVars, usageVars
  <1>9. ~Midnight /\ ~Restart
    BY DEF Midnight, Restart, DreamInv, DreamTypeOK
  <1> QED
    BY <1>3, <1>4, <1>6, <1>7, <1>8, <1>9 DEF DreamNext, Working, RunStep

\* The counters agree with the goroutines.
Books ==
  days = 0 /\ restarts = 0 => \A o \in Owners : started[o] = finished[o] + Cardinality(Alive[o])

LEMMA StepBooks == DreamInv /\ OwnJob /\ Books /\ [DreamNext]_dreamVars => Books'
  <1> SUFFICES ASSUME DreamInv, OwnJob, Books, [DreamNext]_dreamVars, days' = 0, restarts' = 0,
                      NEW o \in Owners
               PROVE  started'[o] = finished'[o] + Cardinality(Alive'[o])
    BY DEF Books
  <1>1. /\ days \in Nat /\ restarts \in Nat
        /\ days' \in {days, days + 1} /\ restarts' \in {restarts, restarts + 1}
    <2>1. days \in Nat /\ restarts \in Nat
      BY DEF DreamInv, DreamTypeOK
    <2>2. ASSUME NEW d \in Dispatchers, DispatchStep(d) PROVE UNCHANGED <<days, restarts>>
      BY <2>2 DEF DispatchStep, Gate, CreateOnSlot, CreateBroken, CompleteBroken, Issue, Dispatch, Launch
    <2>3. ASSUME NEW j \in JobIds, RunStep(j) \/ RunsLong(j) \/ TokenExpires(j) PROVE UNCHANGED <<days, restarts>>
      BY <2>3 DEF RunStep, Acquire, Lease, Revoke, CompleteJob, RecordCompletion, RunsLong, TokenExpires
    <2>4. CASE \/ \E q \in Owners, full \in BOOLEAN, deep \in BOOLEAN : Tick(q, full, deep)
               \/ \E d \in Admins, q \in Owners, t \in JobTypes, n \in 1..MaxParallel : ForceRunN(d, q, t, n)
               \/ UNCHANGED dreamVars
      BY <2>1, <2>4 DEF Tick, ForceRunN, dreamVars
    <2>5. CASE Midnight \/ Restart
      BY <2>1, <2>5 DEF Midnight, Restart
    <2> QED
      BY <2>1, <2>2, <2>3, <2>4, <2>5 DEF DreamNext, Working
  <1>2. days = 0 /\ restarts = 0
    BY <1>1
  <1>3. started[o] = finished[o] + Cardinality(Alive[o]) /\ Accounting
    BY <1>2, StepAccounting DEF Books
  <1>4. /\ started \in [Owners -> Nat] /\ finished \in [Owners -> Nat]
        /\ Alive[o] \subseteq JobIds /\ DOMAIN Alive = Owners
    BY DEF DreamInv, DreamTypeOK, Alive
  <1>5. IsFiniteSet(Alive[o])
    BY <1>4, FS_Subset, DreamAssumption
  <1>6. Cardinality(Alive[o]) \in Nat
    BY <1>5, FS_CardinalityType
  <1>7. CASE Counted
    BY <1>3, <1>7 DEF Counted
  <1>8. ASSUME NEW j \in JobIds, NEW p \in Owners,
               j \notin Alive[p], Alive' = [Alive EXCEPT ![p] = @ \cup {j}],
               started' = [started EXCEPT ![p] = @ + 1], finished' = finished
        PROVE  started'[o] = finished'[o] + Cardinality(Alive'[o])
    <2>1. CASE p = o
      <3>1. Cardinality(Alive[o] \cup {j}) = Cardinality(Alive[o]) + 1
        BY <1>5, <1>8, <2>1, FS_AddElement
      <3>2. Alive'[o] = Alive[o] \cup {j} /\ started'[o] = started[o] + 1 /\ finished'[o] = finished[o]
        BY <1>4, <1>8, <2>1
      <3> QED
        BY <1>3, <1>4, <1>6, <3>1, <3>2
    <2>2. CASE p # o
      BY <1>3, <1>4, <1>8, <2>2
    <2> QED
      BY <2>1, <2>2
  <1>9. ASSUME NEW j \in JobIds, NEW p \in Owners,
               j \in Alive[p], Alive' = [Alive EXCEPT ![p] = @ \ {j}],
               finished' = [finished EXCEPT ![p] = @ + 1], started' = started
        PROVE  started'[o] = finished'[o] + Cardinality(Alive'[o])
    <2>1. CASE p = o
      <3>1. Cardinality(Alive[o] \ {j}) = Cardinality(Alive[o]) - 1
        BY <1>5, <1>9, <2>1, FS_RemoveElement
      <3>2. Alive'[o] = Alive[o] \ {j} /\ finished'[o] = finished[o] + 1 /\ started'[o] = started[o]
        BY <1>4, <1>9, <2>1
      <3> QED
        BY <1>3, <1>4, <1>6, <3>1, <3>2
    <2>2. CASE p # o
      BY <1>3, <1>4, <1>9, <2>2
    <2> QED
      BY <2>1, <2>2
  <1> QED
    BY <1>3, <1>7, <1>8, <1>9 DEF Accounting

\* While the server stays up on one day, every job the usage row counts as
\* started is counted as ended or has its goroutine still alive.
THEOREM StartsAccounted == DreamSpec => []UsageAccounted
  <1>1. DreamInit => OwnJob /\ Books
    <2> SUFFICES ASSUME DreamInit PROVE OwnJob /\ Books
      OBVIOUS
    <2>1. OwnJob
      BY RestType DEF DreamInit, OwnJob, Rest
    <2>2. \A o \in Owners : Alive[o] = {}
      BY DEF DreamInit, Alive, Launched, Holding
    <2> QED
      BY <2>1, <2>2, FS_EmptySet DEF DreamInit, Books
  <1>2. Books => UsageAccounted
    BY DEF Books, UsageAccounted, Alive
  <1> QED
    BY <1>1, <1>2, StepOwnJob, StepBooks, DreamInvariance, PTL DEF DreamSpec

-----------------------------------------------------------------------------
(* The memory tools.  Their steps are stutterings of the dream worker.         *)

\* Checks change nothing but the call.
LEMMA ToolCallWrites ==
  ASSUME NEW c \in Calls, ToolCall(c)
  PROVE  call[c] = Idle /\ UNCHANGED <<dreamVars, links, actions, made, core>>
  <1>1. ASSUME NEW j, NEW tool, NEW label, NEW src, NEW dst, NEW rel, Accept(c, j, tool, label, src, dst, rel)
        PROVE  call[c] = Idle /\ UNCHANGED <<dreamVars, links, actions, made, core>>
    BY <1>1 DEF Accept
  <1>2. PICK j \in JobIds, o \in Owners :
          \/ \E m, n \in Memories : MarkDuplicate(c, j, o, m, n) \/ Supersede(c, j, o, m, n)
          \/ \E m, n \in Memories, rel \in RelTypes : AddLink(c, j, o, m, n, rel)
          \/ \E m \in Memories : WriteReflection(c, j, o, m)
          \/ RewriteCore(c, j, o) \/ ListUnprocessed(c, j, o)
    BY DEF ToolCall
  <1>3. CASE \E m, n \in Memories : MarkDuplicate(c, j, o, m, n)
    BY <1>1, <1>3 DEF MarkDuplicate
  <1>4. CASE \E m, n \in Memories : Supersede(c, j, o, m, n)
    BY <1>1, <1>4 DEF Supersede
  <1>5. CASE \E m, n \in Memories, rel \in RelTypes : AddLink(c, j, o, m, n, rel)
    BY <1>1, <1>5 DEF AddLink
  <1>6. CASE \E m \in Memories : WriteReflection(c, j, o, m)
    BY <1>1, <1>6 DEF WriteReflection
  <1>7. CASE RewriteCore(c, j, o) \/ ListUnprocessed(c, j, o)
    BY <1>1, <1>7 DEF RewriteCore, ListUnprocessed
  <1> QED
    BY <1>2, <1>3, <1>4, <1>5, <1>6, <1>7

LEMMA NextIsDream == [Next]_vars => [DreamNext]_dreamVars
  <1> SUFFICES ASSUME [Next]_vars PROVE [DreamNext]_dreamVars
    OBVIOUS
  <1>1. CASE (Working /\ UNCHANGED memVars) \/ RestartAll
    BY <1>1 DEF DreamNext, RestartAll
  <1>2. ASSUME NEW c \in Calls, ToolCall(c)
        PROVE  UNCHANGED dreamVars
    BY <1>2, ToolCallWrites
  <1>3. ASSUME NEW c \in Calls, CallStep(c)
        PROVE  UNCHANGED dreamVars
    BY <1>3 DEF CallStep, PostReflection, InsertLink, SetCore, AppendAction
  <1>4. CASE (\E o \in Editors, by \in {Human, NoBlob} : OwnerEdits(o, by)) \/ UNCHANGED vars
    BY <1>4 DEF OwnerEdits, vars
  <1> QED
    BY <1>1, <1>2, <1>3, <1>4 DEF Next

\* With the memory tools, and agents that use their tokens as they like, the dream
\* worker is the same machine: what is proved of it holds for the composition.
THEOREM ToolsKeepWorker == Spec => DreamSpec
  BY NextIsDream, PTL DEF Spec, DreamSpec, Init

Messages == Memories \cup Reflections \cup {NoMessage}
Records  == [tool : Tools, keep : Memories \cup {NoMessage}, target : Messages]
Link     == [src : Memories \cup Reflections, dst : Memories, rel : Semantic \cup Consolidation]
Busy     == [at : {"post", "link", "blob", "append"}, job : JobIds, tool : Tools, src : Messages,
             dst : Memories \cup {NoMessage}, rel : Semantic \cup Consolidation \cup {"none"}]

Tables ==
  /\ call \in [Calls -> {Idle} \cup Busy]
  /\ actions \in [JobIds -> Seq(Records)]
  /\ links \subseteq Link
  /\ made \subseteq Reflections
  /\ core \in [Owners -> JobIds \cup {Human, NoBlob}]

\* The memory is one of the owner's.
Owned(m, o) == m \in Memories => Author[m] = o

\* What the checks of a tool have established about the call x.
Checked(x) ==
  /\ status[x.job] # "none"
  /\ Owned(x.src, OwnerOf(x.job)) /\ Owned(x.dst, OwnerOf(x.job))
  /\ x.at \in {"post", "link"} => x.dst \in Memories /\ x.rel # "none"
                                  /\ x.tool \notin {"memory_list_unprocessed", "memory_rewrite_core"}
  /\ x.at = "blob" => x.tool = "memory_rewrite_core"
  /\ x.src = NoMessage <=> x.tool \in {"memory_list_unprocessed", "memory_rewrite_core"} \/ x.at = "post"
  /\ x.at \in {"post", "link"} /\ x.rel = "duplicate_of"  => x.tool = "memory_mark_duplicate"
  /\ x.at \in {"post", "link"} /\ x.rel = "superseded_by" => x.tool = "memory_supersede"

CallsChecked == \A c \in Calls : call[c] # Idle => Checked(call[c])

\* Entries are in the log of a job that exists and are about its owner's memories.
LogsOwned ==
  \A j \in JobIds : \A i \in DOMAIN actions[j] :
    status[j] # "none" /\ Owned(actions[j][i].target, OwnerOf(j))

LinksOwned == \A l \in links : l.src \in Memories => Author[l.src] = Author[l.dst]

MemInv == DreamInv /\ Tables /\ CallsChecked /\ LogsOwned /\ LinksOwned

\* The checks of each tool establish what the rest of the call relies on.
LEMMA AcceptChecked ==
  ASSUME MemInv, NEW c \in Calls, ToolCall(c)
  PROVE  /\ call[c] = Idle /\ UNCHANGED <<dreamVars, links, actions, made, core>>
         /\ \E x \in Busy : call' = [call EXCEPT ![c] = x] /\ Checked(x) /\ x.at # "idle"
  <1> DEFINE New(j, tool, label, src, dst, rel) ==
        [at |-> label, job |-> j, tool |-> tool, src |-> src, dst |-> dst, rel |-> rel]
  <1>0. Memories \cap Reflections = {} /\ NoMessage \notin Memories
    BY MemoryAssumption
  <1>1. ASSUME NEW j \in JobIds, HasToken(j)
        PROVE  status[j] # "none"
    BY <1>1 DEF HasToken, MemInv, DreamInv, Goroutines
  <1>2. ASSUME NEW j \in JobIds, NEW o \in Owners, NEW m \in Memories, NEW n \in Memories,
               MarkDuplicate(c, j, o, m, n)
        PROVE  \E x \in Busy : call' = [call EXCEPT ![c] = x] /\ Checked(x) /\ x.at # "idle"
    <2> DEFINE x == New(j, "memory_mark_duplicate", "link", m, n, "duplicate_of")
    <2>1. call' = [call EXCEPT ![c] = x] /\ HasToken(j) /\ OwnerOf(j) = o /\ Author[m] = o /\ Author[n] = o
      BY <1>2 DEF MarkDuplicate, Authorized, Belong, Accept
    <2>2. x \in Busy
      BY DEF Busy, Tools, Messages, Consolidation
    <2>3. Checked(x)
      BY <1>0, <1>1, <2>1 DEF Checked, Owned
    <2> QED
      BY <2>1, <2>2, <2>3
  <1>3. ASSUME NEW j \in JobIds, NEW o \in Owners, NEW m \in Memories, NEW n \in Memories,
               Supersede(c, j, o, m, n)
        PROVE  \E x \in Busy : call' = [call EXCEPT ![c] = x] /\ Checked(x) /\ x.at # "idle"
    <2> DEFINE x == New(j, "memory_supersede", "link", m, n, "superseded_by")
    <2>1. call' = [call EXCEPT ![c] = x] /\ HasToken(j) /\ OwnerOf(j) = o /\ Author[m] = o /\ Author[n] = o
      BY <1>3 DEF Supersede, Authorized, Belong, Accept
    <2>2. x \in Busy
      BY DEF Busy, Tools, Messages, Consolidation
    <2>3. Checked(x)
      BY <1>0, <1>1, <2>1 DEF Checked, Owned
    <2> QED
      BY <2>1, <2>2, <2>3
  <1>4. ASSUME NEW j \in JobIds, NEW o \in Owners, NEW m \in Memories, NEW n \in Memories,
               NEW rel \in RelTypes, AddLink(c, j, o, m, n, rel)
        PROVE  \E x \in Busy : call' = [call EXCEPT ![c] = x] /\ Checked(x) /\ x.at # "idle"
    <2> DEFINE x == New(j, "memory_add_link", "link", m, n, rel)
    <2>1. /\ call' = [call EXCEPT ![c] = x] /\ HasToken(j) /\ OwnerOf(j) = o /\ Author[m] = o /\ Author[n] = o
          /\ rel \in Semantic
      BY <1>4 DEF AddLink, Authorized, Belong, Accept
    <2>2. x \in Busy
      BY <2>1 DEF Busy, Tools, Messages, Semantic
    <2>3. Checked(x)
      BY <1>0, <1>1, <2>1 DEF Checked, Owned, Semantic
    <2> QED
      BY <2>1, <2>2, <2>3
  <1>5. ASSUME NEW j \in JobIds, NEW o \in Owners, NEW m \in Memories, WriteReflection(c, j, o, m)
        PROVE  \E x \in Busy : call' = [call EXCEPT ![c] = x] /\ Checked(x) /\ x.at # "idle"
    <2> DEFINE x == New(j, "memory_write_reflection", "post", NoMessage, m, "refines")
    <2>1. call' = [call EXCEPT ![c] = x] /\ HasToken(j) /\ OwnerOf(j) = o /\ Author[m] = o
      BY <1>5 DEF WriteReflection, Authorized, Belong, Accept
    <2>2. x \in Busy
      BY DEF Busy, Tools, Messages, Semantic
    <2>3. Checked(x)
      BY <1>0, <1>1, <2>1 DEF Checked, Owned
    <2> QED
      BY <2>1, <2>2, <2>3
  <1>6. ASSUME NEW j \in JobIds, NEW o \in Owners, RewriteCore(c, j, o)
        PROVE  \E x \in Busy : call' = [call EXCEPT ![c] = x] /\ Checked(x) /\ x.at # "idle"
    <2> DEFINE x == New(j, "memory_rewrite_core", "blob", NoMessage, NoMessage, "none")
    <2>1. call' = [call EXCEPT ![c] = x] /\ HasToken(j)
      BY <1>6 DEF RewriteCore, Accept
    <2>2. x \in Busy
      BY DEF Busy, Tools, Messages
    <2>3. Checked(x)
      BY <1>0, <1>1, <2>1 DEF Checked, Owned
    <2> QED
      BY <2>1, <2>2, <2>3
  <1>7. ASSUME NEW j \in JobIds, NEW o \in Owners, ListUnprocessed(c, j, o)
        PROVE  \E x \in Busy : call' = [call EXCEPT ![c] = x] /\ Checked(x) /\ x.at # "idle"
    <2> DEFINE x == New(j, "memory_list_unprocessed", "append", NoMessage, NoMessage, "none")
    <2>1. call' = [call EXCEPT ![c] = x] /\ HasToken(j)
      BY <1>7 DEF ListUnprocessed, Accept
    <2>2. x \in Busy
      BY DEF Busy, Tools, Messages
    <2>3. Checked(x)
      BY <1>0, <1>1, <2>1 DEF Checked, Owned
    <2> QED
      BY <2>1, <2>2, <2>3
  <1>8. call[c] = Idle /\ UNCHANGED <<dreamVars, links, actions, made, core>>
    BY ToolCallWrites
  <1> QED
    BY <1>2, <1>3, <1>4, <1>5, <1>6, <1>7, <1>8 DEF ToolCall

\* A row that exists stays, and stays its owner's.
LEMMA RowsStay ==
  ASSUME DreamInv, [Next]_vars
  PROVE  /\ \A j \in JobIds : status[j] # "none" => status'[j] # "none" /\ jobOf'[j] = jobOf[j]
         /\ \A j \in JobIds : status[j] \in Over => status'[j] = status[j]
  <1>1. \A j \in JobIds : RowMoves(j)
    BY RowsMove, NextIsDream
  <1> QED
    BY <1>1 DEF RowMoves, Over

\* What was checked of a call stays true while the call is served.
LEMMA StepChecked ==
  ASSUME MemInv, [Next]_vars
  PROVE  /\ call' \in [Calls -> {Idle} \cup Busy]
         /\ CallsChecked'
  <1>0. call \in [Calls -> {Idle} \cup Busy]
    BY DEF MemInv, Tables
  <1>1. /\ \A j \in JobIds : status[j] # "none" => status'[j] # "none" /\ jobOf'[j] = jobOf[j]
    BY RowsStay DEF MemInv
  <1>2. ASSUME NEW x \in Busy, Checked(x)
        PROVE  Checked(x)'
    <2>1. x.job \in JobIds
      BY DEF Busy
    <2> QED
      BY <1>1, <1>2, <2>1 DEF Checked, OwnerOf, Owned
  <1>3. ASSUME NEW c \in Calls, NEW x \in Busy, Checked(x)', call' = [call EXCEPT ![c] = x]
        PROVE  call' \in [Calls -> {Idle} \cup Busy] /\ CallsChecked'
    <2>1. call' \in [Calls -> {Idle} \cup Busy]
      BY <1>0, <1>3
    <2>2. ASSUME NEW k \in Calls, call'[k] # Idle PROVE Checked(call[k])'
      <3>1. CASE k = c
        BY <1>0, <1>3, <3>1 DEF Checked, OwnerOf, Owned
      <3>2. CASE k # c
        <4>1. call'[k] = call[k] /\ call[k] \in Busy /\ Checked(call[k])
          BY <1>0, <1>3, <2>2, <3>2 DEF MemInv, CallsChecked
        <4>2. call[k].job \in JobIds
          BY <4>1 DEF Busy
        <4> QED
          BY <1>1, <4>1, <4>2 DEF Checked, OwnerOf, Owned
      <3> QED
        BY <3>1, <3>2
    <2> QED
      BY <2>1, <2>2 DEF CallsChecked
  <1>4. ASSUME \A k \in Calls : call'[k] = call[k] \/ call'[k] = Idle,
               call' \in [Calls -> {Idle} \cup Busy]
        PROVE  call' \in [Calls -> {Idle} \cup Busy] /\ CallsChecked'
    <2>1. ASSUME NEW k \in Calls, call'[k] # Idle PROVE Checked(call[k])'
      <3>1. call'[k] = call[k] /\ call[k] \in Busy /\ Checked(call[k])
        BY <1>0, <1>4, <2>1 DEF MemInv, CallsChecked
      <3>2. call[k].job \in JobIds
        BY <3>1 DEF Busy
      <3> QED
        BY <1>1, <3>1, <3>2 DEF Checked, OwnerOf, Owned
    <2> QED
      BY <1>4, <2>1 DEF CallsChecked
  <1>5. ASSUME NEW c \in Calls, ToolCall(c)
        PROVE  call' \in [Calls -> {Idle} \cup Busy] /\ CallsChecked'
    BY <1>2, <1>3, <1>5, AcceptChecked
  <1>6. ASSUME NEW c \in Calls, NEW r \in Reflections, PostReflection(c, r)
        PROVE  call' \in [Calls -> {Idle} \cup Busy] /\ CallsChecked'
    <2> DEFINE x == [call[c] EXCEPT !.at = "link", !.src = r]
    <2>1. call[c].at = "post" /\ call' = [call EXCEPT ![c] = x] /\ UNCHANGED dreamVars
      BY <1>0, <1>6 DEF PostReflection
    <2>2. call[c] \in Busy /\ Checked(call[c])
      BY <1>0, <2>1 DEF Idle, MemInv, CallsChecked
    <2>3. x \in Busy
      BY <2>2 DEF Busy, Messages
    <2>4. r # NoMessage /\ r \notin Memories
      BY MemoryAssumption
    <2>5. Checked(x)
      BY <2>1, <2>2, <2>4 DEF Checked, Owned, Busy
    <2> QED
      BY <1>2, <1>3, <2>1, <2>3, <2>5
  <1>7. ASSUME NEW c \in Calls, call[c].at \in {"link", "blob"}, Serve(c, "append")
        PROVE  call' \in [Calls -> {Idle} \cup Busy] /\ CallsChecked'
    <2> DEFINE x == [call[c] EXCEPT !.at = "append"]
    <2>1. call' = [call EXCEPT ![c] = x]
      BY <1>0, <1>7 DEF Serve
    <2>2. call[c] \in Busy /\ Checked(call[c])
      BY <1>0, <1>7 DEF Idle, MemInv, CallsChecked
    <2>3. x \in Busy
      BY <2>2 DEF Busy
    <2>4. Checked(x)
      BY <1>7, <2>2 DEF Checked, Owned, Busy
    <2> QED
      BY <1>2, <1>3, <2>1, <2>3, <2>4
  <1>8. ASSUME NEW c \in Calls, call' = [call EXCEPT ![c] = Idle]
        PROVE  call' \in [Calls -> {Idle} \cup Busy] /\ CallsChecked'
    BY <1>0, <1>4, <1>8
  <1>9. CASE call' = call
    BY <1>0, <1>4, <1>9
  <1>10. CASE RestartAll
    BY <1>4, <1>10 DEF RestartAll
  <1>11. ASSUME NEW c \in Calls, CallStep(c)
         PROVE  call' \in [Calls -> {Idle} \cup Busy] /\ CallsChecked'
    <2>1. CASE InsertLink(c)
      BY <1>7, <1>8, <2>1 DEF InsertLink
    <2>2. CASE SetCore(c)
      BY <1>7, <2>2 DEF SetCore
    <2>3. CASE AppendAction(c)
      BY <1>8, <2>3 DEF AppendAction
    <2> QED
      BY <1>6, <1>11, <2>1, <2>2, <2>3 DEF CallStep
  <1>12. CASE (Working /\ UNCHANGED memVars) \/ UNCHANGED vars
              \/ \E o \in Editors, by \in {Human, NoBlob} : OwnerEdits(o, by)
    BY <1>9, <1>12 DEF OwnerEdits, memVars, vars
  <1> QED
    BY <1>5, <1>10, <1>11, <1>12 DEF Next

\* The audit entry of a call is about a memory of the owner of its job.
LEMMA EntryOwned ==
  ASSUME MemInv, NEW c \in Calls, call[c].at = "append"
  PROVE  /\ call[c] \in Busy /\ call[c].job \in JobIds /\ status[call[c].job] # "none"
         /\ Entry(c) \in Records /\ Owned(Entry(c).target, OwnerOf(call[c].job))
         /\ Entry(c).tool = call[c].tool
         /\ call[c].tool # "memory_add_link" => Entry(c).target = call[c].src
  <1>1. call[c] \in Busy /\ Checked(call[c])
    BY DEF MemInv, Tables, CallsChecked, Idle
  <1>2. CASE call[c].tool = "memory_add_link"
    BY <1>1, <1>2 DEF Checked, Busy, Records, Entry, Messages
  <1>3. CASE call[c].tool # "memory_add_link"
    BY <1>1, <1>3 DEF Checked, Busy, Records, Entry, Messages
  <1> QED
    BY <1>1, <1>2, <1>3 DEF Checked, Busy

\* AppendAction extends one log by the entry and leaves the rest as it was.
LEMMA AppendKeeps ==
  ASSUME MemInv, NEW c \in Calls, AppendAction(c)
  PROVE  /\ actions' \in [JobIds -> Seq(Records)]
         /\ \A j \in JobIds : j # call[c].job => actions'[j] = actions[j]
         /\ LET j == call[c].job n == Len(actions[j]) + 1 IN
              /\ DOMAIN actions[j] = 1..Len(actions[j]) /\ Len(actions[j]) \in Nat
              /\ DOMAIN actions'[j] = 1..n /\ actions'[j][n] = Entry(c)
              /\ \A i \in DOMAIN actions[j] : i \in DOMAIN actions'[j] /\ actions'[j][i] = actions[j][i]
  <1>1. actions \in [JobIds -> Seq(Records)] /\ call[c].job \in JobIds /\ Entry(c) \in Records
    BY EntryOwned DEF AppendAction, MemInv, Tables
  <1>2. actions' = [actions EXCEPT ![call[c].job] = Append(actions[call[c].job], Entry(c))]
    BY DEF AppendAction
  <1>3. actions[call[c].job] \in Seq(Records)
    BY <1>1
  <1> HIDE DEF Records
  <1> QED
    BY <1>1, <1>2, <1>3

LEMMA StepTables ==
  ASSUME MemInv, [Next]_vars
  PROVE  /\ actions' \in [JobIds -> Seq(Records)]
         /\ links' \subseteq Link
         /\ made' \subseteq Reflections
         /\ core' \in [Owners -> JobIds \cup {Human, NoBlob}]
         /\ LogsOwned' /\ LinksOwned'
  <1> DEFINE Goal == /\ actions' \in [JobIds -> Seq(Records)]
                     /\ links' \subseteq Link
                     /\ made' \subseteq Reflections
                     /\ core' \in [Owners -> JobIds \cup {Human, NoBlob}]
                     /\ LogsOwned' /\ LinksOwned'
  <1>0. /\ actions \in [JobIds -> Seq(Records)]
        /\ links \subseteq Link /\ made \subseteq Reflections
        /\ core \in [Owners -> JobIds \cup {Human, NoBlob}]
        /\ call \in [Calls -> {Idle} \cup Busy]
    BY DEF MemInv, Tables
  <1>1. \A j \in JobIds : status[j] # "none" => status'[j] # "none" /\ jobOf'[j] = jobOf[j]
    BY RowsStay DEF MemInv
  <1>2. ASSUME actions' = actions PROVE LogsOwned'
    BY <1>1, <1>2 DEF MemInv, LogsOwned, OwnerOf, Owned
  <1>3. ASSUME links' = links PROVE LinksOwned'
    BY <1>3 DEF MemInv, LinksOwned
  <1>4. ASSUME NEW c \in Calls, InsertLink(c)
        PROVE  Goal
    <2> DEFINE new == [src |-> call[c].src, dst |-> call[c].dst, rel |-> call[c].rel]
    <2>1. UNCHANGED <<actions, made, core>> /\ (links' = links \/ links' = links \cup {new})
      BY <1>4 DEF InsertLink
    <2>2. call[c].at = "link" /\ call[c] \in Busy /\ Checked(call[c])
      BY <1>0, <1>4 DEF InsertLink, Idle, MemInv, CallsChecked
    <2>3. new \in Link
      BY <2>2 DEF Checked, Busy, Link, Messages
    <2>4. new.src \in Memories => Author[new.src] = Author[new.dst]
      BY <2>2 DEF Checked, Owned
    <2>5. LinksOwned' /\ links' \subseteq Link
      BY <1>0, <2>1, <2>3, <2>4 DEF LinksOwned, MemInv
    <2> QED
      BY <1>0, <1>2, <2>1, <2>5
  <1>5. ASSUME NEW c \in Calls, SetCore(c)
        PROVE  Goal
    <2>1. call[c] \in Busy
      BY <1>0, <1>5 DEF SetCore, Idle
    <2>2. call[c].job \in JobIds
      BY <2>1 DEF Busy
    <2> QED
      BY <1>0, <1>2, <1>3, <1>5, <2>2 DEF SetCore
  <1>6. ASSUME NEW c \in Calls, AppendAction(c)
        PROVE  Goal
    <2> DEFINE j == call[c].job
    <2>1. /\ actions' \in [JobIds -> Seq(Records)]
          /\ \A k \in JobIds : k # j => actions'[k] = actions[k]
          /\ DOMAIN actions[j] = 1..Len(actions[j]) /\ Len(actions[j]) \in Nat
          /\ DOMAIN actions'[j] = 1..(Len(actions[j]) + 1) /\ actions'[j][Len(actions[j]) + 1] = Entry(c)
          /\ \A i \in DOMAIN actions[j] : actions'[j][i] = actions[j][i]
      BY <1>6, AppendKeeps
    <2>2. /\ j \in JobIds /\ status[j] # "none" /\ Owned(Entry(c).target, OwnerOf(j))
      BY <1>6, EntryOwned DEF AppendAction
    <2>3. ASSUME NEW k \in JobIds, NEW i \in DOMAIN actions'[k]
          PROVE  status[k] # "none" /\ Owned(actions'[k][i].target, OwnerOf(k))
      <3>1. CASE i \in DOMAIN actions[k] /\ actions'[k][i] = actions[k][i]
        BY <3>1 DEF MemInv, LogsOwned
      <3>2. CASE k = j /\ i = Len(actions[j]) + 1
        BY <2>1, <2>2, <3>2
      <3>3. CASE k # j
        BY <2>1, <2>3, <3>1, <3>3
      <3>4. CASE k = j
        <4>1. i \in 1..(Len(actions[j]) + 1)
          BY <2>1, <2>3, <3>4
        <4>2. i \in 1..Len(actions[j]) \/ i = Len(actions[j]) + 1
          BY <2>1, <4>1
        <4> QED
          BY <2>1, <3>1, <3>2, <3>4, <4>2
      <3> QED
        BY <3>3, <3>4
    <2>4. LogsOwned'
      BY <1>1, <2>3 DEF LogsOwned, OwnerOf, Owned
    <2> QED
      BY <1>0, <1>3, <1>6, <2>1, <2>4 DEF AppendAction
  <1>7. ASSUME NEW c \in Calls, ToolCall(c)
        PROVE  Goal
    BY <1>0, <1>2, <1>3, <1>7, ToolCallWrites
  <1>8. ASSUME NEW c \in Calls, NEW r \in Reflections, PostReflection(c, r)
        PROVE  Goal
    BY <1>0, <1>2, <1>3, <1>8 DEF PostReflection
  <1>9. CASE \E o \in Editors, by \in {Human, NoBlob} : OwnerEdits(o, by)
    BY <1>0, <1>2, <1>3, <1>9, MemoryAssumption DEF OwnerEdits
  <1>10. CASE (Working /\ UNCHANGED memVars) \/ RestartAll \/ UNCHANGED vars
    BY <1>0, <1>2, <1>3, <1>10 DEF RestartAll, memVars, vars
  <1> QED
    BY <1>4, <1>5, <1>6, <1>7, <1>8, <1>9, <1>10 DEF Next, CallStep

LEMMA MemInvariance == Spec => []MemInv
  <1>1. Init => MemInv
    <2> SUFFICES ASSUME Init PROVE MemInv
      OBVIOUS
    <2>1. DreamInv
      BY InitDream DEF Init
    <2>2. Tables /\ CallsChecked /\ LogsOwned /\ LinksOwned
      BY DEF Init, MemInit, Tables, CallsChecked, LogsOwned, LinksOwned
    <2> QED
      BY <2>1, <2>2 DEF MemInv
  <1>2. MemInv /\ [Next]_vars => MemInv'
    <2> SUFFICES ASSUME MemInv, [Next]_vars PROVE MemInv'
      OBVIOUS
    <2>1. DreamInv'
      BY StepDream, NextIsDream DEF MemInv
    <2> QED
      BY <2>1, StepChecked, StepTables DEF MemInv, Tables
  <1> QED
    BY <1>1, <1>2, PTL DEF Spec

\* Tables and calls keep their types, dream worker included.
THEOREM MemoryTypes == Spec => []TypeOK
  <1>1. MemInv => TypeOK
    <2> SUFFICES ASSUME MemInv PROVE TypeOK
      OBVIOUS
    <2>1. ASSUME NEW c \in Calls, call[c] # Idle PROVE call[c] \in Busy /\ Checked(call[c])
      BY <2>1 DEF MemInv, Tables, CallsChecked
    <2>2. \A c \in Calls : call[c] # Idle =>
            /\ call[c].at \in {"post", "link", "blob", "append"}
            /\ call[c].job \in JobIds /\ call[c].tool \in Tools
            /\ call[c].src = NoMessage <=> \/ call[c].tool \in {"memory_list_unprocessed", "memory_rewrite_core"}
                                          \/ call[c].at = "post"
      BY <2>1 DEF Busy, Checked
    <2> QED
      BY <2>2 DEF TypeOK, MemInv, DreamInv, Tables, Link, Records, Messages
  <1> QED
    BY <1>1, MemInvariance, PTL

\* No entry of an owner's audit log and no link touches another owner's memory:
\* what the checks found of a call is still so when its writes are made.
THEOREM AuditOwned == Spec => []AuditWithinOwner
  <1>1. MemInv => AuditWithinOwner
    BY DEF MemInv, LogsOwned, LinksOwned, AuditWithinOwner, Owned
  <1> QED
    BY <1>1, MemInvariance, PTL

-----------------------------------------------------------------------------
\* Every entry of every log is still there after a step, at its place.
LEMMA EntriesStay ==
  ASSUME MemInv, [Next]_vars, NEW j \in JobIds, NEW i \in DOMAIN actions[j]
  PROVE  i \in DOMAIN actions'[j] /\ actions'[j][i] = actions[j][i]
  <1>1. ASSUME NEW c \in Calls, AppendAction(c)
        PROVE  i \in DOMAIN actions'[j] /\ actions'[j][i] = actions[j][i]
    BY <1>1, AppendKeeps
  <1>2. ASSUME NEW c \in Calls, ToolCall(c) \/ (\E r \in Reflections : PostReflection(c, r)) \/ InsertLink(c) \/ SetCore(c)
        PROVE  actions' = actions
    BY <1>2, ToolCallWrites DEF PostReflection, InsertLink, SetCore
  <1>3. CASE (Working /\ UNCHANGED memVars) \/ RestartAll \/ UNCHANGED vars
             \/ \E o \in Editors, by \in {Human, NoBlob} : OwnerEdits(o, by)
    BY <1>3 DEF RestartAll, OwnerEdits, memVars, vars
  <1> QED
    BY <1>1, <1>2, <1>3 DEF Next, CallStep

\* A memory that is excluded from retrieval is never active again: logs only grow
\* and a job keeps the outcome that made its entries count.
THEOREM NoResurrection == Spec => ExcludedStays
  <1>1. ASSUME MemInv, [Next]_vars
        PROVE  Excluded \subseteq Excluded'
    <2>1. EffectiveActions \subseteq EffectiveActions'
      <3> SUFFICES ASSUME NEW j \in JobIds, status[j] \in {"succeeded", "partial"}, NEW i \in DOMAIN actions[j]
                   PROVE  actions[j][i] \in EffectiveActions'
        BY DEF EffectiveActions
      <3>1. status'[j] = status[j]
        BY <1>1, RowsStay DEF MemInv, Over
      <3>2. i \in DOMAIN actions'[j] /\ actions'[j][i] = actions[j][i]
        BY <1>1, EntriesStay
      <3>3. actions'[j][i] \in {actions'[j][n] : n \in DOMAIN actions'[j]}
        BY <3>2
      <3>4. j \in {k \in JobIds : status'[k] \in {"succeeded", "partial"}}
        BY <3>1
      <3> QED
        BY <3>2, <3>3, <3>4 DEF EffectiveActions
    <2>2. Excluded = {m \in Memories : \E e \in EffectiveActions :
                        \/ e.tool = "memory_supersede" /\ e.target = m
                        \/ e.tool = "memory_mark_duplicate" /\ e.target = m /\ e.keep # m}
      BY DEF Excluded, Status
    <2>3. Excluded' = {m \in Memories : \E e \in EffectiveActions' :
                        \/ e.tool = "memory_supersede" /\ e.target = m
                        \/ e.tool = "memory_mark_duplicate" /\ e.target = m /\ e.keep # m}
      BY DEF Excluded, Status
    <2> QED
      BY <2>1, <2>2, <2>3
  <1> QED
    BY <1>1, MemInvariance, PTL DEF Spec, ExcludedStays

-----------------------------------------------------------------------------
\* The call c has made its write for job j and owes the entry (tool, src).
Owes(c, j, tool, src) ==
  call[c].at = "append" /\ call[c].job = j /\ call[c].tool = tool /\ call[c].src = src

\* What Audited says of a call, field by field.
LEMMA AuditedMeans ==
  ASSUME MemInv, NEW j \in JobIds, NEW tool \in Tools, NEW src \in Messages
  PROVE  Audited(j, tool, src) <=>
           \/ \E i \in DOMAIN actions[j] : actions[j][i].tool = tool /\ actions[j][i].target = src
           \/ \E c \in Calls : Owes(c, j, tool, src)
  <1>1. ASSUME NEW c \in Calls
        PROVE  (call[c] # Idle /\ call[c] = [call[c] EXCEPT !.at = "append", !.job = j, !.tool = tool, !.src = src])
               <=> Owes(c, j, tool, src)
    <2>1. CASE call[c] = Idle
      BY <2>1 DEF Idle, Owes
    <2>2. CASE call[c] \in Busy /\ call[c] # Idle
      BY <2>2 DEF Busy, Owes
    <2> QED
      BY <2>1, <2>2 DEF MemInv, Tables
  <1> QED
    BY <1>1 DEF Audited

\* An entry that is written or owed is about a job that exists.
LEMMA AuditedExists ==
  ASSUME MemInv, NEW j \in JobIds, NEW tool \in Tools, NEW src \in Messages, Audited(j, tool, src)
  PROVE  status[j] # "none"
  <1>1. ASSUME NEW c \in Calls, Owes(c, j, tool, src) PROVE status[j] # "none"
    BY <1>1, EntryOwned DEF Owes
  <1> QED
    BY <1>1, AuditedMeans DEF MemInv, LogsOwned

\* How a step treats a call that owes its entry: it leaves it alone, or writes it.
LEMMA OwedStays ==
  ASSUME MemInv, [Next]_vars, restarts' = restarts, NEW c \in Calls, call[c].at = "append"
  PROVE  call'[c] = call[c] \/ AppendAction(c)
  <1>0. call \in [Calls -> {Idle} \cup Busy] /\ restarts \in Nat /\ call[c] # Idle
    BY DEF MemInv, Tables, DreamInv, DreamTypeOK, Idle
  <1>1. ASSUME NEW k \in Calls, ToolCall(k)
        PROVE  call'[c] = call[c]
    BY <1>0, <1>1, AcceptChecked
  <1>2. ASSUME NEW k \in Calls, CallStep(k)
        PROVE  call'[c] = call[c] \/ AppendAction(c)
    <2>1. CASE AppendAction(k)
      BY <1>0, <2>1 DEF AppendAction
    <2>2. CASE InsertLink(k)
      BY <1>0, <2>2 DEF InsertLink, Serve
    <2>3. CASE SetCore(k)
      BY <1>0, <2>3 DEF SetCore, Serve
    <2>4. ASSUME NEW r \in Reflections, PostReflection(k, r) PROVE call'[c] = call[c]
      BY <1>0, <2>4 DEF PostReflection
    <2> QED
      BY <1>2, <2>1, <2>2, <2>3, <2>4 DEF CallStep
  <1>3. ~RestartAll
    BY <1>0 DEF RestartAll, Restart
  <1>4. CASE (Working /\ UNCHANGED memVars) \/ UNCHANGED vars
             \/ \E o \in Editors, by \in {Human, NoBlob} : OwnerEdits(o, by)
    BY <1>4 DEF OwnerEdits, memVars, vars
  <1> QED
    BY <1>1, <1>2, <1>3, <1>4 DEF Next

\* Unless the server is restarted, what is audited stays audited.
LEMMA AuditedStays ==
  ASSUME MemInv, [Next]_vars, restarts' = restarts,
         NEW j \in JobIds, NEW tool \in Tools \ {"memory_add_link"}, NEW src \in Messages, Audited(j, tool, src)
  PROVE  Audited(j, tool, src)'
  <1>1. CASE \E i \in DOMAIN actions[j] : actions[j][i].tool = tool /\ actions[j][i].target = src
    BY <1>1, EntriesStay DEF Audited
  <1>2. ASSUME NEW c \in Calls, Owes(c, j, tool, src)
        PROVE  Audited(j, tool, src)'
    <2>1. CASE AppendAction(c)
      <3>1. /\ Entry(c).tool = tool /\ Entry(c).target = src
        BY <1>2, EntryOwned DEF Owes
      <3>2. \E i \in DOMAIN actions'[j] : actions'[j][i] = Entry(c)
        <4>1. call[c].job = j
          BY <1>2 DEF Owes
        <4>2. LET n == Len(actions[j]) + 1
              IN  Len(actions[j]) \in Nat /\ DOMAIN actions'[j] = 1..n /\ actions'[j][n] = Entry(c)
          BY <2>1, <4>1, AppendKeeps
        <4> QED
          BY <4>2
      <3> QED
        BY <3>1, <3>2 DEF Audited
    <2>2. CASE call'[c] = call[c]
      <3>1. call[c] \in Busy
        BY <1>2 DEF Owes, MemInv, Tables, Idle
      <3>2. call[c] # Idle
        BY <1>2 DEF Owes, Idle
      <3>3. call[c] = [call[c] EXCEPT !.at = "append", !.job = j, !.tool = tool, !.src = src]
        BY <1>2, <3>1 DEF Owes, Busy
      <3> QED
        BY <2>2, <3>2, <3>3 DEF Audited
    <2> QED
      BY <1>2, <2>1, <2>2, OwedStays DEF Owes
  <1> QED
    BY <1>1, <1>2, AuditedMeans

\* What WritesAudited says of one link and of one core memory.
Tool(rel) == IF rel = "duplicate_of" THEN "memory_mark_duplicate" ELSE "memory_supersede"

LEMMA StepAudited == MemInv /\ WritesAudited /\ [Next]_vars => WritesAudited'
  <1> SUFFICES ASSUME MemInv, WritesAudited, [Next]_vars, restarts' = 0
               PROVE  /\ \A l \in links' : l.rel \in Consolidation =>
                           \E j \in JobIds : Audited(j, Tool(l.rel), l.src)'
                      /\ \A o \in Owners : core'[o] \in JobIds =>
                           OwnerOf(core[o])' = o /\ Audited(core[o], "memory_rewrite_core", NoMessage)'
    BY DEF WritesAudited, Tool, Audited
  <1>1. restarts = 0 /\ restarts' = restarts
    <2>1. restarts \in Nat
      BY DEF MemInv, DreamInv, DreamTypeOK
    <2>2. restarts' = restarts \/ Restart
      <3>1. ASSUME NEW d \in Dispatchers, DispatchStep(d) PROVE restarts' = restarts
        BY <3>1 DEF DispatchStep, Gate, CreateOnSlot, CreateBroken, CompleteBroken, Issue, Dispatch, Launch
      <3>2. ASSUME NEW j \in JobIds, RunStep(j) \/ RunsLong(j) \/ TokenExpires(j) PROVE restarts' = restarts
        BY <3>2 DEF RunStep, Acquire, Lease, Revoke, CompleteJob, RecordCompletion, RunsLong, TokenExpires
      <3>3. CASE \/ \E q \in Owners, full \in BOOLEAN, deep \in BOOLEAN : Tick(q, full, deep)
                 \/ \E d \in Admins, q \in Owners, t \in JobTypes, n \in 1..MaxParallel : ForceRunN(d, q, t, n)
                 \/ Midnight \/ UNCHANGED dreamVars
        BY <3>3 DEF Tick, ForceRunN, Midnight, dreamVars
      <3> QED
        BY <3>1, <3>2, <3>3, NextIsDream DEF DreamNext, Working
    <2> QED
      BY <2>1, <2>2 DEF Restart
  <1>2. /\ links \subseteq Link /\ core \in [Owners -> JobIds \cup {Human, NoBlob}]
        /\ call \in [Calls -> {Idle} \cup Busy]
    BY DEF MemInv, Tables
  <1>3. ASSUME NEW l \in links, l.rel \in Consolidation
        PROVE  \E j \in JobIds : Audited(j, Tool(l.rel), l.src)'
    <2>1. PICK j \in JobIds : Audited(j, Tool(l.rel), l.src)
      BY <1>1, <1>3 DEF WritesAudited, Tool
    <2>2. l.src \in Messages /\ Tool(l.rel) \in Tools \ {"memory_add_link"}
      BY <1>2 DEF Link, Messages, Tool, Tools
    <2> QED
      BY <1>1, <2>1, <2>2, AuditedStays
  <1>4. ASSUME NEW o \in Owners, core[o] \in JobIds, core'[o] = core[o]
        PROVE  OwnerOf(core[o])' = o /\ Audited(core[o], "memory_rewrite_core", NoMessage)'
    <2>1. OwnerOf(core[o]) = o /\ Audited(core[o], "memory_rewrite_core", NoMessage)
      BY <1>1, <1>4 DEF WritesAudited
    <2>2. "memory_rewrite_core" \in Tools \ {"memory_add_link"} /\ NoMessage \in Messages
      BY DEF Tools, Messages
    <2>3. Audited(core[o], "memory_rewrite_core", NoMessage)'
      <3> DEFINE j == core[o]
      <3>1. ASSUME NEW k \in JobIds, Audited(k, "memory_rewrite_core", NoMessage), k = core'[o]
            PROVE  Audited(core[o], "memory_rewrite_core", NoMessage)'
        <4>1. Audited(k, "memory_rewrite_core", NoMessage)'
          BY <1>1, <2>2, <3>1, AuditedStays
        <4> QED
          BY <3>1, <4>1 DEF Audited
      <3> QED
        BY <1>4, <2>1, <3>1
    <2>4. status[core[o]] # "none"
      BY <1>4, <2>1, <2>2, AuditedExists
    <2>5. OwnerOf(core[o])' = o
      BY <1>4, <2>1, <2>4, RowsStay DEF OwnerOf, MemInv
    <2> QED
      BY <2>3, <2>5
  <1>5. ASSUME NEW c \in Calls, call[c].at \in {"link", "blob"}, Serve(c, "append"),
               NEW j, NEW tool, NEW src, call[c].job = j, call[c].tool = tool, call[c].src = src
        PROVE  Audited(j, tool, src)'
    <2>1. call[c] \in Busy
      BY <1>2, <1>5 DEF Idle
    <2>2. call'[c] = [call[c] EXCEPT !.at = "append"]
      BY <1>2, <1>5 DEF Serve
    <2>3. call'[c] # Idle /\ call'[c].at = "append" /\ call'[c] \in Busy
          /\ call'[c].job = j /\ call'[c].tool = tool /\ call'[c].src = src
      BY <1>5, <2>1, <2>2 DEF Busy, Idle
    <2>4. call'[c] = [call'[c] EXCEPT !.at = "append", !.job = j, !.tool = tool, !.src = src]
      BY <2>3 DEF Busy
    <2> QED
      BY <2>3, <2>4 DEF Audited
  <1> DEFINE Goal == /\ \A l \in links' : l.rel \in Consolidation =>
                           \E j \in JobIds : Audited(j, Tool(l.rel), l.src)'
                     /\ \A o \in Owners : core'[o] \in JobIds =>
                           OwnerOf(core[o])' = o /\ Audited(core[o], "memory_rewrite_core", NoMessage)'
  <1>6. CASE links' = links /\ core' = core
    BY <1>3, <1>4, <1>6
  <1>7. ASSUME NEW c \in Calls, InsertLink(c)
        PROVE  Goal
    <2> DEFINE new == [src |-> call[c].src, dst |-> call[c].dst, rel |-> call[c].rel]
    <2>1. core' = core /\ (links' = links \/ (links' = links \cup {new} /\ Serve(c, "append")))
      BY <1>7 DEF InsertLink
    <2>2. call[c].at = "link" /\ call[c] \in Busy /\ Checked(call[c])
      BY <1>2, <1>7 DEF InsertLink, Idle, MemInv, CallsChecked
    <2>3. ASSUME Serve(c, "append"), NEW l, l = new, l.rel \in Consolidation
          PROVE  \E j \in JobIds : Audited(j, Tool(l.rel), l.src)'
      <3>1. call[c].job \in JobIds /\ call[c].tool = Tool(l.rel) /\ call[c].src = l.src
        BY <2>2, <2>3 DEF Busy, Checked, Tool, Consolidation
      <3>2. PICK j \in JobIds : call[c].job = j
        BY <3>1
      <3>3. Audited(j, Tool(l.rel), l.src)'
        BY <1>5, <2>2, <2>3, <3>1, <3>2
      <3> QED
        BY <3>3
    <2>4. CASE links' = links
      BY <1>6, <2>1, <2>4
    <2>5. CASE links' = links \cup {new} /\ Serve(c, "append")
      BY <1>3, <1>4, <2>1, <2>3, <2>5
    <2> QED
      BY <2>1, <2>4, <2>5
  <1>8. ASSUME NEW c \in Calls, SetCore(c)
        PROVE  Goal
    <2>1. call[c].at = "blob" /\ call[c] \in Busy /\ Checked(call[c]) /\ Serve(c, "append")
      BY <1>2, <1>8 DEF SetCore, Idle, MemInv, CallsChecked
    <2>2. /\ call[c].job \in JobIds /\ status[call[c].job] # "none"
          /\ call[c].tool = "memory_rewrite_core" /\ call[c].src = NoMessage
      BY <2>1 DEF Busy, Checked
    <2>3. PICK j \in JobIds : call[c].job = j
      BY <2>2
    <2>4. Audited(j, "memory_rewrite_core", NoMessage)'
      BY <1>5, <2>1, <2>2, <2>3
    <2>5. links' = links /\ core' = [core EXCEPT ![OwnerOf(j)] = j] /\ jobOf' = jobOf
      BY <1>8, <2>3 DEF SetCore, dreamVars
    <2>6. ASSUME NEW o \in Owners, core'[o] \in JobIds
          PROVE  OwnerOf(core[o])' = o /\ Audited(core[o], "memory_rewrite_core", NoMessage)'
      <3>1. CASE o = OwnerOf(j)
        <4>1. core'[o] = j
          BY <1>2, <2>5, <3>1
        <4> QED
          BY <2>4, <2>5, <3>1, <4>1 DEF Audited, OwnerOf
      <3>2. CASE o # OwnerOf(j)
        <4>1. core'[o] = core[o]
          BY <1>2, <2>5, <3>2
        <4> QED
          BY <1>4, <2>6, <4>1
      <3> QED
        BY <3>1, <3>2
    <2> QED
      BY <1>3, <2>5, <2>6
  <1>9. ASSUME NEW o \in Editors, NEW by \in {Human, NoBlob}, OwnerEdits(o, by)
        PROVE  Goal
    <2>1. links' = links /\ by \notin JobIds
      BY <1>9, MemoryAssumption DEF OwnerEdits
    <2>2. \A p \in Owners : core'[p] = core[p] \/ core'[p] = by
      BY <1>2, <1>9 DEF OwnerEdits
    <2> QED
      BY <1>3, <1>4, <2>1, <2>2
  <1>10. ASSUME NEW c \in Calls, ToolCall(c) \/ AppendAction(c) \/ \E r \in Reflections : PostReflection(c, r)
         PROVE  Goal
    BY <1>6, <1>10, ToolCallWrites DEF AppendAction, PostReflection
  <1>11. CASE (Working /\ UNCHANGED memVars) \/ RestartAll \/ UNCHANGED vars
    BY <1>6, <1>11 DEF RestartAll, memVars, vars
  <1> QED
    BY <1>7, <1>8, <1>9, <1>10, <1>11 DEF Next, CallStep

\* While the server stays up, no link that excludes a memory and no core memory of
\* a dream agent is without its audit entry, written or still owed by its call.
THEOREM EveryWriteAudited == Spec => []WritesAudited
  <1>1. Init => WritesAudited
    <2> SUFFICES ASSUME Init PROVE WritesAudited
      OBVIOUS
    <2>1. links = {} /\ \A o \in Owners : core[o] \notin JobIds
      BY MemoryAssumption DEF Init, MemInit
    <2> QED
      BY <2>1 DEF WritesAudited
  <1> QED
    BY <1>1, StepAudited, MemInvariance, PTL DEF Spec

=============================================================================

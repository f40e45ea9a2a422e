----------------------------- MODULE StoreProofs -----------------------------
(***************************************************************************)
(* Theorems about the message store's components: reactions and trust      *)
(* (Reactions), attachment files (Attachments), the retention worker       *)
(* (Retention), conversations and read pointers (Conversations) and the    *)
(* injected memories (Injection), and about their composition              *)
(* (MCConversations).  Each component has an inductive invariant of its    *)
(* own; a step of the composition is a step of one of them or leaves it    *)
(* alone.                                                                  *)
(***************************************************************************)
EXTENDS MCConversations, SumTheorems, FiniteSetTheorems, TLAPS

-----------------------------------------------------------------------------
(* Reactions and trust.                                                    *)

\* The tables, and what a call remembers between two statements.
RxRow == [agent : Reactors, reaction : Verdicts]

RxCallState == [pc : {"idle"}]
               \union [pc : {"count", "insert", "delete", "trust"}, msg : RxMessages, agent : Reactors,
                       reaction : Verdicts]

RxRows ==
  /\ rx \in [RxMessages -> SUBSET RxRow]
  /\ \A m \in RxMessages : IsFiniteSet(rx[m])
  /\ rxCalls \in [RxCalls -> RxCallState]
  /\ trust \in [Bots -> [score : 0..TopScore, adjustments : Nat]]
  /\ crowded \in [RxMessages -> BOOLEAN]
  /\ judged \in [Bots -> Nat] /\ dropped \in [Bots -> Nat]
  /\ \A c \in RxCalls : rxCalls[c].pc = "trust" => RxAuthor[rxCalls[c].msg] \in Bots

\* As long as nobody judged a message while another did, one call judges it;
\* what that call has seen is still so when it inserts.
OneJudge ==
  \A m \in RxMessages : ~crowded[m] =>
    /\ \A c, d \in RxCalls : Judging(c, m) /\ Judging(d, m) => c = d
    /\ \A c \in RxCalls : Judging(c, m) /\ rxCalls[c].pc = "insert"
                            => Cardinality(rx[m]) < MaxReactionsPerMessage
    /\ Cardinality(rx[m]) <= MaxReactionsPerMessage

OneClaim ==
  \A m \in RxMessages : ~crowded[m] =>
    /\ \A c \in RxCalls : Judging(c, m) /\ rxCalls[c].reaction = "in_progress"
         => \A e \in rx[m] : e.reaction = "in_progress" => e.agent = rxCalls[c].agent
    /\ \A e, f \in rx[m] : e.reaction = "in_progress" /\ f.reaction = "in_progress" => e = f

\* The calls that have counted and not yet inserted: each adds one row at most.
Inserting(m) == {c \in RxCalls : rxCalls[c].pc = "insert" /\ rxCalls[c].msg = m}

LimitWithCalls ==
  \A m \in RxMessages :
    Cardinality(rx[m]) + Cardinality(Inserting(m)) <= MaxReactionsPerMessage + Cardinality(RxCalls) - 1

Owing(a) == {c \in RxCalls : rxCalls[c].pc = "trust" /\ RxAuthor[rxCalls[c].msg] = a}

EveryVerdictCounts ==
  \A a \in Bots : judged[a] = trust[a].adjustments + Cardinality(Owing(a)) + dropped[a]

ReactionsInv == RxRows /\ OneJudge /\ OneClaim /\ LimitWithCalls /\ EveryVerdictCounts

LEMMA RxKinds ==
  ASSUME RxRows, NEW c \in RxCalls, rxCalls[c].pc # "idle"
  PROVE  /\ rxCalls[c].msg \in RxMessages /\ rxCalls[c].agent \in Reactors
         /\ rxCalls[c].reaction \in Verdicts /\ rxCalls[c].pc \in {"count", "insert", "delete", "trust"}
         /\ rxCalls[c] \in [pc : {"count", "insert", "delete", "trust"}, msg : RxMessages, agent : Reactors,
                            reaction : Verdicts]
<1>1. rxCalls[c] \in RxCallState
  BY DEF RxRows
<1> QED
  BY <1>1 DEF RxCallState

LEMMA ReactionsInitInv == ReactionsInit => ReactionsInv
<1> SUFFICES ASSUME ReactionsInit PROVE ReactionsInv
  OBVIOUS
<1>0. IsFiniteSet({}) /\ Cardinality({}) = 0 /\ Cardinality(RxCalls) \in Nat
  BY FS_EmptySet, FS_CardinalityType, ReactionsAssumption
<1>1. RxRows
  BY <1>0, ReactionsAssumption DEF ReactionsInit, RxRows, RxCallState, Quiet
<1>2. OneJudge /\ OneClaim
  BY <1>0, ReactionsAssumption DEF ReactionsInit, OneJudge, OneClaim, Judging, Quiet
<1>3. LimitWithCalls
  <2>1. \A m \in RxMessages : rx[m] = {} /\ Inserting(m) = {}
    BY DEF ReactionsInit, Inserting, Quiet
  <2> QED
    <3>1. \A m \in RxMessages : Cardinality(rx[m]) = 0 /\ Cardinality(Inserting(m)) = 0
      BY <2>1, <1>0
    <3>2. 0 + 0 <= MaxReactionsPerMessage + Cardinality(RxCalls) - 1
      BY <1>0, ReactionsAssumption
    <3> QED
      BY <3>1, <3>2 DEF LimitWithCalls
<1>4. EveryVerdictCounts
  <2>1. \A a \in Bots : Owing(a) = {}
    BY DEF ReactionsInit, Owing, Quiet
  <2> QED
    <3>1. \A a \in Bots : Cardinality(Owing(a)) = 0
      BY <2>1, <1>0
    <3>2. \A a \in Bots : judged[a] = 0 /\ trust[a].adjustments = 0 /\ dropped[a] = 0
      BY DEF ReactionsInit
    <3> QED
      BY <3>1, <3>2 DEF EveryVerdictCounts
<1> QED
  BY <1>1, <1>2, <1>3, <1>4 DEF ReactionsInv

\* Sets of calls are finite.
LEMMA CallSets ==
  ASSUME NEW S, S \subseteq RxCalls
  PROVE  IsFiniteSet(S) /\ Cardinality(S) \in Nat /\ Cardinality(S) <= Cardinality(RxCalls)
         /\ Cardinality(RxCalls) \in Nat
BY FS_Subset, FS_CardinalityType, ReactionsAssumption

LEMMA InsertingFinite ==
  ASSUME NEW m
  PROVE  IsFiniteSet(Inserting(m)) /\ Cardinality(Inserting(m)) \in Nat
         /\ Cardinality(Inserting(m)) <= Cardinality(RxCalls) /\ Cardinality(RxCalls) \in Nat
<1>1. Inserting(m) \subseteq RxCalls
  BY DEF Inserting
<1> QED
  BY <1>1, CallSets

LEMMA OwingFinite ==
  ASSUME NEW a
  PROVE  IsFiniteSet(Owing(a)) /\ Cardinality(Owing(a)) \in Nat
<1>1. Owing(a) \subseteq RxCalls
  BY DEF Owing
<1> QED
  BY <1>1, CallSets

\* Whether the reaction exists, and for a claim whether another agent has one.
LEMMA ToggleInv ==
  ASSUME ReactionsInv, NEW c \in RxCalls, NEW m \in RxMessages, NEW a \in Reactors, NEW r \in Verdicts,
         Toggle(c, m, a, r)
  PROVE  ReactionsInv'
<1> DEFINE del == [pc |-> "delete", msg |-> m, agent |-> a, reaction |-> r]
           cnt == [pc |-> "count", msg |-> m, agent |-> a, reaction |-> r]
<1>1. /\ rxCalls[c] = Quiet
      /\ rxCalls' = [rxCalls EXCEPT ![c] = del] \/ rxCalls' = [rxCalls EXCEPT ![c] = cnt]
      /\ crowded' = [crowded EXCEPT ![m] = crowded[m] \/ \E d \in RxCalls : Judging(d, m)]
      /\ rx' = rx /\ trust' = trust /\ judged' = judged /\ dropped' = dropped
  BY DEF Toggle, Goes
<1>2. /\ del \in RxCallState /\ del.pc = "delete"
      /\ cnt \in RxCallState /\ cnt.pc = "count" /\ cnt.msg = m /\ cnt.agent = a /\ cnt.reaction = r
  BY DEF RxCallState
<1>3. rxCalls' = [rxCalls EXCEPT ![c] = cnt] /\ r = "in_progress" => \A b \in Reactors \ {a} : ~Exists(m, b, r)
  <2>1. del # cnt
    BY <1>2
  <2>2. rxCalls \in [RxCalls -> RxCallState]
    BY DEF ReactionsInv, RxRows
  <2>3. rxCalls' = [rxCalls EXCEPT ![c] = cnt] => rxCalls' # [rxCalls EXCEPT ![c] = del]
    BY <2>1, <2>2
  <2> QED
    BY <2>3 DEF Toggle, Goes
<1> HIDE DEF del, cnt
<1> USE DEF ReactionsInv
<1>4. RxRows'
  BY <1>1, <1>2 DEF RxRows
<1>q. /\ \A d \in RxCalls : d # c => rxCalls'[d] = rxCalls[d]
      /\ rxCalls'[c] \in {del, cnt} /\ rxCalls[c].pc = "idle"
  BY <1>1 DEF RxRows, Quiet
<1>5. \A n \in RxMessages : Inserting(n)' = Inserting(n)
  BY <1>q, <1>2 DEF Inserting
<1>6. \A b \in Bots : Owing(b)' = Owing(b)
  BY <1>q, <1>2 DEF Owing
<1>7. LimitWithCalls' /\ EveryVerdictCounts'
  BY <1>1, <1>5, <1>6 DEF LimitWithCalls, EveryVerdictCounts
<1>8. ASSUME NEW n \in RxMessages, ~crowded'[n]
      PROVE  /\ ~crowded[n]
             /\ n = m => \A d \in RxCalls : ~Judging(d, m)
  BY <1>1, <1>8 DEF RxRows
<1>9. \A d \in RxCalls, n \in RxMessages : Judging(d, n)' => (d = c /\ n = m /\ rxCalls'[c] = cnt) \/ (d # c /\ Judging(d, n))
  BY <1>q, <1>2 DEF Judging
<1>10. OneJudge'
  <2> SUFFICES ASSUME NEW n \in RxMessages, ~crowded'[n]
               PROVE  /\ \A d, e \in RxCalls : Judging(d, n)' /\ Judging(e, n)' => d = e
                      /\ \A d \in RxCalls : Judging(d, n)' /\ rxCalls'[d].pc = "insert"
                            => Cardinality(rx[n]) < MaxReactionsPerMessage
                      /\ Cardinality(rx[n]) <= MaxReactionsPerMessage
    BY <1>1 DEF OneJudge
  <2>1. \A d \in RxCalls : Judging(d, n)' /\ rxCalls'[d].pc = "insert" => Judging(d, n) /\ rxCalls[d].pc = "insert"
    BY <1>9, <1>q, <1>2
  <2> QED
    BY <1>8, <1>9, <2>1 DEF OneJudge
<1>11. OneClaim'
  <2> SUFFICES ASSUME NEW n \in RxMessages, ~crowded'[n]
               PROVE  /\ \A d \in RxCalls : Judging(d, n)' /\ rxCalls'[d].reaction = "in_progress"
                            => \A e \in rx[n] : e.reaction = "in_progress" => e.agent = rxCalls'[d].agent
                      /\ \A e, f \in rx[n] : e.reaction = "in_progress" /\ f.reaction = "in_progress" => e = f
    BY <1>1 DEF OneClaim
  <2>1. ASSUME NEW e \in rx[m], e.reaction = "in_progress", rxCalls'[c] = cnt, r = "in_progress"
        PROVE  e.agent = a
    <3>1. e \in RxRow
      BY DEF RxRows
    <3>2. e = [agent |-> e.agent, reaction |-> "in_progress"] /\ e.agent \in Reactors
      BY <3>1, <2>1 DEF RxRow
    <3>3. rxCalls' = [rxCalls EXCEPT ![c] = cnt]
      BY <1>1, <2>1 DEF RxRows
    <3> QED
      BY <1>3, <2>1, <3>2, <3>3 DEF Exists
  <2>2. ASSUME NEW d \in RxCalls, Judging(d, n)', rxCalls'[d].reaction = "in_progress",
               NEW e \in rx[n], e.reaction = "in_progress"
        PROVE  e.agent = rxCalls'[d].agent
    <3>1. CASE d = c /\ n = m /\ rxCalls'[c] = cnt
      BY <3>1, <2>1, <2>2, <1>2
    <3>2. CASE d # c /\ Judging(d, n)
      BY <3>2, <2>2, <1>8, <1>q DEF OneClaim
    <3> QED
      BY <3>1, <3>2, <2>2, <1>9
  <2> QED
    BY <2>2, <1>8 DEF OneClaim
<1> QED
  BY <1>4, <1>7, <1>10, <1>11

\* Reactions that go, and calls that end, disturb nothing others have seen.
LEMMA ReactionsShrink ==
  ASSUME ReactionsInv, RxRows', crowded' = crowded,
         \A n \in RxMessages : rx'[n] \subseteq rx[n],
         \A d \in RxCalls : rxCalls'[d] = rxCalls[d] \/ rxCalls'[d] = Quiet
  PROVE  OneJudge' /\ OneClaim' /\ LimitWithCalls'
<1> USE DEF ReactionsInv
<1>1. \A d \in RxCalls, n \in RxMessages : Judging(d, n)' => Judging(d, n) /\ rxCalls'[d] = rxCalls[d]
  BY DEF Judging, Quiet
<1>2. \A n \in RxMessages : Cardinality(rx'[n]) \in Nat /\ Cardinality(rx[n]) \in Nat /\ Cardinality(rx'[n]) <= Cardinality(rx[n])
  BY FS_Subset, FS_CardinalityType DEF RxRows
<1>3. OneJudge'
  <2> SUFFICES ASSUME NEW n \in RxMessages, ~crowded[n]
               PROVE  /\ \A d, e \in RxCalls : Judging(d, n)' /\ Judging(e, n)' => d = e
                      /\ \A d \in RxCalls : Judging(d, n)' /\ rxCalls'[d].pc = "insert"
                            => Cardinality(rx'[n]) < MaxReactionsPerMessage
                      /\ Cardinality(rx'[n]) <= MaxReactionsPerMessage
    BY DEF OneJudge
  <2>1. \A d \in RxCalls : Judging(d, n)' /\ rxCalls'[d].pc = "insert" => Cardinality(rx[n]) < MaxReactionsPerMessage
    BY <1>1 DEF OneJudge
  <2>2. Cardinality(rx[n]) <= MaxReactionsPerMessage
    BY DEF OneJudge
  <2>3. \A d, e \in RxCalls : Judging(d, n)' /\ Judging(e, n)' => d = e
    BY <1>1 DEF OneJudge
  <2> QED
    BY <1>2, <2>1, <2>2, <2>3, ReactionsAssumption
<1>4. OneClaim'
  <2> SUFFICES ASSUME NEW n \in RxMessages, ~crowded[n]
               PROVE  /\ \A d \in RxCalls : Judging(d, n)' /\ rxCalls'[d].reaction = "in_progress"
                            => \A e \in rx'[n] : e.reaction = "in_progress" => e.agent = rxCalls'[d].agent
                      /\ \A e, f \in rx'[n] : e.reaction = "in_progress" /\ f.reaction = "in_progress" => e = f
    BY DEF OneClaim
  <2> QED
    BY <1>1 DEF OneClaim
<1>5. LimitWithCalls'
  <2> SUFFICES ASSUME NEW n \in RxMessages
               PROVE  Cardinality(rx'[n]) + Cardinality(Inserting(n)')
                        <= MaxReactionsPerMessage + Cardinality(RxCalls) - 1
    BY DEF LimitWithCalls
  <2>1. Inserting(n)' \subseteq Inserting(n)
    BY DEF Inserting, Quiet
  <2>2. Cardinality(Inserting(n)') \in Nat /\ Cardinality(Inserting(n)') <= Cardinality(Inserting(n))
    BY <2>1, InsertingFinite, FS_Subset, FS_CardinalityType
  <2>3. Cardinality(rx[n]) + Cardinality(Inserting(n)) <= MaxReactionsPerMessage + Cardinality(RxCalls) - 1
    BY DEF LimitWithCalls
  <2> QED
    BY <1>2, <2>2, <2>3, InsertingFinite, ReactionsAssumption
<1> QED
  BY <1>3, <1>4, <1>5

LEMMA DeleteInv ==
  ASSUME ReactionsInv, NEW c \in RxCalls, DeleteReaction(c)
  PROVE  ReactionsInv'
<1> USE DEF ReactionsInv
<1>1. PICK m \in RxMessages : m = rxCalls[c].msg
  BY RxKinds DEF DeleteReaction
<1>2. /\ rxCalls[c].pc = "delete" /\ rxCalls' = [rxCalls EXCEPT ![c] = Quiet]
      /\ trust' = trust /\ crowded' = crowded /\ judged' = judged /\ dropped' = dropped
      /\ \E row : rx' = [rx EXCEPT ![m] = rx[m] \ {row}]
  BY <1>1 DEF DeleteReaction, Goes
<1>3. \A n \in RxMessages : rx'[n] \subseteq rx[n]
  BY <1>2 DEF RxRows
<1>4. RxRows'
  <2>1. \A n \in RxMessages : IsFiniteSet(rx'[n])
    BY <1>3, FS_Subset DEF RxRows
  <2>2. rx' \in [RxMessages -> SUBSET RxRow]
    BY <1>2 DEF RxRows
  <2>3. rxCalls' \in [RxCalls -> RxCallState] /\ Quiet.pc = "idle"
    BY <1>2 DEF RxRows, RxCallState, Quiet
  <2> QED
    BY <1>2, <2>1, <2>2, <2>3 DEF RxRows
<1>5. \A b \in Bots : Owing(b)' = Owing(b)
  BY <1>2 DEF Owing, Quiet, RxRows
<1>6. \A d \in RxCalls : rxCalls'[d] = rxCalls[d] \/ rxCalls'[d] = Quiet
  BY <1>2 DEF RxRows
<1>7. EveryVerdictCounts'
  BY <1>2, <1>5 DEF EveryVerdictCounts
<1> QED
  BY <1>2, <1>3, <1>4, <1>6, <1>7, ReactionsShrink

LEMMA RemoveInv ==
  ASSUME ReactionsInv, NEW m \in RxMessages, NEW a, NEW r, RemoveReaction(m, a, r)
  PROVE  ReactionsInv'
<1> USE DEF ReactionsInv
<1>2. /\ rxCalls' = rxCalls
      /\ trust' = trust /\ crowded' = crowded /\ judged' = judged /\ dropped' = dropped
      /\ \E row : rx' = [rx EXCEPT ![m] = rx[m] \ {row}]
  BY DEF RemoveReaction
<1>3. \A n \in RxMessages : rx'[n] \subseteq rx[n]
  BY <1>2 DEF RxRows
<1>4. RxRows'
  <2>1. \A n \in RxMessages : IsFiniteSet(rx'[n])
    BY <1>3, FS_Subset DEF RxRows
  <2>2. rx' \in [RxMessages -> SUBSET RxRow]
    BY <1>2 DEF RxRows
  <2> QED
    BY <1>2, <2>1, <2>2 DEF RxRows
<1>6. \A d \in RxCalls : rxCalls'[d] = rxCalls[d] \/ rxCalls'[d] = Quiet
  BY <1>2
<1>7. EveryVerdictCounts'
  BY <1>2 DEF EveryVerdictCounts, Owing
<1> QED
  BY <1>2, <1>3, <1>4, <1>6, <1>7, ReactionsShrink

\* A call that ends while it owes the author its trust.
LEMMA OwingLess ==
  ASSUME RxRows, NEW c \in RxCalls, rxCalls[c].pc = "trust", rxCalls' = [rxCalls EXCEPT ![c] = Quiet],
         NEW a \in Bots, a = RxAuthor[rxCalls[c].msg]
  PROVE  /\ Cardinality(Owing(a)') = Cardinality(Owing(a)) - 1
         /\ \A b \in Bots : b # a => Owing(b)' = Owing(b)
<1>1. c \in Owing(a) /\ Owing(a)' = Owing(a) \ {c}
  BY DEF Owing, Quiet, RxRows
<1>2. \A b \in Bots : b # a => Owing(b)' = Owing(b)
  BY DEF Owing, Quiet, RxRows
<1>3. Cardinality(Owing(a) \ {c}) = Cardinality(Owing(a)) - 1
  <2>1. IsFiniteSet(Owing(a)) /\ Cardinality(Owing(a)) \in Nat
    BY OwingFinite
  <2> QED
    BY <1>1, <2>1, FS_RemoveElement
<1> QED
  BY <1>1, <1>2, <1>3

LEMMA StopsInv ==
  ASSUME ReactionsInv, NEW c \in RxCalls, ToggleStops(c)
  PROVE  ReactionsInv'
<1> USE DEF ReactionsInv
<1>1. PICK m \in RxMessages : m = rxCalls[c].msg
  BY RxKinds DEF ToggleStops
<1>2. /\ rxCalls' = [rxCalls EXCEPT ![c] = Quiet]
      /\ trust' = trust /\ crowded' = crowded /\ judged' = judged /\ rx' = rx
      /\ dropped' = IF rxCalls[c].pc = "trust" THEN [dropped EXCEPT ![RxAuthor[m]] = dropped[RxAuthor[m]] + 1] ELSE dropped
  BY <1>1 DEF ToggleStops, Goes
<1>3. rxCalls[c].pc = "trust" => RxAuthor[m] \in Bots
  BY <1>1 DEF RxRows
<1>4. RxRows'
  <2>1. rxCalls' \in [RxCalls -> RxCallState] /\ Quiet.pc = "idle"
    BY <1>2 DEF RxRows, RxCallState, Quiet
  <2>2. dropped' \in [Bots -> Nat]
    BY <1>2, <1>3 DEF RxRows
  <2> QED
    BY <1>2, <2>1, <2>2 DEF RxRows
<1>6. \A d \in RxCalls : rxCalls'[d] = rxCalls[d] \/ rxCalls'[d] = Quiet
  BY <1>2 DEF RxRows
<1>7. EveryVerdictCounts'
  <2>1. CASE rxCalls[c].pc # "trust"
    <3>1. \A b \in Bots : Owing(b)' = Owing(b)
      BY <1>2, <2>1 DEF Owing, Quiet, RxRows
    <3> QED
      BY <1>2, <2>1, <3>1 DEF EveryVerdictCounts
  <2>2. CASE rxCalls[c].pc = "trust"
    <3>1. PICK a \in Bots : a = RxAuthor[m]
      BY <1>3, <2>2
    <3>2. /\ Cardinality(Owing(a)') = Cardinality(Owing(a)) - 1
          /\ \A b \in Bots : b # a => Owing(b)' = Owing(b)
      BY <1>1, <1>2, <2>2, <3>1, OwingLess
    <3>3. dropped'[a] = dropped[a] + 1 /\ \A b \in Bots : b # a => dropped'[b] = dropped[b]
      BY <1>2, <2>2, <3>1 DEF RxRows
    <3>4. ASSUME NEW b \in Bots PROVE judged[b] = trust[b].adjustments + Cardinality(Owing(b)') + dropped'[b]
      <4>1. judged[b] = trust[b].adjustments + Cardinality(Owing(b)) + dropped[b]
        BY DEF EveryVerdictCounts
      <4>2. trust[b].adjustments \in Nat /\ dropped[b] \in Nat /\ Cardinality(Owing(b)) \in Nat
        BY OwingFinite DEF RxRows
      <4> QED
        BY <3>2, <3>3, <4>1, <4>2
    <3> QED
      BY <1>2, <3>4 DEF EveryVerdictCounts
  <2> QED
    BY <2>1, <2>2
<1> QED
  BY <1>2, <1>4, <1>6, <1>7, ReactionsShrink

\* What UpsertScore makes of a row.
LEMMA ScoreStays ==
  ASSUME RxRows, NEW a \in Bots, NEW up \in BOOLEAN, UpsertScore(a, up, 2)
  PROVE  /\ trust' \in [Bots -> [score : 0..TopScore, adjustments : Nat]]
         /\ trust'[a].adjustments = trust[a].adjustments + 1
         /\ \A b \in Bots : b # a => trust'[b] = trust[b]
<1> DEFINE sc == IF up THEN Min({TopScore, trust[a].score + 1})
                 ELSE IF trust[a].score < 2 THEN 0 ELSE trust[a].score - 2
           row == [score |-> sc, adjustments |-> trust[a].adjustments + 1]
<1>1. trust' = [trust EXCEPT ![a] = row]
  BY DEF UpsertScore
<1>2. trust[a].score \in 0..TopScore /\ trust[a].adjustments \in Nat /\ TopScore \in Nat
  BY ReactionsAssumption DEF RxRows
<1>3. Min({TopScore, trust[a].score + 1}) \in 0..TopScore
  <2>1. PICK x \in {TopScore, trust[a].score + 1} : \A y \in {TopScore, trust[a].score + 1} : x <= y
    <3>1. CASE TopScore <= trust[a].score + 1
      BY <1>2, <3>1
    <3>2. CASE trust[a].score + 1 <= TopScore
      BY <1>2, <3>2
    <3> QED
      BY <1>2, <3>1, <3>2
  <2>2. /\ Min({TopScore, trust[a].score + 1}) \in {TopScore, trust[a].score + 1}
        /\ \A y \in {TopScore, trust[a].score + 1} : Min({TopScore, trust[a].score + 1}) <= y
    BY <2>1 DEF Min
  <2> QED
    BY <1>2, <2>2
<1>4. sc \in 0..TopScore
  BY <1>2, <1>3
<1> HIDE DEF sc
<1>5. row \in [score : 0..TopScore, adjustments : Nat] /\ row.adjustments = trust[a].adjustments + 1
  BY <1>2, <1>4
<1> HIDE DEF row
<1> QED
  BY <1>1, <1>5 DEF RxRows

LEMMA AdjustInv ==
  ASSUME ReactionsInv, NEW c \in RxCalls, adjustTrustIfNeeded(c)
  PROVE  ReactionsInv'
<1> USE DEF ReactionsInv
<1>1. PICK m \in RxMessages : m = rxCalls[c].msg
  BY RxKinds DEF adjustTrustIfNeeded
<1>2. /\ rxCalls[c].pc = "trust" /\ rxCalls' = [rxCalls EXCEPT ![c] = Quiet]
      /\ dropped' = dropped /\ crowded' = crowded /\ judged' = judged /\ rx' = rx
      /\ UpsertScore(RxAuthor[m], TRUE, 2) \/ UpsertScore(RxAuthor[m], FALSE, 2)
  BY <1>1 DEF adjustTrustIfNeeded, Goes, RecordApproval, RecordRejection
<1>3. PICK a \in Bots : a = RxAuthor[m]
  BY <1>1, <1>2 DEF RxRows
<1>4. /\ trust' \in [Bots -> [score : 0..TopScore, adjustments : Nat]]
      /\ trust'[a].adjustments = trust[a].adjustments + 1
      /\ \A b \in Bots : b # a => trust'[b] = trust[b]
  BY <1>2, <1>3, ScoreStays
<1>5. RxRows'
  <2>1. rxCalls' \in [RxCalls -> RxCallState] /\ Quiet.pc = "idle"
    BY <1>2 DEF RxRows, RxCallState, Quiet
  <2> QED
    BY <1>2, <1>4, <2>1 DEF RxRows
<1>6. \A d \in RxCalls : rxCalls'[d] = rxCalls[d] \/ rxCalls'[d] = Quiet
  BY <1>2 DEF RxRows
<1>7. EveryVerdictCounts'
  <2>1. /\ Cardinality(Owing(a)') = Cardinality(Owing(a)) - 1
        /\ \A b \in Bots : b # a => Owing(b)' = Owing(b)
    BY <1>1, <1>2, <1>3, OwingLess
  <2>2. ASSUME NEW b \in Bots PROVE judged[b] = trust'[b].adjustments + Cardinality(Owing(b)') + dropped[b]
    <3>1. judged[b] = trust[b].adjustments + Cardinality(Owing(b)) + dropped[b]
      BY DEF EveryVerdictCounts
    <3>2. trust[b].adjustments \in Nat /\ dropped[b] \in Nat /\ Cardinality(Owing(b)) \in Nat
      BY OwingFinite DEF RxRows
    <3> QED
      BY <1>4, <2>1, <3>1, <3>2
  <2> QED
    BY <1>2, <2>2 DEF EveryVerdictCounts
<1> QED
  BY <1>2, <1>5, <1>6, <1>7, ReactionsShrink

\* The count of the reactions there are, which lets a call insert one more.
LEMMA LimitInv ==
  ASSUME ReactionsInv, NEW c \in RxCalls, CheckLimit(c)
  PROVE  ReactionsInv'
<1> USE DEF ReactionsInv
<1>1. PICK m \in RxMessages : m = rxCalls[c].msg
  BY RxKinds DEF CheckLimit
<1> DEFINE q == [rxCalls[c] EXCEPT !.pc = "insert"]
<1>2. /\ rxCalls[c].pc = "count"
      /\ \/ rxCalls' = [rxCalls EXCEPT ![c] = Quiet]
         \/ rxCalls' = [rxCalls EXCEPT ![c] = q] /\ ~(Cardinality(rx[m]) >= MaxReactionsPerMessage)
      /\ dropped' = dropped /\ crowded' = crowded /\ judged' = judged /\ rx' = rx /\ trust' = trust
  BY <1>1 DEF CheckLimit, Goes, CountByMessage
<1>3. /\ q \in RxCallState /\ q.pc = "insert" /\ q.msg = m
      /\ q.agent = rxCalls[c].agent /\ q.reaction = rxCalls[c].reaction
  BY <1>1, <1>2, RxKinds DEF RxCallState
<1> HIDE DEF q
<1>4. RxRows'
  <2>1. rxCalls' \in [RxCalls -> RxCallState] /\ Quiet.pc = "idle"
    BY <1>2, <1>3 DEF RxRows, RxCallState, Quiet
  <2>2. \A d \in RxCalls : rxCalls'[d].pc = "trust" => rxCalls'[d] = rxCalls[d]
    BY <1>2, <1>3, <2>1 DEF RxRows
  <2> QED
    BY <1>2, <2>1, <2>2 DEF RxRows
<1>5. \A b \in Bots : Owing(b)' = Owing(b)
  BY <1>2, <1>3, SMTT(30) DEF Owing, Quiet, RxRows
<1>6. EveryVerdictCounts'
  BY <1>2, <1>5 DEF EveryVerdictCounts
<1>7. CASE rxCalls' = [rxCalls EXCEPT ![c] = Quiet]
  <2>1. \A d \in RxCalls : rxCalls'[d] = rxCalls[d] \/ rxCalls'[d] = Quiet
    BY <1>7 DEF RxRows
  <2> QED
    BY <1>2, <1>4, <1>6, <2>1, ReactionsShrink
<1>8. CASE rxCalls' = [rxCalls EXCEPT ![c] = q] /\ ~(Cardinality(rx[m]) >= MaxReactionsPerMessage)
  <2>1. Cardinality(rx[m]) \in Nat /\ Cardinality(rx[m]) < MaxReactionsPerMessage
    BY <1>8, FS_CardinalityType, ReactionsAssumption DEF RxRows
  <2>2. \A d \in RxCalls, n \in RxMessages : Judging(d, n)' <=> Judging(d, n)
    BY <1>1, <1>2, <1>3, <1>8 DEF Judging, RxRows
  <2>3. /\ \A d \in RxCalls : rxCalls'[d].agent = rxCalls[d].agent /\ rxCalls'[d].reaction = rxCalls[d].reaction
        /\ \A d \in RxCalls, n \in RxMessages : Judging(d, n)' /\ rxCalls'[d].pc = "insert" => d = c \/ rxCalls[d].pc = "insert"
        /\ \A n \in RxMessages : Judging(c, n) => n = m
    BY <1>1, <1>3, <1>8 DEF RxRows, Judging
  <2>4. OneJudge'
    <3> SUFFICES ASSUME NEW n \in RxMessages, ~crowded[n]
                 PROVE  /\ \A d, e \in RxCalls : Judging(d, n)' /\ Judging(e, n)' => d = e
                        /\ \A d \in RxCalls : Judging(d, n)' /\ rxCalls'[d].pc = "insert"
                              => Cardinality(rx[n]) < MaxReactionsPerMessage
                        /\ Cardinality(rx[n]) <= MaxReactionsPerMessage
      BY <1>2 DEF OneJudge
    <3> QED
      BY <2>1, <2>2, <2>3 DEF OneJudge
  <2>5. OneClaim'
    <3> SUFFICES ASSUME NEW n \in RxMessages, ~crowded[n]
                 PROVE  /\ \A d \in RxCalls : Judging(d, n)' /\ rxCalls'[d].reaction = "in_progress"
                              => \A e \in rx[n] : e.reaction = "in_progress" => e.agent = rxCalls'[d].agent
                        /\ \A e, f \in rx[n] : e.reaction = "in_progress" /\ f.reaction = "in_progress" => e = f
      BY <1>2 DEF OneClaim
    <3> QED
      BY <2>2, <2>3 DEF OneClaim
  <2>6. LimitWithCalls'
    <3> SUFFICES ASSUME NEW n \in RxMessages
                 PROVE  Cardinality(rx[n]) + Cardinality(Inserting(n)')
                          <= MaxReactionsPerMessage + Cardinality(RxCalls) - 1
      BY <1>2 DEF LimitWithCalls
    <3>1. CASE n = m
      <4>1. Cardinality(Inserting(n)') \in Nat /\ Cardinality(Inserting(n)') <= Cardinality(RxCalls) /\ Cardinality(RxCalls) \in Nat
        <5>1. Inserting(n)' \subseteq RxCalls
          BY DEF Inserting
        <5> QED
          BY <5>1, CallSets
      <4> QED
        BY <2>1, <3>1, <4>1, ReactionsAssumption
    <3>2. CASE n # m
      <4>1. Inserting(n)' = Inserting(n)
        BY <1>1, <1>3, <1>8, <3>2 DEF Inserting, RxRows
      <4> QED
        BY <4>1 DEF LimitWithCalls
    <3> QED
      BY <3>1, <3>2
  <2> QED
    BY <1>4, <1>6, <2>4, <2>5, <2>6
<1> QED
  BY <1>2, <1>7, <1>8
\* The reaction is stored: the call was the only judge of an uncrowded message.
LEMMA InsertInv ==
  ASSUME ReactionsInv, NEW c \in RxCalls, InsertReaction(c)
  PROVE  ReactionsInv'
<1> USE DEF ReactionsInv
<1>1. PICK m \in RxMessages : m = rxCalls[c].msg
  BY RxKinds DEF InsertReaction
<1>2. PICK a \in Reactors, r \in Verdicts : a = rxCalls[c].agent /\ r = rxCalls[c].reaction
  BY RxKinds DEF InsertReaction
<1> DEFINE row == [agent |-> a, reaction |-> r]
           counts == AdjustsTrust(m, a, r)
           q == [rxCalls[c] EXCEPT !.pc = "trust"]
<1>3. /\ rxCalls[c].pc = "insert" /\ row \notin rx[m]
      /\ rx' = [rx EXCEPT ![m] = rx[m] \union {row}]
      /\ judged' = IF counts THEN [judged EXCEPT ![RxAuthor[m]] = judged[RxAuthor[m]] + 1] ELSE judged
      /\ rxCalls' = [rxCalls EXCEPT ![c] = IF counts THEN q ELSE Quiet]
      /\ trust' = trust /\ crowded' = crowded /\ dropped' = dropped
  BY <1>1, <1>2 DEF InsertReaction, Goes, Exists
<1>4. q \in RxCallState /\ q.pc = "trust" /\ q.msg = m
  BY <1>1, <1>3, RxKinds DEF RxCallState
<1>5. row \in RxRow /\ row.agent = a /\ row.reaction = r
  BY DEF RxRow
<1>6. counts => RxAuthor[m] \in Bots
  BY DEF AdjustsTrust
<1> HIDE DEF row, q, counts
<1>7. /\ rxCalls' \in [RxCalls -> RxCallState] /\ Quiet.pc = "idle"
      /\ \A d \in RxCalls : d # c => rxCalls'[d] = rxCalls[d]
      /\ rxCalls'[c] = IF counts THEN q ELSE Quiet
      /\ rxCalls'[c].pc \in {"idle", "trust"}
  <2>1. Quiet \in RxCallState /\ Quiet.pc = "idle"
    BY DEF RxCallState, Quiet
  <2>2. (IF counts THEN q ELSE Quiet) \in RxCallState /\ (IF counts THEN q ELSE Quiet).pc \in {"idle", "trust"}
    BY <1>4, <2>1
  <2> QED
    BY <1>3, <2>1, <2>2 DEF RxRows
<1>8. /\ rx' \in [RxMessages -> SUBSET RxRow]
      /\ rx'[m] = rx[m] \union {row} /\ \A n \in RxMessages : n # m => rx'[n] = rx[n]
  BY <1>3, <1>5 DEF RxRows
<1>9. /\ IsFiniteSet(rx'[m]) /\ Cardinality(rx'[m]) = Cardinality(rx[m]) + 1
      /\ Cardinality(rx[m]) \in Nat
  BY <1>3, <1>8, FS_AddElement, FS_CardinalityType DEF RxRows
<1>10. RxRows'
  <2>1. judged' \in [Bots -> Nat]
    BY <1>3, <1>6 DEF RxRows
  <2>2. \A d \in RxCalls : rxCalls'[d].pc = "trust" => RxAuthor[rxCalls'[d].msg] \in Bots
    BY <1>4, <1>6, <1>7 DEF RxRows
  <2>3. \A n \in RxMessages : IsFiniteSet(rx'[n])
    BY <1>8, <1>9 DEF RxRows
  <2> QED
    BY <1>3, <1>7, <1>8, <2>1, <2>2, <2>3 DEF RxRows
<1>11. /\ Judging(c, m)
       /\ \A d \in RxCalls, n \in RxMessages : Judging(d, n)' => d # c /\ Judging(d, n)
  BY <1>1, <1>3, <1>7 DEF Judging
<1>12. ~crowded[m] => /\ \A d \in RxCalls : ~Judging(d, m)'
                      /\ Cardinality(rx[m]) < MaxReactionsPerMessage
  BY <1>3, <1>11 DEF OneJudge
<1>13. OneJudge'
  <2> SUFFICES ASSUME NEW n \in RxMessages, ~crowded[n]
               PROVE  /\ \A d, e \in RxCalls : Judging(d, n)' /\ Judging(e, n)' => d = e
                      /\ \A d \in RxCalls : Judging(d, n)' /\ rxCalls'[d].pc = "insert"
                            => Cardinality(rx'[n]) < MaxReactionsPerMessage
                      /\ Cardinality(rx'[n]) <= MaxReactionsPerMessage
    BY <1>3 DEF OneJudge
  <2>1. CASE n = m
    BY <1>9, <1>12, <2>1, ReactionsAssumption
  <2>2. CASE n # m
    BY <1>7, <1>8, <1>11, <2>2 DEF OneJudge
  <2> QED
    BY <2>1, <2>2
<1>14. OneClaim'
  <2> SUFFICES ASSUME NEW n \in RxMessages, ~crowded[n]
               PROVE  /\ \A d \in RxCalls : Judging(d, n)' /\ rxCalls'[d].reaction = "in_progress"
                            => \A e \in rx'[n] : e.reaction = "in_progress" => e.agent = rxCalls'[d].agent
                      /\ \A e, f \in rx'[n] : e.reaction = "in_progress" /\ f.reaction = "in_progress" => e = f
    BY <1>3 DEF OneClaim
  <2>1. CASE n = m
    <3>1. ASSUME NEW e \in rx[m], e.reaction = "in_progress", row.reaction = "in_progress"
          PROVE  FALSE
      <4>1. e.agent = a
        BY <1>2, <1>5, <1>11, <2>1, <3>1 DEF OneClaim
      <4>2. e \in RxRow
        BY DEF RxRows
      <4>3. e = row
        BY <1>5, <3>1, <4>1, <4>2 DEF RxRow
      <4> QED
        BY <1>3, <4>3
    <3> QED
      BY <1>8, <1>12, <2>1, <3>1 DEF OneClaim
  <2>2. CASE n # m
    BY <1>7, <1>8, <1>11, <2>2 DEF OneClaim
  <2> QED
    BY <2>1, <2>2
<1>15. LimitWithCalls'
  <2> SUFFICES ASSUME NEW n \in RxMessages
               PROVE  Cardinality(rx'[n]) + Cardinality(Inserting(n)')
                        <= MaxReactionsPerMessage + Cardinality(RxCalls) - 1
    BY DEF LimitWithCalls
  <2>0. Cardinality(rx[n]) + Cardinality(Inserting(n)) <= MaxReactionsPerMessage + Cardinality(RxCalls) - 1
    BY DEF LimitWithCalls
  <2>1. CASE n = m
    <3>1. c \in Inserting(m) /\ Inserting(m)' = Inserting(m) \ {c}
      BY <1>1, <1>3, <1>7 DEF Inserting
    <3>2. IsFiniteSet(Inserting(m)) /\ Cardinality(Inserting(m)) \in Nat /\ Cardinality(RxCalls) \in Nat
      BY InsertingFinite
    <3>3. Cardinality(Inserting(m)') = Cardinality(Inserting(m)) - 1
      BY <3>1, <3>2, FS_RemoveElement
    <3> QED
      BY <1>9, <2>0, <2>1, <3>2, <3>3, ReactionsAssumption
  <2>2. CASE n # m
    <3>1. Inserting(n)' = Inserting(n)
      BY <1>1, <1>3, <1>7, <2>2 DEF Inserting
    <3> QED
      BY <1>8, <2>0, <2>2, <3>1
  <2> QED
    BY <2>1, <2>2
<1>16. EveryVerdictCounts'
  <2>1. CASE ~counts
    <3>1. \A b \in Bots : Owing(b)' = Owing(b)
      BY <1>3, <1>7, <2>1 DEF Owing
    <3> QED
      BY <1>3, <2>1, <3>1 DEF EveryVerdictCounts
  <2>2. CASE counts
    <3>1. PICK b \in Bots : b = RxAuthor[m]
      BY <1>6, <2>2
    <3>2. /\ c \notin Owing(b) /\ Owing(b)' = Owing(b) \union {c}
          /\ \A x \in Bots : x # b => Owing(x)' = Owing(x)
      BY <1>3, <1>4, <1>7, <2>2, <3>1 DEF Owing
    <3>3. IsFiniteSet(Owing(b)) /\ Cardinality(Owing(b)) \in Nat
      BY OwingFinite
    <3>4. Cardinality(Owing(b)') = Cardinality(Owing(b)) + 1
      BY <3>2, <3>3, FS_AddElement
    <3>5. judged'[b] = judged[b] + 1 /\ \A x \in Bots : x # b => judged'[x] = judged[x]
      BY <1>3, <2>2, <3>1 DEF RxRows
    <3>6. ASSUME NEW x \in Bots PROVE judged'[x] = trust[x].adjustments + Cardinality(Owing(x)') + dropped[x]
      <4>1. judged[x] = trust[x].adjustments + Cardinality(Owing(x)) + dropped[x]
        BY DEF EveryVerdictCounts
      <4>2. trust[x].adjustments \in Nat /\ dropped[x] \in Nat /\ Cardinality(Owing(x)) \in Nat
        BY OwingFinite DEF RxRows
      <4> QED
        BY <3>2, <3>4, <3>5, <4>1, <4>2
    <3> QED
      BY <1>3, <3>6 DEF EveryVerdictCounts
  <2> QED
    BY <2>1, <2>2
<1> QED
  BY <1>10, <1>13, <1>14, <1>15, <1>16

LEMMA ReactionsStepInv ==
  ASSUME ReactionsInv, [ReactionsNext]_rxVars
  PROVE  ReactionsInv'
<1>1. ASSUME UNCHANGED rxVars PROVE ReactionsInv'
  BY <1>1 DEF ReactionsInv, rxVars, RxRows, OneJudge, OneClaim, LimitWithCalls, EveryVerdictCounts,
              Inserting, Owing, Judging
<1>2. resolveAgentName \in Reactors
  BY ReactionsAssumption DEF resolveAgentName, Reactors
<1>3. ASSUME NEW c \in RxCalls,
             \/ CheckLimit(c) \/ InsertReaction(c) \/ DeleteReaction(c)
             \/ adjustTrustIfNeeded(c) \/ ToggleStops(c)
      PROVE  ReactionsInv'
  BY <1>3, LimitInv, InsertInv, DeleteInv, AdjustInv, StopsInv
<1>4. ASSUME NEW c \in RxCalls, NEW m \in RxMessages, NEW r \in Verdicts, RestToggle(c, m, r)
      PROVE  ReactionsInv'
  BY <1>2, <1>4, ToggleInv DEF RestToggle
<1>5. ASSUME NEW c \in RxCalls, NEW m \in RxMessages, NEW r \in Verdicts, NEW a \in Reactors, callReact(c, m, a, r)
      PROVE  ReactionsInv'
  BY <1>5, ToggleInv DEF callReact
<1>6. ASSUME NEW m \in RxMessages, NEW r \in Verdicts, RestRemove(m, r)
      PROVE  ReactionsInv'
  BY <1>6, RemoveInv DEF RestRemove
<1>7. ASSUME NEW m \in RxMessages, NEW r \in Verdicts, NEW a \in Reactors, callUnreact(m, a, r)
      PROVE  ReactionsInv'
  BY <1>7, RemoveInv DEF callUnreact
<1> QED
  BY <1>1, <1>3, <1>4, <1>5, <1>6, <1>7 DEF ReactionsNext

\* The reactions have a highest priority in either table, and no two have the
\* same: the state of a set of reactions is that of the highest.
LEMMA Tables ==
  /\ ValidReactions = {"approve", "in_progress", "reject", "awarded", "done", "published"}
  /\ DOMAIN reactionPriority = ValidReactions
  /\ DOMAIN EnrichedPriorities = ValidReactions \ {"awarded"}
  /\ reactionPriority["approve"] = 2 /\ reactionPriority["in_progress"] = 3 /\ reactionPriority["reject"] = 4
  /\ reactionPriority["awarded"] = 5 /\ reactionPriority["done"] = 6 /\ reactionPriority["published"] = 7
  /\ EnrichedPriorities["approve"] = 2 /\ EnrichedPriorities["in_progress"] = 3 /\ EnrichedPriorities["reject"] = 4
  /\ EnrichedPriorities["done"] = 5 /\ EnrichedPriorities["published"] = 6
  /\ reactionToState["approve"] = "approved" /\ reactionToState["in_progress"] = "in_progress"
  /\ reactionToState["reject"] = "rejected" /\ reactionToState["awarded"] = "awarded"
  /\ reactionToState["done"] = "done" /\ reactionToState["published"] = "published"
BY DEF ValidReactions, reactionPriority, EnrichedPriorities, reactionToState

LEMMA States ==
  /\ WorkflowStates = {"approved", "in_progress", "rejected", "awarded", "done", "published", "proposed"}
  /\ \A r \in ValidReactions : reactionToState[r] \in WorkflowStates \ {"proposed"}
<1>1. {reactionToState[r] : r \in ValidReactions}
        = {"approved", "in_progress", "rejected", "awarded", "done", "published"}
  BY Tables
<1> QED
  BY <1>1, Tables DEF WorkflowStates

\* A non-empty set of reactions has one of highest priority.
LEMMA Highest ==
  ASSUME NEW S, S \subseteq ValidReactions, S # {}
  PROVE  \E r \in S : \A p \in S : reactionPriority[p] <= reactionPriority[r]
<1>1. CASE "published" \in S
  BY <1>1, Tables
<1>2. CASE "published" \notin S /\ "done" \in S
  BY <1>2, Tables
<1>3. CASE "published" \notin S /\ "done" \notin S /\ "awarded" \in S
  BY <1>3, Tables
<1>4. CASE "published" \notin S /\ "done" \notin S /\ "awarded" \notin S /\ "reject" \in S
  BY <1>4, Tables
<1>5. CASE /\ "published" \notin S /\ "done" \notin S /\ "awarded" \notin S /\ "reject" \notin S
           /\ "in_progress" \in S
  BY <1>5, Tables
<1>6. CASE /\ "published" \notin S /\ "done" \notin S /\ "awarded" \notin S /\ "reject" \notin S
           /\ "in_progress" \notin S
  <2>1. \A p \in S : p = "approve"
    BY <1>6, Tables
  <2>2. PICK r \in S : TRUE
    OBVIOUS
  <2> QED
    BY <2>1, <2>2, Tables
<1> QED
  BY <1>1, <1>2, <1>3, <1>4, <1>5, <1>6

\* The other table orders them alike, but knows no awarded.
LEMMA SameOrder ==
  ASSUME NEW p \in ValidReactions \ {"awarded"}, NEW r \in ValidReactions \ {"awarded"}
  PROVE  EnrichedPriorities[p] <= EnrichedPriorities[r] <=> reactionPriority[p] <= reactionPriority[r]
BY Tables

LEMMA OneHighest ==
  ASSUME NEW p \in ValidReactions, NEW r \in ValidReactions,
         reactionPriority[p] <= reactionPriority[r], reactionPriority[r] <= reactionPriority[p]
  PROVE  p = r
BY Tables

Known(m) == {e.reaction : e \in rx[m]}

\* ComputeWorkflowState gives the state of the highest reaction there is.
LEMMA StateOf ==
  ASSUME RxRows, NEW m \in RxMessages
  PROVE  /\ Known(m) \subseteq ValidReactions
         /\ rx[m] = {} => Known(m) = {} /\ ComputeWorkflowState(rx[m]) = "proposed"
         /\ rx[m] # {} => \E r \in Known(m) :
               /\ \A p \in Known(m) : reactionPriority[p] <= reactionPriority[r]
               /\ ComputeWorkflowState(rx[m]) = reactionToState[r]
               /\ EnrichedState(m) = reactionToState[r] \/ "awarded" \in Known(m)
<1>1. Known(m) \subseteq ValidReactions
  BY ReactionsAssumption DEF RxRows, RxRow, Known
<1>2. Known(m) \intersect DOMAIN reactionPriority = Known(m)
  BY <1>1, Tables
<1>3. rx[m] = {} => Known(m) = {} /\ ComputeWorkflowState(rx[m]) = "proposed"
  BY DEF Known, ComputeWorkflowState, HighestState
<1>4. ASSUME rx[m] # {}
      PROVE  \E r \in Known(m) :
               /\ \A p \in Known(m) : reactionPriority[p] <= reactionPriority[r]
               /\ ComputeWorkflowState(rx[m]) = reactionToState[r]
               /\ EnrichedState(m) = reactionToState[r] \/ "awarded" \in Known(m)
  <2>1. Known(m) # {}
    BY <1>4 DEF Known
  <2> DEFINE r == CHOOSE x \in Known(m) : \A p \in Known(m) : reactionPriority[p] <= reactionPriority[x]
  <2>2. r \in Known(m) /\ \A p \in Known(m) : reactionPriority[p] <= reactionPriority[r]
    BY <1>1, <2>1, Highest
  <2>3. ComputeWorkflowState(rx[m]) = reactionToState[r]
    BY <1>2, <2>1 DEF ComputeWorkflowState, HighestState, Known
  <2>4. ASSUME "awarded" \notin Known(m) PROVE EnrichedState(m) = reactionToState[r]
    <3>1. Known(m) \intersect DOMAIN EnrichedPriorities = Known(m)
      BY <1>1, <2>4, Tables
    <3> DEFINE t == CHOOSE x \in Known(m) : \A p \in Known(m) : EnrichedPriorities[p] <= EnrichedPriorities[x]
    <3>2. EnrichedState(m) = reactionToState[t]
      BY <2>1, <3>1 DEF EnrichedState, HighestState, Known
    <3>3. \A p \in Known(m) : EnrichedPriorities[p] <= EnrichedPriorities[r]
      BY <1>1, <2>2, <2>4, SameOrder
    <3>4. t \in Known(m) /\ \A p \in Known(m) : EnrichedPriorities[p] <= EnrichedPriorities[t]
      BY <2>2, <3>3
    <3>5. reactionPriority[r] <= reactionPriority[t]
      BY <1>1, <2>2, <2>4, <3>4, SameOrder
    <3>6. t = r
      BY <1>1, <2>2, <3>4, <3>5, OneHighest
    <3> QED
      BY <3>2, <3>6
  <2> HIDE DEF r
  <2> QED
    BY <2>2, <2>3, <2>4
<1> QED
  BY <1>1, <1>3, <1>4

LEMMA ReactionsInvSafe == ReactionsInv => ReactionsSafe
<1> SUFFICES ASSUME ReactionsInv PROVE ReactionsSafe
  OBVIOUS
<1> USE DEF ReactionsInv
<1>1. ReactionsTypeOK
  BY ReactionsAssumption DEF RxRows, RxRow, ReactionsTypeOK
<1>2. ClaimExclusive
  <2> SUFFICES ASSUME NEW m \in RxMessages
               PROVE  /\ ~crowded[m] => Cardinality({e \in rx[m] : e.reaction = "in_progress"}) <= 1
                      /\ ~crowded[m] => CountByMessage(m) <= MaxReactionsPerMessage
                      /\ CountByMessage(m) <= MaxReactionsPerMessage + Cardinality(RxCalls) - 1
    BY DEF ClaimExclusive
  <2> DEFINE claims == {e \in rx[m] : e.reaction = "in_progress"}
  <2>1. ASSUME ~crowded[m] PROVE Cardinality(claims) <= 1
    <3>1. CASE claims = {}
      <4>1. Cardinality(claims) = 0
        BY <3>1, FS_EmptySet
      <4> QED
        BY <4>1
    <3>2. CASE claims # {}
      <4>1. PICK e : claims = {e}
        <5>1. PICK e \in claims : TRUE
          BY <3>2
        <5>2. \A f \in claims : f = e
          BY <2>1, <5>1 DEF OneClaim
        <5>3. claims = {e}
          BY <5>1, <5>2
        <5> QED
          BY <5>3
      <4>2. Cardinality(claims) = 1
        BY <4>1, FS_Singleton
      <4> QED
        BY <4>2
    <3> QED
      BY <3>1, <3>2
  <2>2. ~crowded[m] => CountByMessage(m) <= MaxReactionsPerMessage
    BY DEF OneJudge, CountByMessage
  <2>3. Cardinality(rx[m]) + Cardinality(Inserting(m)) <= MaxReactionsPerMessage + Cardinality(RxCalls) - 1
    BY DEF LimitWithCalls
  <2>4. Cardinality(rx[m]) \in Nat /\ Cardinality(Inserting(m)) \in Nat /\ Cardinality(RxCalls) \in Nat
    BY InsertingFinite, FS_CardinalityType DEF RxRows
  <2>5. CountByMessage(m) <= MaxReactionsPerMessage + Cardinality(RxCalls) - 1
    BY <2>3, <2>4, ReactionsAssumption DEF CountByMessage
  <2> QED
    BY <2>1, <2>2, <2>5
<1>3. StatesPartition
  <2> SUFFICES ASSUME NEW m \in RxMessages
               PROVE  {s \in WorkflowStates : m \in callListByState(s)} = {callGetReactions(m).state}
    BY DEF StatesPartition, RestGetReactions, callGetReactions
  <2>1. callGetReactions(m).state = ComputeWorkflowState(rx[m])
    BY DEF callGetReactions, GetReactions
  <2>2. ComputeWorkflowState(rx[m]) \in WorkflowStates
    BY StateOf, States
  <2>3. ComputeWorkflowState(rx[m]) = "proposed" <=> rx[m] = {}
    BY StateOf, States
  <2>4. ASSUME NEW s \in WorkflowStates
        PROVE  m \in callListByState(s) <=> s = ComputeWorkflowState(rx[m])
    <3>1. CASE s = "proposed"
      BY <2>3, <3>1 DEF callListByState, ListByState, GetMessageIDsByState
    <3>2. CASE s # "proposed"
      <4>1. m \in callListByState(s) <=>
              ComputeWorkflowState(rx[m]) = s /\ \E e \in rx[m] : reactionToState[e.reaction] = s
        BY <3>2 DEF callListByState, ListByState, GetMessageIDsByState
      <4>2. ASSUME ComputeWorkflowState(rx[m]) = s PROVE \E e \in rx[m] : reactionToState[e.reaction] = s
        BY <2>3, <3>2, <4>2, StateOf DEF Known
      <4> QED
        BY <4>1, <4>2
    <3> QED
      BY <3>1, <3>2
  <2> QED
    BY <2>1, <2>2, <2>4
<1>4. EnrichmentAgrees
  <2> SUFFICES ASSUME NEW m \in RxMessages, ~ \E e \in rx[m] : e.reaction = "awarded"
               PROVE  EnrichedState(m) = ComputeWorkflowState(rx[m])
    BY DEF EnrichmentAgrees, callGetReactions, GetReactions
  <2>1. CASE rx[m] = {}
    BY <2>1 DEF EnrichedState, ComputeWorkflowState, HighestState
  <2>2. CASE rx[m] # {}
    <3>1. "awarded" \notin Known(m)
      BY DEF Known
    <3> QED
      BY <2>2, <3>1, StateOf
  <2> QED
    BY <2>1, <2>2
<1>5. TrustCountsVerdicts
  BY DEF EveryVerdictCounts, TrustCountsVerdicts, Owing
<1> QED
  BY <1>1, <1>2, <1>3, <1>4, <1>5 DEF ReactionsSafe

\* Toggle and what is built on it, for any number of agents, messages and
\* concurrent calls: one claim per message and the limit kept unless two calls
\* judged a message at once, every message under the one state shown with it,
\* and a step of trust for every verdict of a person.
THEOREM ReactionsCorrect == ReactionsSpec => []ReactionsSafe
<1>1. ReactionsInit => ReactionsInv
  BY ReactionsInitInv
<1>2. ReactionsInv /\ [ReactionsNext]_rxVars => ReactionsInv'
  BY ReactionsStepInv
<1>3. ReactionsInv => ReactionsSafe
  BY ReactionsInvSafe
<1> QED
  BY <1>1, <1>2, <1>3, PTL DEF ReactionsSpec

-----------------------------------------------------------------------------
(* Attachments, their files and their collection.                          *)

AttRow == [id : 1..MaxAttachments, hash : Hashes, msg : AttMessages \union {NoMessage}]

UploadState == [pc : {"idle"}]
               \union [pc : {"row", "link"}, hash : Hashes, msg : AttMessages \union {NoMessage}]

AttTables ==
  /\ files \subseteq [dir : {"ab/cd", "ab"}, hash : Hashes]
  /\ attRows \subseteq AttRow /\ IsFiniteSet(attRows)
  /\ \A r, s \in attRows : r.id = s.id => r = s
  /\ attMsgs \in [AttMessages -> {"absent", "live", "gone"}]
  /\ uploads \in [Uploaders -> UploadState]
  /\ gc \in [pc : {"idle", "file", "rows"}, orphans : SUBSET Hashes, hash : Hashes \union {"none"}]
  /\ cleaning \in [Cleaners -> SUBSET Hashes]

\* An upload or a link that is under way has its file, and no collection has
\* selected it; what a collection has selected, no live message refers to; and
\* what a live message refers to has its file.  Each but for what was disturbed.
UnderWay ==
  \A u \in Uploaders : uploads[u].pc # "idle" /\ uploads[u].hash \notin disturbed
    => Read(uploads[u].hash) /\ uploads[u].hash \notin Selected

SelectedUnused ==
  \A r \in attRows : r.hash \in Selected /\ r.hash \notin disturbed => ~IsLive(r.msg)

LinkedRead ==
  \A r \in attRows : IsLive(r.msg) /\ r.hash \notin disturbed => Read(r.hash)

AttachmentsInv == AttTables /\ RowsFollowMessages /\ UnderWay /\ SelectedUnused /\ LinkedRead

LEMMA UploadKinds ==
  ASSUME AttTables, NEW u \in Uploaders
  PROVE  /\ uploads[u].pc = "idle" <=> uploads[u] = NoUpload
         /\ uploads[u].pc # "idle" => /\ uploads[u].hash \in Hashes
                                      /\ uploads[u].msg \in AttMessages \union {NoMessage}
                                      /\ uploads[u].pc \in {"row", "link"}
<1>1. uploads[u] \in UploadState
  BY DEF AttTables
<1> QED
  BY <1>1 DEF UploadState, NoUpload

LEMMA NoUploadState == NoUpload \in UploadState /\ NoUpload.pc = "idle"
BY DEF UploadState, NoUpload

LEMMA AttachmentsInitInv == AttachmentsInit => AttachmentsInv
<1> SUFFICES ASSUME AttachmentsInit PROVE AttachmentsInv
  OBVIOUS
<1>1. AttTables
  BY NoUploadState, FS_EmptySet DEF AttachmentsInit, AttTables, NoGC
<1>2. RowsFollowMessages /\ SelectedUnused /\ LinkedRead
  BY DEF AttachmentsInit, RowsFollowMessages, SelectedUnused, LinkedRead
<1>3. UnderWay
  BY NoUploadState DEF AttachmentsInit, UnderWay
<1> QED
  BY <1>1, <1>2, <1>3 DEF AttachmentsInv

\* Steps that add no row, revive no message, lose no file of the store and
\* select nothing.
LEMMA AttachmentsShrink ==
  ASSUME AttachmentsInv, AttTables',
         attRows' \subseteq attRows, disturbed \subseteq disturbed',
         \A h \in Hashes : Read(h) => Read(h)',
         Selected' \subseteq Selected,
         \A u \in Uploaders : uploads'[u] = uploads[u] \/ uploads'[u].pc = "idle",
         \A r \in attRows' : r.msg # NoMessage => (IsLive(r.msg)' <=> IsLive(r.msg))
  PROVE  AttachmentsInv'
<1> USE DEF AttachmentsInv
<1>1. \A r \in attRows' : r \in attRows /\ r.hash \in Hashes /\ (IsLive(r.msg)' <=> IsLive(r.msg))
  BY DEF AttTables, AttRow, IsLive
<1>2. RowsFollowMessages'
  <2>1. \A r \in attRows' : r.msg # NoMessage => IsLive(r.msg)
    BY <1>1 DEF RowsFollowMessages, IsLive
  <2> QED
    BY <1>1, <2>1 DEF RowsFollowMessages, IsLive
<1>3. UnderWay'
  BY UploadKinds DEF UnderWay
<1>4. SelectedUnused' /\ LinkedRead'
  BY <1>1 DEF SelectedUnused, LinkedRead
<1> QED
  BY <1>2, <1>3, <1>4

\* A file of the store is written, and its upload is under way.
LEMMA UploadInv ==
  ASSUME AttachmentsInv, NEW u \in Uploaders, NEW h \in Hashes, NEW m \in AttMessages \union {NoMessage},
         Upload(u, h, m)
  PROVE  AttachmentsInv'
<1> USE DEF AttachmentsInv
<1> DEFINE q == [pc |-> "row", hash |-> h, msg |-> m]
<1>1. q \in UploadState /\ q.pc = "row" /\ q.hash = h
  BY DEF UploadState
<1>2. /\ files' = files \union {shardPath(h)} /\ uploads' = [uploads EXCEPT ![u] = q]
      /\ disturbed' = IF h \in Selected \/ HalfCollected(h) THEN disturbed \union {h} ELSE disturbed
      /\ attRows' = attRows /\ attMsgs' = attMsgs /\ gc' = gc /\ cleaning' = cleaning
  BY DEF Upload, Write, Disturb
<1> HIDE DEF q
<1>3. shardPath(h) \in [dir : {"ab/cd", "ab"}, hash : Hashes]
  BY DEF shardPath
<1>4. AttTables'
  BY <1>1, <1>2, <1>3 DEF AttTables
<1>5. Selected' = Selected /\ Read(h)' /\ \A k : Read(k) => Read(k)'
  BY <1>2 DEF Selected, Read
<1>6. \A k : IsLive(k)' <=> IsLive(k)
  BY <1>2 DEF IsLive
<1>7. UnderWay'
  <2> SUFFICES ASSUME NEW v \in Uploaders, uploads'[v].pc # "idle", uploads'[v].hash \notin disturbed'
               PROVE  shardPath(uploads'[v].hash) \in files' /\ uploads'[v].hash \notin Selected
    BY <1>5 DEF UnderWay, Read
  <2>1. CASE v = u
    <3>1. uploads'[v].hash = h
      BY <1>1, <1>2, <2>1 DEF AttTables
    <3> QED
      BY <1>2, <1>5, <3>1 DEF Read
  <2>2. CASE v # u
    <3>1. uploads'[v] = uploads[v]
      BY <1>2, <2>2 DEF AttTables
    <3> QED
      BY <1>2, <1>5, <3>1 DEF UnderWay, Read
  <2> QED
    BY <2>1, <2>2
<1>8. RowsFollowMessages'
  BY <1>2 DEF RowsFollowMessages
<1>9. SelectedUnused' /\ LinkedRead'
  BY <1>2, <1>5, <1>6 DEF SelectedUnused, LinkedRead
<1> QED
  BY <1>4, <1>7, <1>8, <1>9

LEMMA AttachInv ==
  ASSUME AttachmentsInv, NEW u \in Uploaders, NEW h \in Hashes, NEW m \in AttMessages,
         AttachToMessage(u, h, m)
  PROVE  AttachmentsInv'
<1> USE DEF AttachmentsInv
<1> DEFINE q == [pc |-> "link", hash |-> h, msg |-> m]
<1>1. q \in UploadState /\ q.pc = "link" /\ q.hash = h
  BY DEF UploadState
<1>2. /\ uploads' = [uploads EXCEPT ![u] = q] /\ GetByHash(h) # {}
      /\ disturbed' = IF h \in Selected \/ HalfCollected(h) THEN disturbed \union {h} ELSE disturbed
      /\ attRows' = attRows /\ attMsgs' = attMsgs /\ gc' = gc /\ cleaning' = cleaning /\ files' = files
  BY DEF AttachToMessage, Disturb
<1> HIDE DEF q
<1>4. AttTables'
  BY <1>1, <1>2 DEF AttTables
<1>5. Selected' = Selected /\ \A k : Read(k) <=> Read(k)'
  BY <1>2 DEF Selected, Read
<1>6. \A k : IsLive(k)' <=> IsLive(k)
  BY <1>2 DEF IsLive
<1>7. UnderWay'
  <2> SUFFICES ASSUME NEW v \in Uploaders, uploads'[v].pc # "idle", uploads'[v].hash \notin disturbed'
               PROVE  Read(uploads'[v].hash) /\ uploads'[v].hash \notin Selected
    BY <1>5 DEF UnderWay
  <2>1. CASE v = u
    <3>1. uploads'[v].hash = h
      BY <1>1, <1>2, <2>1 DEF AttTables
    <3> QED
      BY <1>2, <3>1 DEF HalfCollected
  <2>2. CASE v # u
    <3>1. uploads'[v] = uploads[v]
      BY <1>2, <2>2 DEF AttTables
    <3> QED
      BY <1>2, <3>1 DEF UnderWay
  <2> QED
    BY <2>1, <2>2
<1>8. RowsFollowMessages'
  BY <1>2 DEF RowsFollowMessages
<1>9. SelectedUnused' /\ LinkedRead'
  BY <1>2, <1>5, <1>6 DEF SelectedUnused, LinkedRead
<1> QED
  BY <1>4, <1>7, <1>8, <1>9

\* While fewer rows exist than ids, an id is free.
LEMMA FreshIsFree ==
  ASSUME AttTables, Cardinality(attRows) < MaxAttachments
  PROVE  FreshId \in 1..MaxAttachments /\ \A r \in attRows : r.id # FreshId
<1> DEFINE ids == {r.id : r \in attRows}
           f == [r \in attRows |-> r.id]
<1>1. f \in Surjection(attRows, ids)
  BY DEF Surjection
<1>2. IsFiniteSet(ids) /\ Cardinality(ids) <= Cardinality(attRows)
  BY <1>1, FS_Surjection DEF AttTables
<1>3. Cardinality(1..MaxAttachments) = MaxAttachments
  BY FS_Interval, AttachmentsAssumption
<1>4. ~(1..MaxAttachments \subseteq ids)
  <2> SUFFICES ASSUME 1..MaxAttachments \subseteq ids PROVE FALSE
    OBVIOUS
  <2>1. Cardinality(1..MaxAttachments) <= Cardinality(ids)
    BY <1>2, FS_Subset
  <2>2. Cardinality(attRows) \in Nat /\ Cardinality(ids) \in Nat
    BY <1>2, FS_CardinalityType DEF AttTables
  <2> QED
    BY <1>2, <1>3, <2>1, <2>2, AttachmentsAssumption
<1>5. \E i \in 1..MaxAttachments : \A r \in attRows : r.id # i
  BY <1>4
<1> QED
  BY <1>5 DEF FreshId

\* The row is stored: for a live message it has its file, unless disturbed.
LEMMA InsertRowInv ==
  ASSUME AttachmentsInv, NEW u \in Uploaders, InsertRow(u)
  PROVE  AttachmentsInv'
<1> USE DEF AttachmentsInv
<1>1. PICK h \in Hashes, m \in AttMessages \union {NoMessage} : h = uploads[u].hash /\ m = uploads[u].msg
  BY UploadKinds DEF InsertRow
<1> DEFINE row == [id |-> FreshId, hash |-> h, msg |-> m]
           ok == m = NoMessage \/ IsLive(m)
<1>2. /\ uploads[u].pc \in {"row", "link"} /\ Cardinality(attRows) < MaxAttachments
      /\ attRows' = IF ok THEN attRows \union {row} ELSE attRows
      /\ uploads' = [uploads EXCEPT ![u] = NoUpload]
      /\ disturbed' = IF h \in Selected \/ HalfCollected(h) THEN disturbed \union {h} ELSE disturbed
      /\ files' = files /\ attMsgs' = attMsgs /\ gc' = gc /\ cleaning' = cleaning
  BY <1>1 DEF InsertRow, InsertMetadata, Disturb
<1>3. /\ row \in AttRow /\ row.hash = h /\ row.msg = m /\ row.id = FreshId
      /\ \A r \in attRows : r.id # FreshId
  BY <1>2, FreshIsFree DEF AttRow
<1> HIDE DEF row
<1>4. AttTables'
  <2>1. IsFiniteSet(attRows')
    BY <1>2, FS_AddElement DEF AttTables
  <2>2. attRows' \subseteq AttRow /\ \A r, s \in attRows' : r.id = s.id => r = s
    BY <1>2, <1>3 DEF AttTables
  <2>3. uploads' \in [Uploaders -> UploadState]
    BY <1>2, NoUploadState DEF AttTables
  <2> QED
    BY <1>2, <2>1, <2>2, <2>3 DEF AttTables
<1>5. Selected' = Selected /\ \A k : Read(k) <=> Read(k)'
  BY <1>2 DEF Selected, Read
<1>6. \A k : IsLive(k)' <=> IsLive(k)
  BY <1>2 DEF IsLive
<1>7. UnderWay'
  <2>1. \A v \in Uploaders : uploads'[v] = uploads[v] \/ uploads'[v].pc = "idle"
    BY <1>2, NoUploadState DEF AttTables
  <2> QED
    BY <1>2, <1>5, <2>1 DEF UnderWay
<1>8. RowsFollowMessages'
  BY <1>2, <1>3 DEF RowsFollowMessages, IsLive
<1>9. h \notin disturbed' => Read(h) /\ h \notin Selected
  BY <1>1, <1>2 DEF UnderWay
<1>10. SelectedUnused' /\ LinkedRead'
  <2> SUFFICES ASSUME NEW r \in attRows', r.hash \notin disturbed'
               PROVE  /\ r.hash \in Selected => ~IsLive(r.msg)
                      /\ IsLive(r.msg) => Read(r.hash)
    BY <1>5, <1>6 DEF SelectedUnused, LinkedRead
  <2>1. CASE r \in attRows
    BY <1>2, <2>1 DEF SelectedUnused, LinkedRead
  <2>2. CASE r = row
    BY <1>3, <1>9, <2>2
  <2> QED
    BY <1>2, <2>1, <2>2
<1> QED
  BY <1>4, <1>7, <1>8, <1>10

\* A collection selects hashes no live message refers to.
LEMMA CollectInv ==
  ASSUME AttachmentsInv, handleAttachmentsGC
  PROVE  AttachmentsInv'
<1> USE DEF AttachmentsInv
<1> DEFINE new == [pc |-> "file", orphans |-> FindOrphanHashes, hash |-> "none"]
<1>1. /\ gc' = new
      /\ disturbed' = disturbed \union
            {h \in FindOrphanHashes : \E u \in Uploaders : uploads[u] # NoUpload /\ uploads[u].hash = h}
      /\ files' = files /\ attRows' = attRows /\ attMsgs' = attMsgs /\ uploads' = uploads /\ cleaning' = cleaning
  BY DEF handleAttachmentsGC, GarbageCollect
<1>2. /\ new \in [pc : {"idle", "file", "rows"}, orphans : SUBSET Hashes, hash : Hashes \union {"none"}]
      /\ new.orphans = FindOrphanHashes /\ new.hash = "none"
  BY DEF FindOrphanHashes
<1> HIDE DEF new
<1>3. AttTables'
  BY <1>1, <1>2 DEF AttTables
<1>4. Selected' = FindOrphanHashes
  BY <1>1, <1>2 DEF Selected
<1>5. (\A k : Read(k)' <=> Read(k)) /\ (\A k : IsLive(k)' <=> IsLive(k))
  BY <1>1 DEF Read, IsLive
<1>6. UnderWay'
  BY <1>1, <1>4, <1>5, UploadKinds DEF UnderWay
<1>7. RowsFollowMessages'
  BY <1>1 DEF RowsFollowMessages
<1>8. SelectedUnused'
  <2>1. \A r \in attRows : r.hash \in FindOrphanHashes => ~IsLive(r.msg)
    BY DEF FindOrphanHashes, GetByHash
  <2> QED
    BY <1>1, <1>4, <1>5, <2>1 DEF SelectedUnused
<1>9. LinkedRead'
  BY <1>1, <1>5 DEF LinkedRead
<1> QED
  BY <1>3, <1>6, <1>7, <1>8, <1>9

\* ... and their files go: nobody who is not disturbed needs them.
LEMMA OrphanFileInv ==
  ASSUME AttachmentsInv, NEW h \in Hashes, DeleteOrphanFile(h)
  PROVE  AttachmentsInv'
<1> USE DEF AttachmentsInv
<1> DEFINE new == [pc |-> "rows", orphans |-> gc.orphans \ {h}, hash |-> h]
<1>1. /\ gc' = new /\ h \in gc.orphans /\ files' = files \ {shardPath(h)}
      /\ disturbed' = disturbed
      /\ attRows' = attRows /\ attMsgs' = attMsgs /\ uploads' = uploads /\ cleaning' = cleaning
  BY DEF DeleteOrphanFile, Delete
<1>2. /\ new \in [pc : {"idle", "file", "rows"}, orphans : SUBSET Hashes, hash : Hashes \union {"none"}]
      /\ new.orphans = gc.orphans \ {h} /\ new.hash = h
  BY DEF AttTables
<1> HIDE DEF new
<1>3. AttTables'
  BY <1>1, <1>2 DEF AttTables
<1>4. Selected' \subseteq Selected /\ h \in Selected
  BY <1>1, <1>2 DEF Selected
<1>5. (\A k : k # h => (Read(k)' <=> Read(k))) /\ (\A k : IsLive(k)' <=> IsLive(k))
  BY <1>1 DEF Read, IsLive, shardPath
<1>6. UnderWay'
  BY <1>1, <1>4, <1>5 DEF UnderWay
<1>7. RowsFollowMessages'
  BY <1>1 DEF RowsFollowMessages
<1>8. SelectedUnused' /\ LinkedRead'
  BY <1>1, <1>4, <1>5 DEF SelectedUnused, LinkedRead
<1> QED
  BY <1>3, <1>6, <1>7, <1>8

LEMMA OrphanRowsInv ==
  ASSUME AttachmentsInv, DeleteOrphanRows
  PROVE  AttachmentsInv'
<1> USE DEF AttachmentsInv
<1>1. /\ attRows' \subseteq attRows
      /\ gc' = NoGC \/ gc' = [gc EXCEPT !.pc = "file", !.hash = "none"]
      /\ disturbed' = disturbed
      /\ files' = files /\ attMsgs' = attMsgs /\ uploads' = uploads /\ cleaning' = cleaning
  BY DEF DeleteOrphanRows, DeleteByHash
<1>2. /\ gc' \in [pc : {"idle", "file", "rows"}, orphans : SUBSET Hashes, hash : Hashes \union {"none"}]
      /\ gc'.orphans \subseteq gc.orphans /\ gc'.hash = "none"
  <2>1. CASE gc' = NoGC
    BY <2>1 DEF NoGC, AttTables
  <2>2. CASE gc' = [gc EXCEPT !.pc = "file", !.hash = "none"]
    <3>1. gc' = [pc |-> "file", orphans |-> gc.orphans, hash |-> "none"] /\ gc.orphans \subseteq Hashes
      BY <2>2 DEF AttTables
    <3> QED
      BY <3>1
  <2> QED
    BY <1>1, <2>1, <2>2
<1>3. AttTables'
  <2>1. IsFiniteSet(attRows')
    BY <1>1, FS_Subset DEF AttTables
  <2> QED
    BY <1>1, <1>2, <2>1 DEF AttTables
<1>4. Selected' \subseteq Selected
  BY <1>2 DEF Selected
<1>5. (\A k : Read(k)' <=> Read(k)) /\ (\A k : IsLive(k)' <=> IsLive(k))
  BY <1>1 DEF Read, IsLive
<1> QED
  BY <1>1, <1>3, <1>4, <1>5, AttachmentsShrink

LEMMA MessageSentInv ==
  ASSUME AttachmentsInv, NEW m \in AttMessages, MessageSent(m)
  PROVE  AttachmentsInv'
<1> USE DEF AttachmentsInv
<1>1. /\ attMsgs[m] = "absent" /\ attMsgs' = [attMsgs EXCEPT ![m] = "live"]
      /\ disturbed' = disturbed /\ attRows' = attRows /\ gc' = gc
      /\ files' = files /\ uploads' = uploads /\ cleaning' = cleaning
  BY DEF MessageSent
<1>2. AttTables'
  BY <1>1 DEF AttTables
<1>3. \A r \in attRows : r.msg # NoMessage => (IsLive(r.msg)' <=> IsLive(r.msg))
  <2> SUFFICES ASSUME NEW r \in attRows, r.msg # NoMessage PROVE IsLive(r.msg)' <=> IsLive(r.msg)
    OBVIOUS
  <2>1. attMsgs[r.msg] = "live" /\ r.msg \in AttMessages
    BY DEF RowsFollowMessages, AttTables, AttRow
  <2> QED
    BY <1>1, <2>1 DEF IsLive, AttTables
<1>4. Selected' = Selected /\ \A k : Read(k)' <=> Read(k)
  BY <1>1 DEF Read, Selected
<1> QED
  BY <1>1, <1>2, <1>3, <1>4, AttachmentsShrink

\* The rows go in the transaction of their message.
LEMMA BatchInv ==
  ASSUME AttachmentsInv, NEW k \in Cleaners, NEW m \in AttMessages, deleteBatch(k, m)
  PROVE  AttachmentsInv'
<1> USE DEF AttachmentsInv
<1> DEFINE hs == {r.hash : r \in GetByMessageID(m)}
<1>1. /\ attMsgs' = [attMsgs EXCEPT ![m] = "gone"]
      /\ attRows' = attRows \ GetByMessageID(m) /\ cleaning' = [cleaning EXCEPT ![k] = hs]
      /\ disturbed' = disturbed /\ gc' = gc /\ files' = files /\ uploads' = uploads
  BY DEF deleteBatch
<1>2. hs \subseteq Hashes
  BY DEF AttTables, AttRow, GetByMessageID
<1> HIDE DEF hs
<1>3. AttTables'
  <2>1. IsFiniteSet(attRows')
    BY <1>1, FS_Subset DEF AttTables
  <2> QED
    BY <1>1, <1>2, <2>1 DEF AttTables
<1>4. \A r \in attRows' : r.msg # NoMessage => (IsLive(r.msg)' <=> IsLive(r.msg))
  <2> SUFFICES ASSUME NEW r \in attRows', r.msg # NoMessage PROVE IsLive(r.msg)' <=> IsLive(r.msg)
    OBVIOUS
  <2>1. r.msg \in AttMessages /\ r.msg # m
    BY <1>1 DEF GetByMessageID, AttTables, AttRow
  <2> QED
    BY <1>1, <2>1 DEF IsLive, AttTables
<1>5. Selected' = Selected /\ \A h : Read(h)' <=> Read(h)
  BY <1>1 DEF Read, Selected
<1> QED
  BY <1>1, <1>3, <1>4, <1>5, AttachmentsShrink

\* What a clean-up removes is never a file of the store.
LEMMA CleanupFilesInv ==
  ASSUME AttachmentsInv, NEW k \in Cleaners, NEW h \in Hashes, cleanupAttachmentFiles(k, h)
  PROVE  AttachmentsInv'
<1> USE DEF AttachmentsInv
<1>1. /\ files' = files \ {cleanupPath(h)} \/ files' = files
      /\ cleaning' = [cleaning EXCEPT ![k] = cleaning[k] \ {h}]
      /\ attMsgs' = attMsgs /\ attRows' = attRows
      /\ disturbed' = disturbed /\ gc' = gc /\ uploads' = uploads
  BY DEF cleanupAttachmentFiles
<1>2. AttTables'
  BY <1>1 DEF AttTables
<1>3. \A g : shardPath(g) # cleanupPath(h)
  BY DEF shardPath, cleanupPath
<1>4. Selected' = Selected /\ (\A g : Read(g)' <=> Read(g)) /\ (\A g : IsLive(g)' <=> IsLive(g))
  BY <1>1, <1>3 DEF Read, Selected, IsLive
<1> QED
  BY <1>1, <1>2, <1>4, AttachmentsShrink

LEMMA AttachmentsCrashInv ==
  ASSUME AttachmentsInv, AttachmentsCrash
  PROVE  AttachmentsInv'
<1> USE DEF AttachmentsInv
<1>1. /\ uploads' = [u \in Uploaders |-> NoUpload] /\ gc' = NoGC /\ cleaning' = [k \in Cleaners |-> {}]
      /\ files' = files /\ attMsgs' = attMsgs /\ attRows' = attRows /\ disturbed' = disturbed
  BY DEF AttachmentsCrash
<1>2. AttTables'
  BY <1>1, NoUploadState DEF AttTables, NoGC
<1>3. Selected' = {}
  BY <1>1 DEF Selected, NoGC
<1>4. (\A g : Read(g)' <=> Read(g)) /\ (\A g : IsLive(g)' <=> IsLive(g))
  BY <1>1 DEF Read, IsLive
<1>5. \A u \in Uploaders : uploads'[u].pc = "idle"
  BY <1>1, NoUploadState
<1> QED
  BY <1>1, <1>2, <1>3, <1>4, <1>5, AttachmentsShrink

LEMMA AttachmentsStepInv ==
  ASSUME AttachmentsInv, [AttachmentsNext]_atVars
  PROVE  AttachmentsInv'
<1>1. ASSUME UNCHANGED atVars PROVE AttachmentsInv'
  BY <1>1 DEF AttachmentsInv, atVars, AttTables, RowsFollowMessages, UnderWay, SelectedUnused, LinkedRead,
              Read, Selected, IsLive
<1>2. ASSUME NEW u \in Uploaders, NEW h \in Hashes, RestUpload(u, h) PROVE AttachmentsInv'
  BY <1>2, UploadInv DEF RestUpload
<1>3. ASSUME NEW u \in Uploaders, NEW h \in Hashes, NEW m \in AttMessages,
             callUploadAttachment(u, h, m) \/ AttachToMessage(u, h, m)
      PROVE  AttachmentsInv'
  BY <1>3, UploadInv, AttachInv DEF callUploadAttachment
<1> QED
  BY <1>1, <1>2, <1>3, InsertRowInv, CollectInv, OrphanRowsInv, AttachmentsCrashInv, OrphanFileInv,
     MessageSentInv, BatchInv, CleanupFilesInv
  DEF AttachmentsNext

LEMMA AttachmentsInvSafe == AttachmentsInv => AttachmentsSafe
<1> SUFFICES ASSUME AttachmentsInv PROVE AttachmentsSafe
  OBVIOUS
<1> USE DEF AttachmentsInv
<1>1. AttachmentsTypeOK
  BY DEF AttTables, AttRow, AttachmentsTypeOK
<1>2. LinkedIsThere
  BY DEF LinkedRead, LinkedIsThere, callDownloadAttachment, Download, GetByHash
<1>3. MissingIsCollectable
  <2> SUFFICES ASSUME NEW r \in attRows, r.hash \notin disturbed, ~Read(r.hash)
               PROVE  r.hash \in FindOrphanHashes
    BY DEF MissingIsCollectable
  <2>1. r.hash \in Hashes /\ r \in GetByHash(r.hash)
    BY DEF AttTables, AttRow, GetByHash
  <2>2. \A s \in GetByHash(r.hash) : ~IsLive(s.msg)
    BY DEF GetByHash, LinkedRead
  <2> QED
    BY <2>1, <2>2 DEF FindOrphanHashes
<1> QED
  BY <1>1, <1>2, <1>3 DEF AttachmentsSafe

\* Uploads, links, collections, clean-ups and crashes, in any number and any
\* interleaving: what a live message refers to can be downloaded unless a
\* collection had it, a row without its file is left to the next collection,
\* and rows go with their message.
THEOREM AttachmentsCorrect == AttachmentsSpec => []AttachmentsSafe
<1>1. AttachmentsInit => AttachmentsInv
  BY AttachmentsInitInv
<1>2. AttachmentsInv /\ [AttachmentsNext]_atVars => AttachmentsInv'
  BY AttachmentsStepInv
<1>3. AttachmentsInv => AttachmentsSafe
  BY AttachmentsInvSafe
<1> QED
  BY <1>1, <1>2, <1>3, PTL DEF AttachmentsSpec

-----------------------------------------------------------------------------
(* The retention worker and the purge.                                     *)

Parties == Writers \union {System, Nobody}

RtMsg == [id : Nat, conv : Nat, from : Writers \union {System}, to : Parties, age : 0..Expired,
          status : {"pending", "processing", "done"}, reply : Nat, rows : BOOLEAN, about : Nat]

Target == [conv : Nat, agents : SUBSET Parties]

Cycle == [pc : {"asleep", "warn", "rowid", "message", "delete"}, targets : SUBSET Target,
          seen : SUBSET Parties, agent : Parties, about : Nat, opened : Nat, rowid : Nat, ids : SUBSET Nat]

RtTables ==
  /\ rtMsgs \subseteq RtMsg /\ IsFiniteSet(rtMsgs)
  /\ rtConvs \subseteq [id : Nat, warning : BOOLEAN]
  /\ nextMsg \in Nat \ {0} /\ nextConv \in Nat /\ lastRowid \in Nat
  /\ cycle \in Cycle
  /\ sends \in [pc : {"idle", "message"}, from : Parties, to : Parties, conv : Nat]
  /\ sends.pc = "message" => sends.from \in Writers

\* Row ids name one row each and are below the next one.
RtIds ==
  /\ \A m, q \in rtMsgs : m.id = q.id => m = q
  /\ \A c, d \in rtConvs : c.id = d.id => c = d
  /\ \A m \in rtMsgs : m.id < nextMsg
  /\ \A c \in rtConvs : c.id < nextConv
  /\ \A i \in strayed : i \in Nat /\ i < nextMsg
  /\ \A i \in cycle.ids : i < nextMsg

\* What agents write stands in conversations of theirs, also a message that is
\* still to come; a conversation the worker has opened waits for its warning.
ApartFromAgents ==
  /\ \A m \in rtMsgs, c \in rtConvs : c.id = m.conv /\ m.from # System => ~c.warning
  /\ sends.pc = "message" => sends.conv < nextConv /\ \A c \in rtConvs : c.id = sends.conv => ~c.warning
  /\ cycle.pc \in {"rowid", "message"} =>
        /\ cycle.opened < nextConv
        /\ \A c \in rtConvs : c.id = cycle.opened => c.warning
        /\ \A m \in rtMsgs : m.conv = cycle.opened => m.id \in strayed

WarningsAlone ==
  \A w \in rtMsgs : w.from = System /\ w.id \notin strayed =>
    /\ \A q \in rtMsgs : q.conv = w.conv => q.id = w.id \/ q.id \in strayed
    /\ \E c \in rtConvs : c.id = w.conv /\ c.warning

HasConversation == \A m \in rtMsgs : \E c \in rtConvs : c.id = m.conv
RepliesResolve == \A m \in rtMsgs : m.reply # NoRow => \E q \in rtMsgs : q.id = m.reply

RetentionInv ==
  /\ RtTables /\ RtIds /\ ApartFromAgents /\ WarningsAlone
  /\ HasConversation /\ RepliesResolve /\ RowsWithMessage /\ OnlyExpired

LEMMA Sleeping ==
  /\ Asleep \in Cycle /\ Asleep.pc = "asleep" /\ Asleep.ids = {}
  /\ NoSend \in [pc : {"idle", "message"}, from : Parties, to : Parties, conv : Nat] /\ NoSend.pc = "idle"
BY DEF Asleep, Cycle, NoSend, Parties, NoRow

LEMMA RetentionInitInv == RetentionInit => RetentionInv
<1> SUFFICES ASSUME RetentionInit PROVE RetentionInv
  OBVIOUS
<1>1. RtTables
  BY Sleeping, FS_EmptySet DEF RetentionInit, RtTables, NoRow
<1>2. RtIds /\ ApartFromAgents /\ WarningsAlone
  BY Sleeping DEF RetentionInit, RtIds, ApartFromAgents, WarningsAlone
<1>3. HasConversation /\ RepliesResolve /\ RowsWithMessage /\ OnlyExpired
  BY DEF RetentionInit, HasConversation, RepliesResolve, RowsWithMessage, OnlyExpired
<1> QED
  BY <1>1, <1>2, <1>3 DEF RetentionInv

\* Steps that insert nothing: messages go or change, and conversations go that
\* no message has.
LEMMA FewerRows ==
  ASSUME RetentionInv, RtTables',
         \A q \in rtMsgs' : \E p \in rtMsgs : p.id = q.id /\ p.conv = q.conv /\ p.from = q.from,
         \A m, q \in rtMsgs' : m.id = q.id => m = q,
         rtConvs' \subseteq rtConvs,
         \A q \in rtMsgs', c \in rtConvs : c.id = q.conv => c \in rtConvs',
         nextMsg' = nextMsg, nextConv' = nextConv, strayed' = strayed,
         cycle'.pc \in {"rowid", "message"} => cycle.pc \in {"rowid", "message"} /\ cycle'.opened = cycle.opened,
         \A i \in cycle'.ids : i < nextMsg,
         sends' = sends \/ sends'.pc = "idle"
  PROVE  RtIds' /\ ApartFromAgents' /\ WarningsAlone' /\ HasConversation'
<1> USE DEF RetentionInv
<1>1. RtIds'
  <2>1. \A m \in rtMsgs' : m.id < nextMsg
    BY DEF RtIds
  <2> QED
    BY <2>1 DEF RtIds
<1>2. ApartFromAgents'
  <2>1. ASSUME NEW m \in rtMsgs', NEW c \in rtConvs', c.id = m.conv, m.from # System PROVE ~c.warning
    BY <2>1 DEF ApartFromAgents
  <2>2. ASSUME sends'.pc = "message"
        PROVE  sends'.conv < nextConv /\ \A c \in rtConvs' : c.id = sends'.conv => ~c.warning
    BY <2>2 DEF ApartFromAgents
  <2>3. ASSUME cycle'.pc \in {"rowid", "message"}
        PROVE  /\ cycle'.opened < nextConv
               /\ \A c \in rtConvs' : c.id = cycle'.opened => c.warning
               /\ \A m \in rtMsgs' : m.conv = cycle'.opened => m.id \in strayed
    BY <2>3 DEF ApartFromAgents
  <2> QED
    BY <2>1, <2>2, <2>3 DEF ApartFromAgents
<1>3. WarningsAlone'
  <2> SUFFICES ASSUME NEW w \in rtMsgs', w.from = System, w.id \notin strayed
               PROVE  /\ \A q \in rtMsgs' : q.conv = w.conv => q.id = w.id \/ q.id \in strayed
                      /\ \E c \in rtConvs' : c.id = w.conv /\ c.warning
    BY DEF WarningsAlone
  <2>1. PICK v \in rtMsgs : v.id = w.id /\ v.conv = w.conv /\ v.from = w.from
    OBVIOUS
  <2>2. /\ \A q \in rtMsgs : q.conv = w.conv => q.id = w.id \/ q.id \in strayed
        /\ \E c \in rtConvs : c.id = w.conv /\ c.warning
    BY <2>1 DEF WarningsAlone
  <2> QED
    BY <2>2
<1>4. HasConversation'
  BY DEF HasConversation
<1> QED
  BY <1>1, <1>2, <1>3, <1>4

\* An inserted message: an agent's in a conversation of agents, or a warning
\* that has strayed, or one that is alone in the worker's conversation.
LEMMA InsertedMessage ==
  ASSUME RetentionInv, NEW conv \in Nat, NEW from \in Writers \union {System}, NEW to \in Parties,
         NEW reply \in Nat, NEW about \in Nat,
         InsertRtMessage(NewMessage(conv, from, to, reply, about)),
         rtConvs' = rtConvs, nextConv' = nextConv, halfPurged' = halfPurged,
         cycle' \in Cycle, cycle'.ids = cycle.ids, cycle' = cycle \/ cycle'.pc = "warn",
         sends' = sends \/ sends' = NoSend,
         NEW home \in rtConvs, home.id = conv,
         reply # NoRow => \E q \in rtMsgs : q.id = reply,
         strayed' = strayed \/ (from = System /\ strayed' = strayed \union {nextMsg}),
         \/ from # System /\ ~home.warning
         \/ from = System /\ nextMsg \in strayed' /\ cycle'.pc = "warn"
         \/ from = System /\ home.warning /\ cycle'.pc = "warn" /\ \A m \in rtMsgs : m.conv = conv => m.id \in strayed
  PROVE  RetentionInv'
<1> USE DEF RetentionInv
<1> DEFINE new == NewMessage(conv, from, to, reply, about)
<1>1. rtMsgs' = rtMsgs \union {new} /\ nextMsg' = nextMsg + 1 /\ lastRowid' = nextMsg
  BY DEF InsertRtMessage
<1>2. /\ new \in RtMsg /\ new.id = nextMsg /\ new.conv = conv /\ new.from = from /\ new.age = 0
      /\ new.reply = reply /\ new.rows = TRUE
  BY RetentionAssumption DEF NewMessage, RtMsg, RtTables
<1> HIDE DEF new
<1>3. nextMsg \in Nat /\ (\A m \in rtMsgs : m.id \in Nat /\ m.id < nextMsg) /\ (\A i \in strayed : i \in Nat /\ i < nextMsg)
  BY DEF RtTables, RtIds, RtMsg
<1>4. RtTables'
  <2>1. IsFiniteSet(rtMsgs')
    BY <1>1, FS_AddElement DEF RtTables
  <2>2. /\ sends' \in [pc : {"idle", "message"}, from : Parties, to : Parties, conv : Nat]
        /\ sends'.pc = "message" => sends'.from \in Writers
    BY Sleeping DEF RtTables
  <2>3. rtMsgs' \subseteq RtMsg /\ nextMsg' \in Nat \ {0} /\ lastRowid' \in Nat
    BY <1>1, <1>2 DEF RtTables
  <2> QED
    BY <2>1, <2>2, <2>3 DEF RtTables
<1>5. RtIds'
  <2>1. \A m, q \in rtMsgs' : m.id = q.id => m = q
    BY <1>1, <1>2, <1>3 DEF RtIds
  <2>2. \A m \in rtMsgs' : m.id < nextMsg'
    BY <1>1, <1>2, <1>3
  <2>3. \A i \in strayed' : i \in Nat /\ i < nextMsg'
    BY <1>1, <1>3
  <2>4. \A i \in cycle'.ids : i < nextMsg'
    <3>1. \A i \in cycle.ids : i \in Nat /\ i < nextMsg
      BY DEF RtIds, RtTables, Cycle
    <3> QED
      BY <1>1, <1>3, <3>1
  <2> QED
    BY <2>1, <2>2, <2>3, <2>4 DEF RtIds
<1>6. \A c \in rtConvs : c.id = conv => c = home
  BY DEF RtIds
<1>7. ApartFromAgents'
  <2>1. ASSUME NEW m \in rtMsgs', NEW c \in rtConvs, c.id = m.conv, m.from # System PROVE ~c.warning
    BY <1>1, <1>2, <1>6, <2>1 DEF ApartFromAgents
  <2>2. ASSUME sends'.pc = "message"
        PROVE  sends'.conv < nextConv /\ \A c \in rtConvs : c.id = sends'.conv => ~c.warning
    BY <2>2, Sleeping DEF ApartFromAgents
  <2>3. ASSUME cycle'.pc \in {"rowid", "message"}
        PROVE  /\ cycle'.opened < nextConv
               /\ \A c \in rtConvs : c.id = cycle'.opened => c.warning
               /\ \A m \in rtMsgs' : m.conv = cycle'.opened => m.id \in strayed'
    <3>1. cycle' = cycle /\ ~home.warning
      BY <2>3
    <3>2. conv # cycle.opened
      BY <2>3, <3>1 DEF ApartFromAgents
    <3>3. /\ cycle.opened < nextConv
          /\ \A c \in rtConvs : c.id = cycle.opened => c.warning
          /\ \A m \in rtMsgs : m.conv = cycle.opened => m.id \in strayed
      BY <2>3, <3>1 DEF ApartFromAgents
    <3> QED
      BY <1>1, <1>2, <3>1, <3>2, <3>3
  <2> QED
    BY <2>1, <2>2, <2>3 DEF ApartFromAgents
<1>8. WarningsAlone'
  <2> SUFFICES ASSUME NEW w \in rtMsgs', w.from = System, w.id \notin strayed'
               PROVE  /\ \A q \in rtMsgs' : q.conv = w.conv => q.id = w.id \/ q.id \in strayed'
                      /\ \E c \in rtConvs : c.id = w.conv /\ c.warning
    BY DEF WarningsAlone
  <2>1. CASE w = new
    BY <1>1, <1>2, <2>1
  <2>2. CASE w \in rtMsgs
    <3>1. /\ \A q \in rtMsgs : q.conv = w.conv => q.id = w.id \/ q.id \in strayed
          /\ \E c \in rtConvs : c.id = w.conv /\ c.warning
      BY <2>2 DEF WarningsAlone
    <3>2. new.conv = w.conv => new.id \in strayed'
      BY <1>2, <1>6, <2>2, <3>1
    <3> QED
      BY <1>1, <3>1, <3>2
  <2> QED
    BY <1>1, <2>1, <2>2
<1>9. HasConversation'
  BY <1>1, <1>2 DEF HasConversation
<1>10. RepliesResolve'
  BY <1>1, <1>2 DEF RepliesResolve
<1>11. RowsWithMessage'
  BY <1>1, <1>2 DEF RowsWithMessage
<1>12. OnlyExpired'
  <2> SUFFICES ASSUME cycle'.pc = "delete", NEW m \in rtMsgs', m.id \in cycle'.ids PROVE m.age >= Expired
    BY DEF OnlyExpired
  <2>1. \A i \in cycle.ids : i \in Nat /\ i < nextMsg
    BY DEF RtIds, RtTables, Cycle
  <2>2. m # new
    BY <1>2, <1>3, <2>1
  <2> QED
    BY <1>1, <2>2 DEF OnlyExpired
<1> QED
  BY <1>4, <1>5, <1>7, <1>8, <1>9, <1>10, <1>11, <1>12

\* An inserted conversation has no message yet: an agent's, or the worker's.
LEMMA InsertedConversation ==
  ASSUME RetentionInv, NEW isWarning \in BOOLEAN, InsertRtConversation(isWarning),
         rtMsgs' = rtMsgs, nextMsg' = nextMsg, strayed' = strayed, halfPurged' = halfPurged,
         cycle' \in Cycle, cycle'.ids = cycle.ids,
         sends' \in [pc : {"idle", "message"}, from : Parties, to : Parties, conv : Nat],
         sends'.pc = "message" => sends'.from \in Writers,
         cycle' = cycle \/ (isWarning /\ cycle'.pc = "rowid" /\ cycle'.opened = nextConv),
         sends' = sends \/ (~isWarning /\ sends'.conv = nextConv)
  PROVE  RetentionInv'
<1> USE DEF RetentionInv
<1> DEFINE new == [id |-> nextConv, warning |-> isWarning]
<1>1. rtConvs' = rtConvs \union {new} /\ nextConv' = nextConv + 1 /\ lastRowid' = nextConv
  BY DEF InsertRtConversation
<1>2. new \in [id : Nat, warning : BOOLEAN] /\ new.id = nextConv /\ new.warning = isWarning
  BY DEF RtTables
<1> HIDE DEF new
<1>3. nextConv \in Nat /\ \A c \in rtConvs : c.id \in Nat /\ c.id < nextConv
  BY DEF RtTables, RtIds
<1>4. RtTables'
  BY <1>1, <1>2, <1>3 DEF RtTables
<1>5. RtIds'
  <2>1. \A c, d \in rtConvs' : c.id = d.id => c = d
    BY <1>1, <1>2, <1>3 DEF RtIds
  <2>2. \A c \in rtConvs' : c.id < nextConv'
    BY <1>1, <1>2, <1>3
  <2> QED
    BY <2>1, <2>2 DEF RtIds
<1>6. \A m \in rtMsgs : m.conv \in Nat /\ m.conv < nextConv
  BY <1>3 DEF HasConversation
<1>7. ApartFromAgents'
  <2>1. ASSUME NEW m \in rtMsgs, NEW c \in rtConvs', c.id = m.conv, m.from # System PROVE ~c.warning
    BY <1>1, <1>2, <1>3, <1>6, <2>1 DEF ApartFromAgents
  <2>2. ASSUME sends'.pc = "message"
        PROVE  sends'.conv < nextConv' /\ \A c \in rtConvs' : c.id = sends'.conv => ~c.warning
    <3>1. CASE sends' = sends
      <4>1. sends.conv < nextConv /\ sends.conv \in Nat /\ \A c \in rtConvs : c.id = sends.conv => ~c.warning
        BY <2>2, <3>1 DEF ApartFromAgents, RtTables
      <4> QED
        BY <1>1, <1>2, <1>3, <3>1, <4>1
    <3>2. CASE ~isWarning /\ sends'.conv = nextConv
      BY <1>1, <1>2, <1>3, <3>2
    <3> QED
      BY <3>1, <3>2
  <2>3. ASSUME cycle'.pc \in {"rowid", "message"}
        PROVE  /\ cycle'.opened < nextConv'
               /\ \A c \in rtConvs' : c.id = cycle'.opened => c.warning
               /\ \A m \in rtMsgs : m.conv = cycle'.opened => m.id \in strayed
    <3>1. CASE cycle' = cycle
      <4>1. /\ cycle.opened < nextConv /\ cycle.opened \in Nat
            /\ \A c \in rtConvs : c.id = cycle.opened => c.warning
            /\ \A m \in rtMsgs : m.conv = cycle.opened => m.id \in strayed
        BY <2>3, <3>1 DEF ApartFromAgents, RtTables, Cycle
      <4> QED
        BY <1>1, <1>2, <1>3, <3>1, <4>1
    <3>2. CASE isWarning /\ cycle'.opened = nextConv
      <4>1. nextConv < nextConv' /\ \A m \in rtMsgs : m.conv # nextConv
        <5>1. nextConv < nextConv'
          BY <1>1, <1>3
        <5>2. \A m \in rtMsgs : m.conv # nextConv
          BY <1>3, <1>6
        <5> QED
          BY <5>1, <5>2
      <4>2. \A c \in rtConvs' : c.id = nextConv => c.warning
        <5>1. \A c \in rtConvs : c.id # nextConv
          BY <1>3
        <5>2. new.warning
          BY <1>2, <3>2
        <5> QED
          BY <1>1, <5>1, <5>2
      <4> QED
        BY <3>2, <4>1, <4>2
    <3> QED
      BY <3>1, <3>2
  <2> QED
    BY <2>1, <2>2, <2>3 DEF ApartFromAgents
<1>8. WarningsAlone' /\ HasConversation' /\ RepliesResolve' /\ RowsWithMessage'
  BY <1>1 DEF WarningsAlone, HasConversation, RepliesResolve, RowsWithMessage
<1>9. OnlyExpired'
  BY DEF OnlyExpired
<1> QED
  BY <1>4, <1>5, <1>7, <1>8, <1>9

LEMMA OpenInv ==
  ASSUME RetentionInv, NEW a \in Writers, NEW b \in Writers, OpenConversation(a, b)
  PROVE  RetentionInv'
<1> DEFINE q == [pc |-> "message", from |-> a, to |-> b, conv |-> nextConv]
<1>1. /\ InsertRtConversation(FALSE) /\ sends' = q
      /\ rtMsgs' = rtMsgs /\ nextMsg' = nextMsg /\ cycle' = cycle /\ strayed' = strayed /\ halfPurged' = halfPurged
  BY DEF OpenConversation
<1>2. /\ q \in [pc : {"idle", "message"}, from : Parties, to : Parties, conv : Nat]
      /\ q.from \in Writers /\ q.conv = nextConv
  BY DEF RetentionInv, RtTables, Parties
<1> HIDE DEF q
<1>3. cycle' \in Cycle
  BY <1>1 DEF RetentionInv, RtTables
<1> QED
  BY <1>1, <1>2, <1>3, InsertedConversation

LEMMA WarnInv ==
  ASSUME RetentionInv, NEW t \in cycle.targets, NEW a \in Writers, sendRetentionWarnings(t, a)
  PROVE  RetentionInv'
<1> DEFINE q == [cycle EXCEPT !.pc = "rowid", !.seen = @ \union {a}, !.agent = a, !.about = t.conv,
                              !.opened = nextConv]
<1>1. /\ InsertRtConversation(TRUE) /\ cycle' = q
      /\ rtMsgs' = rtMsgs /\ nextMsg' = nextMsg /\ sends' = sends /\ strayed' = strayed /\ halfPurged' = halfPurged
  BY DEF sendRetentionWarnings
<1>2. cycle \in Cycle /\ t.conv \in Nat /\ nextConv \in Nat
  BY DEF RetentionInv, RtTables, Cycle, Target
<1>3. a \in Parties
  BY DEF Parties
<1>4. q \in Cycle /\ q.pc = "rowid" /\ q.opened = nextConv /\ q.ids = cycle.ids
  BY <1>2, <1>3 DEF Cycle
<1> HIDE DEF q
<1>5. /\ sends' \in [pc : {"idle", "message"}, from : Parties, to : Parties, conv : Nat]
      /\ sends'.pc = "message" => sends'.from \in Writers
  BY <1>1 DEF RetentionInv, RtTables
<1> QED
  BY <1>1, <1>4, <1>5, InsertedConversation

LEMMA SendFirstInv ==
  ASSUME RetentionInv, SendFirst
  PROVE  RetentionInv'
<1> USE DEF RetentionInv
<1>1. /\ sends.pc = "message" /\ sends' = NoSend
      /\ rtConvs' = rtConvs /\ nextConv' = nextConv /\ cycle' = cycle /\ strayed' = strayed /\ halfPurged' = halfPurged
  BY DEF SendFirst
<1>2. PICK conv \in Nat, from \in Writers, to \in Parties :
        conv = sends.conv /\ from = sends.from /\ to = sends.to
  BY <1>1 DEF RtTables
<1>3. cycle' \in Cycle /\ NoRow \in Nat
  BY <1>1 DEF RtTables, NoRow
<1>4. CASE \E c \in rtConvs : c.id = conv
  <2>1. PICK home \in rtConvs : home.id = conv
    BY <1>4
  <2>2. InsertRtMessage(NewMessage(conv, from, to, NoRow, NoRow))
    BY <1>2, <1>4 DEF SendFirst
  <2>3. ~home.warning
    BY <1>1, <1>2, <2>1 DEF ApartFromAgents
  <2>4. from # System /\ from \in Writers \union {System}
    BY RetentionAssumption
  <2> QED
    BY <1>1, <1>3, <2>1, <2>2, <2>3, <2>4, InsertedMessage
<1>5. CASE ~ \E c \in rtConvs : c.id = conv
  <2>1. rtMsgs' = rtMsgs /\ nextMsg' = nextMsg /\ lastRowid' = lastRowid
    BY <1>2, <1>5 DEF SendFirst
  <2>2. RtTables'
    BY <1>1, <2>1, Sleeping DEF RtTables
  <2>3. \A i \in cycle'.ids : i < nextMsg
    BY <1>1 DEF RtIds
  <2>4. RtIds' /\ ApartFromAgents' /\ WarningsAlone' /\ HasConversation'
    <3>1. \A m, q \in rtMsgs' : m.id = q.id => m = q
      BY <2>1 DEF RtIds
    <3> QED
      BY <1>1, <2>1, <2>2, <2>3, <3>1, Sleeping, FewerRows
  <2>5. RepliesResolve' /\ RowsWithMessage' /\ OnlyExpired'
    BY <1>1, <2>1 DEF RepliesResolve, RowsWithMessage, OnlyExpired
  <2> QED
    BY <2>2, <2>4, <2>5
<1> QED
  BY <1>4, <1>5

LEMMA ReplyInv ==
  ASSUME RetentionInv, NEW m \in rtMsgs, NEW a \in Writers, NEW to \in Writers \union {System, Nobody},
         SendReply(m, a, to)
  PROVE  RetentionInv'
<1> USE DEF RetentionInv
<1>1. /\ m.from # System /\ InsertRtMessage(NewMessage(m.conv, a, to, m.id, NoRow))
      /\ rtConvs' = rtConvs /\ nextConv' = nextConv /\ cycle' = cycle /\ strayed' = strayed /\ halfPurged' = halfPurged
      /\ sends' = sends
  BY DEF SendReply
<1>2. m.conv \in Nat /\ m.id \in Nat /\ to \in Parties /\ NoRow \in Nat
  BY DEF RtTables, RtMsg, Parties, NoRow
<1>3. PICK home \in rtConvs : home.id = m.conv
  BY DEF HasConversation
<1>4. ~home.warning
  BY <1>1, <1>3 DEF ApartFromAgents
<1>5. a # System /\ a \in Writers \union {System} /\ cycle' \in Cycle
  BY <1>1, RetentionAssumption DEF RtTables
<1>6. m.id # NoRow => \E q \in rtMsgs : q.id = m.id
  OBVIOUS
<1> QED
  BY <1>1, <1>2, <1>3, <1>4, <1>5, <1>6, InsertedMessage

LEMMA InsertWarningInv ==
  ASSUME RetentionInv, InsertWarning
  PROVE  RetentionInv'
<1> USE DEF RetentionInv
<1> DEFINE q == [cycle EXCEPT !.pc = "warn"]
<1>1. /\ cycle.pc = "message" /\ cycle' = q
      /\ rtConvs' = rtConvs /\ nextConv' = nextConv /\ sends' = sends /\ halfPurged' = halfPurged
  BY DEF InsertWarning
<1>2. cycle \in Cycle
  BY DEF RtTables
<1>3. q \in Cycle /\ q.pc = "warn" /\ q.ids = cycle.ids
  BY <1>2 DEF Cycle
<1> HIDE DEF q
<1>4. PICK conv \in Nat, to \in Parties, about \in Nat :
        conv = cycle.rowid /\ to = cycle.agent /\ about = cycle.about
  BY <1>2 DEF Cycle
<1>5. CASE \E c \in rtConvs : c.id = conv
  <2>1. PICK home \in rtConvs : home.id = conv
    BY <1>5
  <2>2. /\ InsertRtMessage(NewMessage(conv, System, to, NoRow, about))
        /\ strayed' = IF conv # cycle.opened THEN strayed \union {nextMsg} ELSE strayed
    <3>1. {c \in rtConvs : c.id = cycle.rowid} # {}
      BY <1>4, <1>5
    <3> QED
      BY <1>4, <3>1 DEF InsertWarning
  <2>3. conv = cycle.opened => home.warning /\ \A m \in rtMsgs : m.conv = conv => m.id \in strayed
    BY <1>1, <2>1 DEF ApartFromAgents
  <2>4. System \in Writers \union {System} /\ NoRow \in Nat
    BY DEF NoRow
  <2>5. CASE conv = cycle.opened
    BY <1>1, <1>3, <2>1, <2>2, <2>3, <2>4, <2>5, InsertedMessage
  <2>6. CASE conv # cycle.opened
    BY <1>1, <1>3, <2>1, <2>2, <2>4, <2>6, InsertedMessage
  <2> QED
    BY <2>5, <2>6
<1>6. CASE ~ \E c \in rtConvs : c.id = conv
  <2>0. {c \in rtConvs : c.id = cycle.rowid} = {}
    BY <1>4, <1>6
  <2>1. rtMsgs' = rtMsgs /\ nextMsg' = nextMsg /\ lastRowid' = lastRowid /\ strayed' = strayed
    BY <2>0 DEF InsertWarning
  <2>2. RtTables'
    BY <1>1, <1>3, <2>1 DEF RtTables
  <2>3. (\A i \in cycle'.ids : i < nextMsg) /\ (\A m, n \in rtMsgs' : m.id = n.id => m = n)
    BY <1>1, <1>3, <2>1 DEF RtIds
  <2>4. RtIds' /\ ApartFromAgents' /\ WarningsAlone' /\ HasConversation'
    BY <1>1, <1>3, <2>1, <2>2, <2>3, FewerRows
  <2>5. RepliesResolve' /\ RowsWithMessage' /\ OnlyExpired'
    BY <1>1, <1>3, <2>1 DEF RepliesResolve, RowsWithMessage, OnlyExpired
  <2> QED
    BY <2>2, <2>4, <2>5
<1> QED
  BY <1>5, <1>6

\* A step of the worker, or a crash, that leaves the tables alone.
LEMMA WorkerMoves ==
  ASSUME RetentionInv, cycle' \in Cycle,
         rtMsgs' = rtMsgs, rtConvs' = rtConvs, nextMsg' = nextMsg, nextConv' = nextConv, lastRowid' = lastRowid,
         strayed' = strayed, halfPurged' = halfPurged,
         cycle'.pc \in {"rowid", "message"} => cycle.pc \in {"rowid", "message"} /\ cycle'.opened = cycle.opened,
         \A i \in cycle'.ids : i < nextMsg,
         cycle'.pc = "delete" => \A m \in rtMsgs : m.id \in cycle'.ids => m.age >= Expired,
         sends' = sends \/ sends' = NoSend
  PROVE  RetentionInv'
<1> USE DEF RetentionInv
<1>1. RtTables'
  BY Sleeping DEF RtTables
<1>2. \A m, n \in rtMsgs' : m.id = n.id => m = n
  BY DEF RtIds
<1>3. RtIds' /\ ApartFromAgents' /\ WarningsAlone' /\ HasConversation'
  BY <1>1, <1>2, Sleeping, FewerRows
<1>4. RepliesResolve' /\ RowsWithMessage' /\ OnlyExpired'
  BY DEF RepliesResolve, RowsWithMessage, OnlyExpired
<1> QED
  BY <1>1, <1>3, <1>4

LEMMA RunCleanupInv ==
  ASSUME RetentionInv, runCleanup
  PROVE  RetentionInv'
<1> DEFINE q == [Asleep EXCEPT !.pc = "warn", !.targets = WarningTargets]
<1>1. /\ cycle' = q
      /\ rtMsgs' = rtMsgs /\ rtConvs' = rtConvs /\ nextMsg' = nextMsg /\ nextConv' = nextConv /\ lastRowid' = lastRowid
      /\ strayed' = strayed /\ halfPurged' = halfPurged /\ sends' = sends
  BY DEF runCleanup
<1>2. WarningTargets \subseteq Target
  BY DEF WarningTargets, Target, RetentionInv, RtTables, RtMsg, Parties
<1>4. q \in Cycle /\ q.pc = "warn" /\ q.ids = {}
  BY <1>2, Sleeping DEF Cycle
<1> HIDE DEF q
<1> QED
  BY <1>1, <1>4, WorkerMoves

LEMMA RowidInv ==
  ASSUME RetentionInv, last_insert_rowid
  PROVE  RetentionInv'
<1> DEFINE q == [cycle EXCEPT !.pc = "message", !.rowid = lastRowid]
<1>1. /\ cycle.pc = "rowid" /\ cycle' = q
      /\ rtMsgs' = rtMsgs /\ rtConvs' = rtConvs /\ nextMsg' = nextMsg /\ nextConv' = nextConv /\ lastRowid' = lastRowid
      /\ strayed' = strayed /\ halfPurged' = halfPurged /\ sends' = sends
  BY DEF last_insert_rowid
<1>2. cycle \in Cycle /\ lastRowid \in Nat
  BY DEF RetentionInv, RtTables
<1>4. q \in Cycle /\ q.pc = "message" /\ q.opened = cycle.opened /\ q.ids = cycle.ids
  BY <1>2 DEF Cycle
<1> HIDE DEF q
<1>5. \A i \in cycle.ids : i < nextMsg
  BY DEF RetentionInv, RtIds
<1> QED
  BY <1>1, <1>4, <1>5, WorkerMoves

LEMMA SelectExpiredInv ==
  ASSUME RetentionInv, deleteExpiredMessages
  PROVE  RetentionInv'
<1> DEFINE old == {m.id : m \in {q \in rtMsgs : q.age >= Expired /\ q.status # "processing"}}
           q == [Asleep EXCEPT !.pc = "delete", !.ids = old]
<1>1. /\ cycle' = Asleep \/ cycle' = q
      /\ rtMsgs' = rtMsgs /\ rtConvs' = rtConvs /\ nextMsg' = nextMsg /\ nextConv' = nextConv /\ lastRowid' = lastRowid
      /\ strayed' = strayed /\ halfPurged' = halfPurged /\ sends' = sends
  BY DEF deleteExpiredMessages
<1>2. old \subseteq Nat /\ \A i \in old : i < nextMsg
  BY DEF RetentionInv, RtTables, RtMsg, RtIds
<1>3. \A m \in rtMsgs : m.id \in old => m.age >= Expired
  BY DEF RetentionInv, RtIds
<1> HIDE DEF old
<1>5. q \in Cycle /\ q.pc = "delete" /\ q.ids = old
  BY <1>2, Sleeping DEF Cycle
<1> HIDE DEF q
<1>6. CASE cycle' = q
  BY <1>1, <1>2, <1>3, <1>5, <1>6, WorkerMoves
<1>7. CASE cycle' = Asleep
  BY <1>1, <1>7, Sleeping, WorkerMoves
<1> QED
  BY <1>1, <1>6, <1>7

LEMMA CrashInv ==
  ASSUME RetentionInv, RetentionCrash
  PROVE  RetentionInv'
<1>1. /\ cycle' = Asleep /\ sends' = NoSend
      /\ rtMsgs' = rtMsgs /\ rtConvs' = rtConvs /\ nextMsg' = nextMsg /\ nextConv' = nextConv /\ lastRowid' = lastRowid
      /\ strayed' = strayed /\ halfPurged' = halfPurged
  BY DEF RetentionCrash
<1> QED
  BY <1>1, Sleeping, WorkerMoves

LEMMA PurgeSelectInv ==
  ASSUME RetentionInv, NEW s, NEW a, handleMessagesPurge(s, a)
  PROVE  RetentionInv'
<1>1. /\ cycle' = cycle /\ sends' = sends
      /\ rtMsgs' = rtMsgs /\ rtConvs' = rtConvs /\ nextMsg' = nextMsg /\ nextConv' = nextConv /\ lastRowid' = lastRowid
      /\ strayed' = strayed /\ halfPurged' = halfPurged
  BY DEF handleMessagesPurge
<1>2. cycle' \in Cycle /\ \A i \in cycle'.ids : i < nextMsg
  BY <1>1 DEF RetentionInv, RtTables, RtIds
<1>3. cycle'.pc = "delete" => \A m \in rtMsgs : m.id \in cycle'.ids => m.age >= Expired
  BY <1>1 DEF RetentionInv, OnlyExpired
<1> QED
  BY <1>1, <1>2, <1>3, WorkerMoves

\* A row of a message changes, its ids do not.
LEMMA MessagesChange ==
  ASSUME RetentionInv, NEW f \in [rtMsgs -> RtMsg],
         rtMsgs' = {f[m] : m \in rtMsgs},
         \A m \in rtMsgs : /\ f[m].id = m.id /\ f[m].conv = m.conv
                           /\ f[m].from = m.from /\ f[m].reply = m.reply,
         rtConvs' = rtConvs, nextMsg' = nextMsg, nextConv' = nextConv, lastRowid' = lastRowid,
         strayed' = strayed, cycle' = cycle, sends' = sends
  PROVE  /\ RtTables' /\ RtIds' /\ ApartFromAgents' /\ WarningsAlone' /\ HasConversation' /\ RepliesResolve'
<1> USE DEF RetentionInv
<1>1. RtTables'
  <2>1. f \in Surjection(rtMsgs, rtMsgs')
    BY DEF Surjection
  <2>2. IsFiniteSet(rtMsgs')
    BY <2>1, FS_Surjection DEF RtTables
  <2> QED
    BY <2>2 DEF RtTables
<1>2. \A q \in rtMsgs' : \E p \in rtMsgs : q = f[p]
  OBVIOUS
<1>3. \A m, q \in rtMsgs' : m.id = q.id => m = q
  BY <1>2 DEF RtIds
<1>4. RtIds' /\ ApartFromAgents' /\ WarningsAlone' /\ HasConversation'
  <2>1. \A q \in rtMsgs' : \E p \in rtMsgs : p.id = q.id /\ p.conv = q.conv /\ p.from = q.from
    BY <1>2
  <2>2. \A i \in cycle'.ids : i < nextMsg
    BY DEF RtIds
  <2> QED
    BY <1>1, <1>3, <2>1, <2>2, FewerRows
<1>5. RepliesResolve'
  <2> SUFFICES ASSUME NEW q \in rtMsgs', q.reply # NoRow PROVE \E n \in rtMsgs' : n.id = q.reply
    BY DEF RepliesResolve
  <2>1. PICK p \in rtMsgs : q = f[p]
    BY <1>2
  <2>2. PICK n \in rtMsgs : n.id = q.reply
    BY <2>1 DEF RepliesResolve
  <2>3. f[n] \in rtMsgs' /\ f[n].id = q.reply
    BY <2>2
  <2> QED
    BY <2>3
<1> QED
  BY <1>1, <1>4, <1>5

LEMMA StatusInv ==
  ASSUME RetentionInv, NEW m \in rtMsgs, NEW st \in {"processing", "done"}, ChangeStatus(m, st)
  PROVE  RetentionInv'
<1> USE DEF RetentionInv
<1> DEFINE new == [m EXCEPT !.status = st]
           f == [q \in rtMsgs |-> IF q = m THEN new ELSE q]
<1>1. /\ rtMsgs' = (rtMsgs \ {m}) \union {new}
      /\ rtConvs' = rtConvs /\ nextMsg' = nextMsg /\ nextConv' = nextConv /\ lastRowid' = lastRowid
      /\ strayed' = strayed /\ halfPurged' = halfPurged /\ cycle' = cycle /\ sends' = sends
  BY DEF ChangeStatus
<1>2. m \in RtMsg
  BY DEF RtTables
<1>3. /\ new \in RtMsg /\ new.id = m.id /\ new.conv = m.conv /\ new.from = m.from /\ new.reply = m.reply
      /\ new.rows = m.rows /\ new.age = m.age
  BY <1>2 DEF RtMsg
<1> HIDE DEF new
<1>4. f \in [rtMsgs -> RtMsg] /\ \A q \in rtMsgs : f[q] = IF q = m THEN new ELSE q
  BY <1>3 DEF RtTables
<1>5. rtMsgs' = {f[q] : q \in rtMsgs}
  BY <1>1
<1> HIDE DEF f
<1>6. /\ RtTables' /\ RtIds' /\ ApartFromAgents' /\ WarningsAlone' /\ HasConversation' /\ RepliesResolve'
  BY <1>1, <1>3, <1>4, <1>5, MessagesChange
<1>7. RowsWithMessage' /\ OnlyExpired'
  BY <1>1, <1>3 DEF RowsWithMessage, OnlyExpired
<1> QED
  BY <1>6, <1>7

LEMMA TimeInv ==
  ASSUME RetentionInv, TimePasses
  PROVE  RetentionInv'
<1> USE DEF RetentionInv
<1> DEFINE Older(q) == [q EXCEPT !.age = IF q.age < Expired THEN q.age + 1 ELSE q.age]
           f == [q \in rtMsgs |-> Older(q)]
<1>1. /\ rtMsgs' = {Older(q) : q \in rtMsgs} /\ cycle = Asleep
      /\ rtConvs' = rtConvs /\ nextMsg' = nextMsg /\ nextConv' = nextConv /\ lastRowid' = lastRowid
      /\ strayed' = strayed /\ halfPurged' = halfPurged /\ cycle' = cycle /\ sends' = sends
  BY DEF TimePasses
<1>2. ASSUME NEW q \in rtMsgs
      PROVE  /\ Older(q) \in RtMsg /\ Older(q).id = q.id /\ Older(q).conv = q.conv /\ Older(q).from = q.from
             /\ Older(q).reply = q.reply /\ Older(q).rows = q.rows
  <2>1. q \in RtMsg /\ q.age \in 0..Expired /\ Expired \in Nat
    BY RetentionAssumption DEF RtTables, RtMsg
  <2>2. (IF q.age < Expired THEN q.age + 1 ELSE q.age) \in 0..Expired
    BY <2>1
  <2> QED
    BY <2>1, <2>2 DEF RtMsg
<1> HIDE DEF Older
<1>3. f \in [rtMsgs -> RtMsg] /\ \A q \in rtMsgs : f[q] = Older(q)
  BY <1>2
<1>4. rtMsgs' = {f[q] : q \in rtMsgs}
  BY <1>1
<1> HIDE DEF f
<1>5. /\ RtTables' /\ RtIds' /\ ApartFromAgents' /\ WarningsAlone' /\ HasConversation' /\ RepliesResolve'
  BY <1>1, <1>2, <1>3, <1>4, MessagesChange
<1>6. RowsWithMessage'
  BY <1>1, <1>2 DEF RowsWithMessage
<1>7. OnlyExpired'
  BY <1>1, Sleeping DEF OnlyExpired
<1> QED
  BY <1>5, <1>6, <1>7

\* A deletion that is not refused leaves no reply to what it deletes.
LEMMA DeletionKept ==
  ASSUME RetentionInv, NEW ids, Replies(ids) = {}, rtMsgs' = {m \in rtMsgs : m.id \notin ids}
  PROVE  RepliesResolve' /\ rtMsgs' \subseteq rtMsgs /\ IsFiniteSet(rtMsgs')
<1> USE DEF RetentionInv
<1>1. rtMsgs' \subseteq rtMsgs /\ IsFiniteSet(rtMsgs')
  BY FS_Subset DEF RtTables
<1>2. ASSUME NEW m \in rtMsgs', m.reply # NoRow PROVE \E q \in rtMsgs' : q.id = m.reply
  <2>1. PICK q \in rtMsgs : q.id = m.reply
    BY <1>1, <1>2 DEF RepliesResolve
  <2>2. m.reply \notin ids
    BY <1>1 DEF Replies
  <2> QED
    BY <2>1, <2>2
<1> QED
  BY <1>1, <1>2 DEF RepliesResolve

LEMMA DeleteBatchInv ==
  ASSUME RetentionInv, NEW batch, deleteRtBatch(batch)
  PROVE  RetentionInv'
<1> USE DEF RetentionInv
<1> DEFINE q == [cycle EXCEPT !.ids = cycle.ids \ batch]
<1>1. /\ cycle.pc = "delete" /\ cycle' = q
      /\ rtMsgs' = IF Replies(batch) = {} THEN {m \in rtMsgs : m.id \notin batch} ELSE rtMsgs
      /\ rtConvs' = rtConvs /\ nextMsg' = nextMsg /\ nextConv' = nextConv /\ lastRowid' = lastRowid
      /\ strayed' = strayed /\ halfPurged' = halfPurged /\ sends' = sends
  BY DEF deleteRtBatch, DeleteMessages
<1>2. q \in Cycle /\ q.pc = "delete" /\ q.ids = cycle.ids \ batch
  BY <1>1 DEF RtTables, Cycle
<1> HIDE DEF q
<1>3. RepliesResolve' /\ rtMsgs' \subseteq rtMsgs /\ IsFiniteSet(rtMsgs')
  <2>1. CASE Replies(batch) = {}
    BY <1>1, <2>1, DeletionKept
  <2>2. CASE Replies(batch) # {}
    BY <1>1, <2>2 DEF RtTables, RepliesResolve
  <2> QED
    BY <2>1, <2>2
<1>4. RtTables'
  BY <1>1, <1>2, <1>3 DEF RtTables
<1>5. RtIds' /\ ApartFromAgents' /\ WarningsAlone' /\ HasConversation'
  <2>1. \A i \in cycle'.ids : i < nextMsg
    BY <1>1, <1>2 DEF RtIds
  <2>2. \A m, n \in rtMsgs' : m.id = n.id => m = n
    BY <1>3 DEF RtIds
  <2> QED
    BY <1>1, <1>2, <1>3, <1>4, <2>1, <2>2, FewerRows
<1>6. RowsWithMessage'
  BY <1>1, <1>3 DEF RowsWithMessage
<1>7. OnlyExpired'
  BY <1>1, <1>2, <1>3 DEF OnlyExpired
<1> QED
  BY <1>3, <1>4, <1>5, <1>6, <1>7

LEMMA DropEmptyInv ==
  ASSUME RetentionInv, DropEmptyConversations
  PROVE  RetentionInv'
<1> USE DEF RetentionInv
<1>1. /\ cycle' = Asleep /\ rtConvs' = {c \in rtConvs : \E m \in rtMsgs : m.conv = c.id}
      /\ rtMsgs' = rtMsgs /\ nextMsg' = nextMsg /\ nextConv' = nextConv /\ lastRowid' = lastRowid
      /\ strayed' = strayed /\ halfPurged' = halfPurged /\ sends' = sends
  BY DEF DropEmptyConversations, NonEmpty
<1>2. RtTables'
  BY <1>1, Sleeping DEF RtTables
<1>3. \A m, n \in rtMsgs' : m.id = n.id => m = n
  BY <1>1 DEF RtIds
<1>4. RtIds' /\ ApartFromAgents' /\ WarningsAlone' /\ HasConversation'
  BY <1>1, <1>2, <1>3, Sleeping, FewerRows
<1>5. RepliesResolve' /\ RowsWithMessage' /\ OnlyExpired'
  BY <1>1, Sleeping DEF RepliesResolve, RowsWithMessage, OnlyExpired
<1> QED
  BY <1>2, <1>4, <1>5

LEMMA PurgeInv ==
  ASSUME RetentionInv, PurgeMessages
  PROVE  RetentionInv'
<1> USE DEF RetentionInv
<1>1. PICK ids : ids = purge.ids
  OBVIOUS
<1> DEFINE Bare(m) == IF m.id \in ids THEN [m EXCEPT !.rows = FALSE] ELSE m
           f == [m \in rtMsgs |-> Bare(m)]
<1>2. /\ rtMsgs' = IF Replies(ids) = {} THEN {m \in rtMsgs : m.id \notin ids} ELSE {Bare(m) : m \in rtMsgs}
      /\ halfPurged' = IF Replies(ids) = {} THEN halfPurged ELSE halfPurged \union ids
      /\ rtConvs' = {c \in rtConvs : \E m \in rtMsgs' : m.conv = c.id}
      /\ nextMsg' = nextMsg /\ nextConv' = nextConv /\ lastRowid' = lastRowid
      /\ strayed' = strayed /\ sends' = sends /\ cycle' = cycle
  BY <1>1 DEF PurgeMessages, DeleteMessages
<1>3. ASSUME NEW q \in rtMsgs
      PROVE  /\ Bare(q) \in RtMsg /\ Bare(q).id = q.id /\ Bare(q).conv = q.conv /\ Bare(q).from = q.from
             /\ Bare(q).reply = q.reply /\ Bare(q).age = q.age /\ (q.id \notin ids => Bare(q).rows = q.rows)
  <2>1. q \in RtMsg
    BY DEF RtTables
  <2> QED
    BY <2>1 DEF RtMsg
<1> HIDE DEF Bare
<1>4. (\A i \in cycle'.ids : i < nextMsg)
  BY <1>2 DEF RtIds
<1>5. CASE Replies(ids) = {}
  <2>1. RepliesResolve' /\ rtMsgs' \subseteq rtMsgs /\ IsFiniteSet(rtMsgs')
    BY <1>2, <1>5, DeletionKept
  <2>2. RtTables'
    BY <1>2, <2>1 DEF RtTables
  <2>3. \A m, n \in rtMsgs' : m.id = n.id => m = n
    BY <2>1 DEF RtIds
  <2>4. RtIds' /\ ApartFromAgents' /\ WarningsAlone' /\ HasConversation'
    BY <1>2, <1>4, <2>1, <2>2, <2>3, FewerRows
  <2>5. RowsWithMessage' /\ OnlyExpired'
    BY <1>2, <1>5, <2>1 DEF RowsWithMessage, OnlyExpired
  <2> QED
    BY <2>1, <2>2, <2>4, <2>5
<1>6. CASE Replies(ids) # {}
  <2>1. rtMsgs' = {Bare(m) : m \in rtMsgs}
    BY <1>2, <1>6
  <2>2. f \in [rtMsgs -> RtMsg] /\ rtMsgs' = {f[q] : q \in rtMsgs} /\ \A q \in rtMsgs : f[q] = Bare(q)
    BY <1>3, <2>1
  <2> HIDE DEF f
  <2>3. f \in Surjection(rtMsgs, rtMsgs')
    BY <2>2 DEF Surjection
  <2>4. IsFiniteSet(rtMsgs')
    BY <2>3, FS_Surjection DEF RtTables
  <2>5. rtMsgs' \subseteq RtMsg
    BY <1>3, <2>1
  <2>6. RtTables'
    BY <1>2, <2>4, <2>5 DEF RtTables
  <2>7. \A q \in rtMsgs' : \E p \in rtMsgs : q = Bare(p)
    BY <2>1
  <2>8. \A m, n \in rtMsgs' : m.id = n.id => m = n
    BY <1>3, <2>7 DEF RtIds
  <2>9. \A q \in rtMsgs' : \E p \in rtMsgs : p.id = q.id /\ p.conv = q.conv /\ p.from = q.from
    BY <1>3, <2>7
  <2>10. RtIds' /\ ApartFromAgents' /\ WarningsAlone' /\ HasConversation'
    BY <1>2, <1>4, <2>6, <2>8, <2>9, FewerRows
  <2>11. RepliesResolve'
    <3> SUFFICES ASSUME NEW q \in rtMsgs', q.reply # NoRow PROVE \E n \in rtMsgs' : n.id = q.reply
      BY DEF RepliesResolve
    <3>1. PICK p \in rtMsgs : q = Bare(p)
      BY <2>7
    <3>2. PICK n \in rtMsgs : n.id = q.reply
      BY <1>3, <3>1 DEF RepliesResolve
    <3>3. Bare(n) \in rtMsgs' /\ Bare(n).id = q.reply
      BY <1>3, <2>1, <3>2
    <3> QED
      BY <3>3
  <2>12. RowsWithMessage'
    <3> SUFFICES ASSUME NEW q \in rtMsgs', ~q.rows PROVE q.id \in halfPurged'
      BY DEF RowsWithMessage
    <3>1. PICK p \in rtMsgs : q = Bare(p)
      BY <2>7
    <3> QED
      BY <1>2, <1>3, <1>6, <3>1 DEF RowsWithMessage
  <2>13. OnlyExpired'
    BY <1>2, <1>3, <2>7 DEF OnlyExpired
  <2> QED
    BY <2>6, <2>10, <2>11, <2>12, <2>13
<1> QED
  BY <1>5, <1>6

LEMMA RetentionStepInv ==
  ASSUME RetentionInv, [RetentionNext]_rtVars
  PROVE  RetentionInv'
<1>1. ASSUME UNCHANGED rtVars PROVE RetentionInv'
  BY <1>1 DEF RetentionInv, rtVars, RtTables, RtIds, ApartFromAgents, WarningsAlone, HasConversation,
              RepliesResolve, RowsWithMessage, OnlyExpired
<1>2. ASSUME NEW m \in rtMsgs,
             \/ ChangeStatus(m, "processing") \/ ChangeStatus(m, "done")
             \/ \E a \in Writers : SendReply(m, a, m.from) \/ SendReply(m, a, Nobody)
      PROVE  RetentionInv'
  <2>1. m.from \in Writers \union {System, Nobody} /\ Nobody \in Writers \union {System, Nobody}
    BY DEF RetentionInv, RtTables, RtMsg
  <2> QED
    BY <1>2, <2>1, StatusInv, ReplyInv
<1> QED
  BY <1>1, <1>2, OpenInv, SendFirstInv, TimeInv, CrashInv, RunCleanupInv, RowidInv, InsertWarningInv, WarnInv,
     SelectExpiredInv, DropEmptyInv, DeleteBatchInv, PurgeSelectInv, PurgeInv
  DEF RetentionNext

\* The buckets are disjoint and cover every age.
LEMMA BucketsAddUp ==
  ASSUME RtTables
  PROVE  AgesPartition
<1> DEFINE young == {m \in rtMsgs : m.age < Warned}
           warned == {m \in rtMsgs : m.age < Expired /\ m.age >= Warned}
           old == {m \in rtMsgs : m.age < Expired + 1 /\ m.age >= Warned /\ m.age >= Expired}
           ages == messageAgeDistribution({Warned, Expired})
<1>0. Warned \in Nat /\ Expired \in Nat /\ Warned < Expired /\ \A m \in rtMsgs : m.age \in Nat /\ m.age <= Expired
  BY RetentionAssumption DEF RtTables, RtMsg
<1>1. /\ {m \in rtMsgs : m.age < Warned /\ \A c \in {Warned, Expired} : c < Warned => m.age >= c} = young
      /\ {m \in rtMsgs : m.age < Expired /\ \A c \in {Warned, Expired} : c < Expired => m.age >= c} = warned
      /\ {m \in rtMsgs : m.age < Expired + 1 /\ \A c \in {Warned, Expired} : c < Expired + 1 => m.age >= c} = old
  BY <1>0
<1>2. /\ ages[Warned] = Cardinality(young) /\ ages[Expired] = Cardinality(warned)
      /\ ages[Expired + 1] = Cardinality(old)
  BY <1>1 DEF messageAgeDistribution
<1>3. young \intersect warned = {} /\ (young \union warned) \intersect old = {}
      /\ (young \union warned) \union old = rtMsgs
  BY <1>0
<1>4. IsFiniteSet(young) /\ IsFiniteSet(warned) /\ IsFiniteSet(old)
  BY FS_Subset DEF RtTables
<1> HIDE DEF young, warned, old, ages
<1>5. IsFiniteSet(young \union warned)
      /\ Cardinality(young \union warned) = Cardinality(young) + Cardinality(warned) - Cardinality(young \intersect warned)
  BY <1>4, FS_Union
<1>6. Cardinality((young \union warned) \union old)
        = Cardinality(young \union warned) + Cardinality(old) - Cardinality((young \union warned) \intersect old)
  BY <1>4, <1>5, FS_Union
<1>7. Cardinality({}) = 0 /\ Cardinality(young) \in Nat /\ Cardinality(warned) \in Nat /\ Cardinality(old) \in Nat
  BY <1>4, FS_EmptySet, FS_CardinalityType
<1>8. Cardinality(young) + Cardinality(warned) + Cardinality(old) = Cardinality(rtMsgs)
  <2>0. Cardinality(young \intersect warned) = 0
    BY <1>3, <1>7, Zenon
  <2>1. Cardinality(young \union warned) = Cardinality(young) + Cardinality(warned)
    BY <1>5, <1>7, <2>0
  <2>2. Cardinality(rtMsgs) = Cardinality(young \union warned) + Cardinality(old)
    <3>1. Cardinality(young \union warned) + Cardinality(old) - 0 = Cardinality(young \union warned) + Cardinality(old)
      BY <1>7, <2>1
    <3> QED
      BY <1>3, <1>6, <1>7, <3>1
  <2> QED
    BY <1>7, <2>1, <2>2
<1>9. handleRetentionStatus.ages = ages
  BY DEF handleRetentionStatus, Status, ages
<1> QED
  BY <1>2, <1>8, <1>9 DEF AgesPartition

LEMMA RetentionInvSafe == RetentionInv => RetentionSafe
<1> SUFFICES ASSUME RetentionInv PROVE RetentionSafe
  OBVIOUS
<1> USE DEF RetentionInv
<1>1. RetentionTypeOK
  BY RetentionAssumption DEF RetentionTypeOK, RtIds, RtTables, RtMsg
<1>2. NothingDangles
  BY DEF NothingDangles, HasConversation, RepliesResolve
<1>3. WarningsApart
  <2>1. \A w, q \in rtMsgs : q.id = w.id => q = w
    BY DEF RtIds
  <2> QED
    BY <2>1 DEF WarningsApart, WarningsAlone, Messages
<1>4. AgesPartition
  BY BucketsAddUp
<1> QED
  BY <1>1, <1>2, <1>3, <1>4 DEF RetentionSafe

\* The retention worker, purges, sends and crashes, in any interleaving and for
\* any batch size: no clean-up leaves a message without its conversation or a
\* reply without its message, it deletes only what has expired, a warning that
\* did not stray stands alone, and the ages reported add up.
THEOREM RetentionCorrect == RetentionSpec => []RetentionSafe
<1>1. RetentionInit => RetentionInv
  BY RetentionInitInv
<1>2. RetentionInv /\ [RetentionNext]_rtVars => RetentionInv'
  BY RetentionStepInv
<1>3. RetentionInv => RetentionSafe
  BY RetentionInvSafe
<1> QED
  BY <1>1, <1>2, <1>3, PTL DEF RetentionSpec

-----------------------------------------------------------------------------
(* Conversations: read pointers, threads and the views.                    *)

Names == Speakers \union {"system"}
CvMessage == [conv : Nat, from : Names, to : Speakers \union {NoRecipient}, room : Rooms \union {0},
              reply : Nat, status : {"pending", "processing", "done"}]
CvConv == [subject : Topics \union {NoSubject}, room : Rooms \union {0},
           pair : SUBSET (Names \union {NoRecipient}), since : Nat]
CvSend == [pc : {"conversation", "message"}, conv : Nat, since : Nat, from : Names,
           to : Speakers \union {NoRecipient}, room : Rooms \union {0},
           subject : Topics \union {NoSubject}, reply : Nat]
CvMark == [pc : {"mark"}, agent : Speakers, marks : SUBSET (Nat \X Nat)]

\* The tables and the requests, with the capacities a send reserves.
CvTables ==
  /\ messages \in Seq(CvMessage) /\ convs \in Seq(CvConv)
  /\ posts \in [Posts -> {AtRest} \union CvSend \union CvMark]
  /\ lastRead \in [Speakers -> [1..MaxConversations -> Nat]]
  /\ Len(convs) <= MaxConversations
  /\ Len(messages) + Cardinality(Sending) <= MaxMessages

\* What a row or a request refers to exists, and a message goes to an agent or
\* to a channel.
CvRefers ==
  /\ \A i \in MsgIds : /\ messages[i].conv \in ConvIds /\ messages[i].reply < i
                       /\ messages[i].to = NoRecipient <=> messages[i].room # 0
  /\ \A k \in ConvIds : convs[k].since <= Len(messages)
  /\ \A s \in Sending : /\ posts[s].since <= Len(messages) /\ posts[s].reply <= Len(messages)
                        /\ posts[s].to = NoRecipient <=> posts[s].room # 0
                        /\ posts[s].pc = "message" => posts[s].conv \in ConvIds
  /\ \A a \in Speakers, k \in 1..MaxConversations :
       /\ lastRead[a][k] <= MaxLast
       /\ \A i \in Nat : i > Len(messages) /\ i <= lastRead[a][k] => a = Human /\ <<k, i>> \in ahead

\* A message was returned, left out by a read that saw it, or marked too early.
CvSeen(a, k, i) == <<a, i>> \in returned \union passed \/ (a = Human /\ <<k, i>> \in ahead)

\* A send that is about to begin a thread looked when there was none.
CvLooked ==
  \A s \in Posts :
    posts[s].pc = "conversation" /\ posts[s].room = 0 /\ posts[s].subject # NoSubject =>
      \A i \in MsgIds :
        /\ convs[messages[i].conv].subject = posts[s].subject /\ convs[messages[i].conv].room = 0
        /\ {messages[i].from, messages[i].to} = {posts[s].from, posts[s].to}
        => i > posts[s].since

\* A pointer that a read is about to move passes nothing unseen.
CvMarks ==
  \A r \in Posts : posts[r].pc = "mark" =>
    \A mark \in posts[r].marks :
      /\ mark[2] <= MaxLast
      /\ \A i \in MsgIds :
           messages[i].conv = mark[1] /\ messages[i].to = posts[r].agent /\ i <= mark[2]
           => CvSeen(posts[r].agent, mark[1], i)
      /\ \A i \in Nat : i > Len(messages) /\ i <= mark[2]
           => posts[r].agent = Human /\ <<mark[1], i>> \in ahead

CvInv == CvTables /\ CvRefers /\ CvLooked /\ CvMarks /\ ThreadsJoin /\ NothingMissed

\* The rows of the tables, one by one.
LEMMA CvRows ==
  ASSUME CvTables
  PROVE  /\ \A i \in MsgIds : messages[i] \in CvMessage
         /\ \A k \in ConvIds : convs[k] \in CvConv
         /\ Len(messages) \in Nat /\ Len(convs) \in Nat
BY DEF CvTables, MsgIds, ConvIds

\* A request is at rest, sending or marking.
LEMMA CvKinds ==
  ASSUME CvTables, NEW s \in Posts
  PROVE  /\ posts[s] \in {AtRest} \union CvSend \union CvMark
         /\ posts[s].pc \in {"idle", "conversation", "message", "mark"}
         /\ posts[s].pc = "idle" <=> posts[s] = AtRest
         /\ posts[s].pc \in {"conversation", "message"} <=> posts[s] \in CvSend
         /\ posts[s].pc = "mark" <=> posts[s] \in CvMark
         /\ s \in Sending <=> posts[s] \in CvSend
<1>1. posts[s] \in {AtRest} \union CvSend \union CvMark
  BY DEF CvTables
<1>2. CASE posts[s] = AtRest
  BY <1>1, <1>2 DEF AtRest, CvSend, CvMark, Sending
<1>3. CASE posts[s] \in CvSend
  BY <1>1, <1>3 DEF AtRest, CvSend, CvMark, Sending
<1>4. CASE posts[s] \in CvMark
  BY <1>1, <1>4 DEF AtRest, CvSend, CvMark, Sending
<1> QED
  BY <1>1, <1>2, <1>3, <1>4

LEMMA SendingFinite ==
  /\ IsFiniteSet(Sending) /\ Cardinality(Sending) \in Nat
<1>1. Sending \subseteq Posts
  BY DEF Sending
<1>2. IsFiniteSet(Sending)
  BY <1>1, FS_Subset, ConversationsAssumption
<1> QED
  BY <1>2, FS_CardinalityType

\* The larger of two numbers.
LEMMA MaxOfTwo ==
  ASSUME NEW x \in Nat, NEW y \in Nat
  PROVE  Max({x, y}) \in {x, y} /\ Max({x, y}) >= x /\ Max({x, y}) >= y
<1> DEFINE T == {x, y}
<1>1. \E u \in T : \A v \in T : u >= v
  OBVIOUS
<1>2. Max(T) \in T /\ \A v \in T : Max(T) >= v
  BY <1>1 DEF Max
<1> QED
  BY <1>2

LEMMA CvInitInv == ConversationsInit => CvInv
<1> SUFFICES ASSUME ConversationsInit PROVE CvInv
  OBVIOUS
<1> USE ConversationsAssumption DEF ConversationsInit
<1>0. Len(messages) = 0 /\ Len(convs) = 0 /\ MsgIds = {} /\ ConvIds = {}
  BY DEF MsgIds, ConvIds
<1>1. Sending = {}
  BY DEF Sending, AtRest
<1>2. Cardinality(Sending) = 0
  BY <1>1, FS_EmptySet, Zenon
<1>3. CvTables
  BY <1>0, <1>2 DEF CvTables
<1>4. CvRefers
  BY <1>0, <1>1 DEF CvRefers
<1>5. CvLooked /\ CvMarks
  BY DEF CvLooked, CvMarks, AtRest
<1>6. ThreadsJoin /\ NothingMissed
  BY <1>0 DEF ThreadsJoin, NothingMissed
<1> QED
  BY <1>3, <1>4, <1>5, <1>6 DEF CvInv

\* A request changes from one state to another: what that means for the
\* number of sends.
LEMMA SendingMoves ==
  ASSUME NEW s \in Posts, NEW q, posts \in [Posts -> {AtRest} \union CvSend \union CvMark],
         posts' = [posts EXCEPT ![s] = q], q \in {AtRest} \union CvSend \union CvMark
  PROVE  /\ posts' \in [Posts -> {AtRest} \union CvSend \union CvMark]
         /\ Cardinality(Sending) \in Nat /\ Cardinality(Sending') \in Nat
         /\ q.pc \in {"conversation", "message"} =>
              /\ Sending' = Sending \union {s}
              /\ Cardinality(Sending') <= Cardinality(Sending) + 1
              /\ s \in Sending => Cardinality(Sending') = Cardinality(Sending)
         /\ q.pc \notin {"conversation", "message"} =>
              /\ Sending' = Sending \ {s}
              /\ Cardinality(Sending') <= Cardinality(Sending)
              /\ s \in Sending => Cardinality(Sending') = Cardinality(Sending) - 1
<1>1. posts' \in [Posts -> {AtRest} \union CvSend \union CvMark]
  OBVIOUS
<1>2. Sending' = IF q.pc \in {"conversation", "message"} THEN Sending \union {s} ELSE Sending \ {s}
  BY DEF Sending
<1>3. IsFiniteSet(Sending) /\ Cardinality(Sending) \in Nat
  BY SendingFinite
<1>4. CASE q.pc \in {"conversation", "message"}
  <2>1. Sending' = Sending \union {s}
    BY <1>2, <1>4
  <2>2. Cardinality(Sending \union {s}) = IF s \in Sending THEN Cardinality(Sending) ELSE Cardinality(Sending) + 1
    BY <1>3, FS_AddElement
  <2>3. Cardinality(Sending') = Cardinality(Sending \union {s})
    BY <2>1, Zenon
  <2> QED
    BY <1>1, <1>3, <1>4, <2>1, <2>2, <2>3
<1>5. CASE q.pc \notin {"conversation", "message"}
  <2>1. Sending' = Sending \ {s}
    BY <1>2, <1>5
  <2>2. Cardinality(Sending \ {s}) = IF s \in Sending THEN Cardinality(Sending) - 1 ELSE Cardinality(Sending)
    BY <1>3, FS_RemoveElement
  <2>3. Cardinality(Sending') = Cardinality(Sending \ {s})
    BY <2>1, Zenon
  <2>4. s \in Sending => Cardinality(Sending) - 1 \in Nat
    <3>1. IsFiniteSet(Sending \ {s})
      BY <1>3, FS_Subset
    <3>2. Cardinality(Sending \ {s}) \in Nat
      BY <3>1, FS_CardinalityType
    <3> QED
      BY <2>2, <3>2
  <2> QED
    BY <1>1, <1>3, <1>5, <2>1, <2>2, <2>3, <2>4
<1> QED
  BY <1>4, <1>5

\* A request ends and changes no table.
LEMMA CvRests ==
  ASSUME CvInv, NEW s \in Posts, posts' = [posts EXCEPT ![s] = AtRest],
         UNCHANGED <<convs, messages, lastRead, returned, passed, ahead>>
  PROVE  CvInv'
<1> USE DEF CvInv
<1>0. AtRest.pc = "idle" /\ MsgIds' = MsgIds /\ ConvIds' = ConvIds
  BY DEF AtRest, MsgIds, ConvIds
<1>1. /\ posts' \in [Posts -> {AtRest} \union CvSend \union CvMark]
      /\ Sending' = Sending \ {s} /\ Cardinality(Sending') <= Cardinality(Sending)
      /\ Cardinality(Sending) \in Nat /\ Cardinality(Sending') \in Nat
  BY <1>0, SendingMoves DEF CvTables
<1>2. CvTables'
  <2>1. Len(messages) \in Nat /\ MaxMessages \in Nat
    BY ConversationsAssumption, CvRows
  <2> QED
    BY <1>1, <2>1 DEF CvTables
<1>3. \A r \in Posts : r # s => posts'[r] = posts[r]
  OBVIOUS
<1>4. posts'[s].pc = "idle"
  BY <1>0, <1>1 DEF CvTables
<1>5. CvRefers'
  <2>1. \A r \in Sending' : r \in Sending /\ posts'[r] = posts[r]
    BY <1>1, <1>3 DEF Sending
  <2> QED
    BY <1>0, <2>1 DEF CvRefers
<1>6. CvLooked'
  BY <1>0, <1>3, <1>4, ZenonT(40) DEF CvLooked
<1>7. CvMarks'
  BY <1>0, <1>3, <1>4 DEF CvMarks, CvSeen
<1>8. ThreadsJoin' /\ NothingMissed'
  BY <1>0 DEF ThreadsJoin, NothingMissed
<1> QED
  BY <1>2, <1>5, <1>6, <1>7, <1>8

\* The newest conversation that is found is one of them.
LEMMA FoundIsOne ==
  ASSUME CvTables, NEW T, T \subseteq ConvIds, T # {}
  PROVE  Max(T) \in ConvIds
<1>1. Len(convs) \in Nat /\ T \subseteq 0..Len(convs)
  BY CvRows DEF ConvIds
<1>2. Max(T) \in T
  BY <1>1, MaxOf
<1> QED
  BY <1>2

LEMMA CvSendStep ==
  ASSUME CvInv, NEW s \in Posts, NEW from \in Names, NEW to \in Speakers \union {NoRecipient},
         NEW room \in Rooms \union {0}, NEW conv \in Nat, NEW subject \in Topics \union {NoSubject},
         NEW reply \in Nat, reply <= Len(messages),
         SendMessage(s, from, to, room, conv, subject, reply)
  PROVE  CvInv'
<1> USE DEF CvInv
<1> DEFINE found == IF conv # 0 THEN {conv}
                    ELSE IF subject # NoSubject /\ to # NoRecipient THEN FindConversation(subject, from, to)
                    ELSE {}
           rec == [pc |-> IF found = {} THEN "conversation" ELSE "message",
                   conv |-> IF found = {} THEN 0 ELSE Max(found), since |-> Len(messages),
                   from |-> from, to |-> to, room |-> room, subject |-> subject, reply |-> reply]
<1>0. /\ posts' = [posts EXCEPT ![s] = rec] /\ posts[s] = AtRest
      /\ Len(messages) + Cardinality(Sending) < MaxMessages /\ (to = NoRecipient) # (room = 0)
      /\ conv = 0 \/ conv \in ConvIds
      /\ UNCHANGED <<convs, messages, lastRead, returned, passed, ahead>>
  BY DEF SendMessage
<1>1. found \subseteq ConvIds
  BY <1>0 DEF FindConversation
<1>2. /\ found = {} => rec.pc = "conversation" /\ rec.conv = 0
      /\ found # {} => rec.pc = "message" /\ rec.conv \in ConvIds
  <2>1. found # {} => Max(found) \in ConvIds
    <3> HIDE DEF found
    <3> QED
      BY <1>1, FoundIsOne
  <2> QED
    BY <2>1
<1>3. /\ rec.since = Len(messages) /\ rec.from = from /\ rec.to = to /\ rec.room = room
      /\ rec.subject = subject /\ rec.reply = reply
  OBVIOUS
<1>4. rec \in CvSend
  <2>1. ConvIds \subseteq Nat /\ Len(messages) \in Nat
    BY CvRows DEF ConvIds
  <2>2. rec.conv \in Nat /\ rec.pc \in {"conversation", "message"}
    BY <1>2, <2>1
  <2> QED
    BY <2>1, <2>2 DEF CvSend
<1>5. found = {} /\ room = 0 /\ subject # NoSubject =>
        \A i \in MsgIds :
          ~ /\ convs[messages[i].conv].subject = subject /\ convs[messages[i].conv].room = 0
            /\ {messages[i].from, messages[i].to} = {from, to}
  <2> SUFFICES ASSUME found = {}, room = 0, subject # NoSubject PROVE
        \A i \in MsgIds :
          ~ /\ convs[messages[i].conv].subject = subject /\ convs[messages[i].conv].room = 0
            /\ {messages[i].from, messages[i].to} = {from, to}
    OBVIOUS
  <2>1. FindConversation(subject, from, to) = {}
    BY <1>0
  <2> QED
    BY <2>1 DEF FindConversation, Between, CvRefers
<1> HIDE DEF found, rec
<1>6. MsgIds' = MsgIds /\ ConvIds' = ConvIds
  BY <1>0 DEF MsgIds, ConvIds
<1>7. /\ posts' \in [Posts -> {AtRest} \union CvSend \union CvMark]
      /\ Sending' = Sending \union {s} /\ Cardinality(Sending') <= Cardinality(Sending) + 1
      /\ Cardinality(Sending) \in Nat /\ Cardinality(Sending') \in Nat
  <2>1. rec.pc \in {"conversation", "message"}
    BY <1>2
  <2> QED
    BY <1>0, <1>4, <2>1, SendingMoves DEF CvTables
<1>8. CvTables'
  <2>1. Len(messages) \in Nat /\ MaxMessages \in Nat
    BY ConversationsAssumption, CvRows
  <2> QED
    BY <1>0, <1>7, <2>1 DEF CvTables
<1>9. posts'[s] = rec /\ \A r \in Posts : r # s => posts'[r] = posts[r]
  BY <1>0 DEF CvTables
<1>10. CvRefers'
  <2>1. \A r \in Sending : r # s => posts'[r] = posts[r]
    BY <1>9 DEF Sending
  <2>2. Len(messages) \in Nat
    BY CvRows
  <2>3. \A r \in Sending' : /\ posts'[r].since <= Len(messages) /\ posts'[r].reply <= Len(messages)
                            /\ posts'[r].to = NoRecipient <=> posts'[r].room # 0
                            /\ posts'[r].pc = "message" => posts'[r].conv \in ConvIds
    BY <1>0, <1>2, <1>3, <1>7, <1>9, <2>1, <2>2 DEF CvRefers
  <2> QED
    BY <1>0, <1>6, <2>3 DEF CvRefers
<1>11. CvLooked'
  <2> SUFFICES ASSUME NEW r \in Posts, posts'[r].pc = "conversation", posts'[r].room = 0,
                      posts'[r].subject # NoSubject, NEW i \in MsgIds,
                      convs[messages[i].conv].subject = posts'[r].subject,
                      convs[messages[i].conv].room = 0,
                      {messages[i].from, messages[i].to} = {posts'[r].from, posts'[r].to}
               PROVE  i > posts'[r].since
    BY <1>0, <1>6 DEF CvLooked
  <2>1. CASE r # s
    BY <1>9, <2>1 DEF CvLooked
  <2>2. CASE r = s
    BY <1>2, <1>3, <1>5, <1>9, <2>2
  <2> QED
    BY <2>1, <2>2
<1>12. CvMarks'
  <2>1. rec.pc # "mark"
    BY <1>2
  <2> QED
    BY <1>0, <1>6, <1>9, <2>1 DEF CvMarks, CvSeen
<1>13. ThreadsJoin' /\ NothingMissed'
  BY <1>0, <1>6 DEF ThreadsJoin, NothingMissed
<1> QED
  BY <1>8, <1>10, <1>11, <1>12, <1>13

LEMMA CvBegun ==
  ASSUME NEW q \in CvSend, NEW n \in Nat
  PROVE  /\ [q EXCEPT !.pc = "message", !.conv = n] \in CvSend
         /\ [q EXCEPT !.pc = "message", !.conv = n].pc = "message"
         /\ [q EXCEPT !.pc = "message", !.conv = n].conv = n
         /\ [q EXCEPT !.pc = "message", !.conv = n].since = q.since
         /\ [q EXCEPT !.pc = "message", !.conv = n].reply = q.reply
         /\ [q EXCEPT !.pc = "message", !.conv = n].to = q.to
         /\ [q EXCEPT !.pc = "message", !.conv = n].room = q.room
         /\ [subject |-> q.subject, room |-> q.room, pair |-> {q.from, q.to}, since |-> q.since] \in CvConv
<1> DEFINE r == [q EXCEPT !.pc = "message", !.conv = n]
<1>1. r.pc = "message" /\ r.conv = n /\ r.since = q.since /\ r.reply = q.reply /\ r.to = q.to /\ r.room = q.room
  BY DEF CvSend
<1>2. r \in CvSend
  <2>1. /\ "message" \in {"conversation", "message"} /\ n \in Nat
    OBVIOUS
  <2> QED
    BY <2>1 DEF CvSend
<1>3. /\ q.subject \in Topics \union {NoSubject} /\ q.room \in Rooms \union {0} /\ q.since \in Nat
      /\ {q.from, q.to} \in SUBSET (Names \union {NoRecipient})
  BY DEF CvSend, Names
<1> QED
  BY <1>1, <1>2, <1>3 DEF CvConv

LEMMA CvConversationStep ==
  ASSUME CvInv, NEW s \in Posts, InsertConversation(s)
  PROVE  CvInv'
<1> USE DEF CvInv
<1> DEFINE q == posts[s]
           n == Len(convs)
           row == [subject |-> q.subject, room |-> q.room, pair |-> {q.from, q.to}, since |-> q.since]
           rec == [q EXCEPT !.pc = "message", !.conv = n + 1]
<1>0. /\ q.pc = "conversation" /\ n < MaxConversations /\ convs' = Append(convs, row)
      /\ UNCHANGED <<messages, lastRead, returned, passed, ahead>>
  BY DEF InsertConversation
<1>1. q \in CvSend /\ s \in Sending /\ n \in Nat /\ Len(messages) \in Nat
  BY <1>0, CvKinds, CvRows
<1>2. rec \in CvSend /\ rec.pc = "message" /\ rec.conv = n + 1 /\ rec.since = q.since
      /\ rec.reply = q.reply /\ rec.to = q.to /\ rec.room = q.room
  <2> HIDE DEF q, n
  <2>1. n + 1 \in Nat
    BY <1>1
  <2> QED
    BY <1>1, <2>1, CvBegun
<1>3. posts' = [posts EXCEPT ![s] = rec]
  BY DEF InsertConversation, CvTables
<1>4. row \in CvConv /\ row.subject = q.subject /\ row.room = q.room /\ row.pair = {q.from, q.to} /\ row.since = q.since
  <2> HIDE DEF q
  <2> QED
    BY <1>1, CvBegun
<1> HIDE DEF rec, row
<1>5. /\ convs' \in Seq(CvConv) /\ Len(convs') = n + 1 /\ convs'[n + 1] = row
      /\ \A k \in ConvIds : convs'[k] = convs[k]
      /\ MsgIds' = MsgIds /\ ConvIds' = ConvIds \union {n + 1} /\ n + 1 \notin ConvIds
  <2>1. convs \in Seq(CvConv)
    BY DEF CvTables
  <2> QED
    BY <1>0, <1>1, <1>4, <2>1 DEF MsgIds, ConvIds
<1>6. /\ posts' \in [Posts -> {AtRest} \union CvSend \union CvMark]
      /\ Sending' = Sending /\ Cardinality(Sending') = Cardinality(Sending)
  <2>1. rec.pc \in {"conversation", "message"}
    BY <1>2
  <2>2. Sending \union {s} = Sending
    BY <1>1
  <2> QED
    BY <1>1, <1>2, <1>3, <2>1, <2>2, SendingMoves DEF CvTables
<1>7. CvTables'
  BY <1>0, <1>1, <1>5, <1>6, ConversationsAssumption DEF CvTables
<1>8. posts'[s] = rec /\ \A r \in Posts : r # s => posts'[r] = posts[r]
  BY <1>3 DEF CvTables
<1>9. CvRefers'
  <2>1. \A k \in ConvIds' : convs'[k].since <= Len(messages)
    BY <1>1, <1>4, <1>5 DEF CvRefers
  <2>2. \A r \in Sending' : /\ posts'[r].since <= Len(messages) /\ posts'[r].reply <= Len(messages)
                            /\ posts'[r].to = NoRecipient <=> posts'[r].room # 0
                            /\ posts'[r].pc = "message" => posts'[r].conv \in ConvIds'
    <3>1. \A r \in Sending : r \in Posts
      BY DEF Sending
    <3> QED
      BY <1>1, <1>2, <1>5, <1>6, <1>8, <3>1 DEF CvRefers
  <2> QED
    BY <1>0, <1>5, <2>1, <2>2 DEF CvRefers
<1>10. \A i \in MsgIds : messages[i].conv \in ConvIds /\ convs'[messages[i].conv] = convs[messages[i].conv]
  BY <1>5 DEF CvRefers
<1>11. CvLooked'
  <2> SUFFICES ASSUME NEW r \in Posts, posts'[r].pc = "conversation", posts'[r].room = 0,
                      posts'[r].subject # NoSubject, NEW i \in MsgIds,
                      convs'[messages[i].conv].subject = posts'[r].subject,
                      convs'[messages[i].conv].room = 0,
                      {messages[i].from, messages[i].to} = {posts'[r].from, posts'[r].to}
               PROVE  i > posts'[r].since
    BY <1>0, <1>5 DEF CvLooked
  <2>1. r # s
    BY <1>2, <1>8
  <2> QED
    BY <1>8, <1>10, <2>1 DEF CvLooked
<1>12. CvMarks'
  <2>1. \A r \in Posts : posts'[r].pc = "mark" => posts'[r] = posts[r]
    BY <1>2, <1>8
  <2> QED
    BY <1>0, <1>5, <2>1 DEF CvMarks, CvSeen
<1>13. ThreadsJoin'
  <2> SUFFICES ASSUME NEW j \in ConvIds', NEW k \in ConvIds', j # k,
                      convs'[k].subject # NoSubject, convs'[k].subject = convs'[j].subject,
                      convs'[k].room = 0, convs'[j].room = 0,
                      NEW i \in MsgIds', messages'[i].conv = j,
                      {messages'[i].from, messages'[i].to} = convs'[k].pair
               PROVE  i > convs'[k].since
    BY DEF ThreadsJoin
  <2>1. /\ i \in MsgIds /\ messages[i].conv = j /\ j \in ConvIds /\ convs'[j] = convs[j]
        /\ {messages[i].from, messages[i].to} = convs'[k].pair
    BY <1>0, <1>5, <1>10
  <2>2. CASE k = n + 1
    <3>1. /\ q.subject # NoSubject /\ q.subject = convs[j].subject /\ q.room = 0 /\ convs[j].room = 0
          /\ {messages[i].from, messages[i].to} = {q.from, q.to} /\ convs'[k].since = q.since
      BY <1>4, <1>5, <2>1, <2>2
    <3> QED
      BY <1>0, <2>1, <3>1, ZenonT(40) DEF CvLooked
  <2>3. CASE k # n + 1
    BY <1>5, <2>1, <2>3 DEF ThreadsJoin
  <2> QED
    BY <2>2, <2>3
<1>14. NothingMissed'
  BY <1>0, <1>5 DEF NothingMissed
<1> QED
  BY <1>7, <1>9, <1>11, <1>12, <1>13, <1>14

LEMMA CvMessageStep ==
  ASSUME CvInv, NEW s \in Posts, InsertMessage(s)
  PROVE  CvInv'
<1> USE DEF CvInv
<1> DEFINE q == posts[s]
           n == Len(messages)
           row == [conv |-> q.conv, from |-> q.from, to |-> q.to, room |-> q.room,
                   reply |-> q.reply, status |-> "pending"]
<1>0. /\ q.pc = "message" /\ messages' = Append(messages, row) /\ posts' = [posts EXCEPT ![s] = AtRest]
      /\ UNCHANGED <<convs, lastRead, returned, passed, ahead>>
  BY DEF InsertMessage
<1>1. q \in CvSend /\ s \in Sending /\ n \in Nat
  BY <1>0, CvKinds, CvRows
<1>2. /\ row \in CvMessage /\ row.conv = q.conv /\ row.reply = q.reply /\ row.to = q.to
      /\ row.room = q.room
  BY <1>1 DEF CvSend, CvMessage
<1> HIDE DEF row
<1>3. /\ messages' \in Seq(CvMessage) /\ Len(messages') = n + 1 /\ messages'[n + 1] = row
      /\ \A i \in MsgIds : messages'[i] = messages[i] /\ i <= n
      /\ ConvIds' = ConvIds /\ MsgIds' = MsgIds \union {n + 1} /\ n + 1 \notin MsgIds
      /\ MsgIds' \subseteq Nat
  <2>1. messages \in Seq(CvMessage)
    BY DEF CvTables
  <2> QED
    BY <1>0, <1>1, <1>2, <2>1 DEF MsgIds, ConvIds
<1>4. /\ posts' \in [Posts -> {AtRest} \union CvSend \union CvMark] /\ AtRest.pc = "idle"
      /\ Sending' = Sending \ {s} /\ Cardinality(Sending') = Cardinality(Sending) - 1
      /\ Cardinality(Sending) \in Nat /\ Cardinality(Sending') \in Nat
  <2>1. AtRest.pc = "idle"
    BY DEF AtRest
  <2> QED
    BY <1>0, <1>1, <2>1, SendingMoves DEF CvTables
<1>5. CvTables'
  <2>1. n + Cardinality(Sending) <= MaxMessages /\ MaxMessages \in Nat
    BY ConversationsAssumption DEF CvTables
  <2>2. Len(messages') + Cardinality(Sending') <= MaxMessages
    BY <1>1, <1>3, <1>4, <2>1
  <2> QED
    BY <1>0, <1>3, <1>4, <2>2 DEF CvTables
<1>6. posts'[s] = AtRest /\ \A r \in Posts : r # s => posts'[r] = posts[r]
  BY <1>0 DEF CvTables
<1>7. /\ q.conv \in ConvIds /\ q.reply <= n /\ (q.to = NoRecipient <=> q.room # 0) /\ q.reply \in Nat
  BY <1>0, <1>1 DEF CvRefers, CvSend
<1>8. CvRefers'
  <2>1. \A i \in MsgIds' : /\ messages'[i].conv \in ConvIds' /\ messages'[i].reply < i
                           /\ messages'[i].to = NoRecipient <=> messages'[i].room # 0
    BY <1>1, <1>2, <1>3, <1>7 DEF CvRefers
  <2>2. \A k \in ConvIds : convs[k].since <= n + 1
    BY <1>1, CvRows DEF CvRefers, CvConv
  <2>3. \A r \in Sending' : /\ posts'[r].since <= n + 1 /\ posts'[r].reply <= n + 1
                            /\ posts'[r].to = NoRecipient <=> posts'[r].room # 0
                            /\ posts'[r].pc = "message" => posts'[r].conv \in ConvIds
    <3>1. \A r \in Sending' : r \in Posts /\ r \in Sending /\ posts'[r] = posts[r]
      BY <1>4, <1>6 DEF Sending
    <3>2. \A r \in Sending' : posts[r].since \in Nat /\ posts[r].reply \in Nat
      BY <3>1, CvKinds DEF CvSend
    <3> QED
      BY <1>1, <3>1, <3>2 DEF CvRefers
  <2>4. \A a \in Speakers, k \in 1..MaxConversations :
          /\ lastRead[a][k] <= MaxLast
          /\ \A i \in Nat : i > n + 1 /\ i <= lastRead[a][k] => a = Human /\ <<k, i>> \in ahead
    BY <1>1 DEF CvRefers
  <2> QED
    BY <1>0, <1>3, <2>1, <2>2, <2>3, <2>4 DEF CvRefers
<1>9. CvLooked'
  <2> SUFFICES ASSUME NEW r \in Posts, posts'[r].pc = "conversation", posts'[r].room = 0,
                      posts'[r].subject # NoSubject, NEW i \in MsgIds',
                      convs[messages'[i].conv].subject = posts'[r].subject,
                      convs[messages'[i].conv].room = 0,
                      {messages'[i].from, messages'[i].to} = {posts'[r].from, posts'[r].to}
               PROVE  i > posts'[r].since
    BY <1>0 DEF CvLooked
  <2>1. r # s /\ posts'[r] = posts[r]
    BY <1>4, <1>6
  <2>2. CASE i \in MsgIds
    BY <1>3, <2>1, <2>2 DEF CvLooked
  <2>3. CASE i = n + 1
    <3>1. posts[r] \in CvSend /\ r \in Sending
      BY <2>1, CvKinds
    <3>2. posts[r].since \in Nat /\ posts[r].since <= n
      BY <3>1 DEF CvSend, CvRefers
    <3> QED
      BY <1>1, <2>1, <2>3, <3>2
  <2> QED
    BY <1>3, <2>2, <2>3
<1>10. CvMarks'
  <2> SUFFICES ASSUME NEW r \in Posts, posts'[r].pc = "mark", NEW mark \in posts'[r].marks
               PROVE  /\ mark[2] <= MaxLast
                      /\ \A i \in MsgIds' : messages'[i].conv = mark[1] /\ messages'[i].to = posts'[r].agent
                                            /\ i <= mark[2]
                           => CvSeen(posts'[r].agent, mark[1], i)
                      /\ \A i \in Nat : i > n + 1 /\ i <= mark[2]
                           => posts'[r].agent = Human /\ <<mark[1], i>> \in ahead
    BY <1>0, <1>3 DEF CvMarks, CvSeen
  <2>1. r # s /\ posts'[r] = posts[r]
    BY <1>4, <1>6
  <2>2. mark \in Nat \X Nat
    BY <2>1, CvKinds DEF CvMark
  <2>3. mark[2] \in Nat /\ mark[2] <= MaxLast
        /\ \A i \in Nat : i > n /\ i <= mark[2] => posts[r].agent = Human /\ <<mark[1], i>> \in ahead
    BY <2>1, <2>2 DEF CvMarks
  <2>4. ASSUME NEW i \in MsgIds', messages'[i].conv = mark[1], messages'[i].to = posts'[r].agent, i <= mark[2]
        PROVE  CvSeen(posts'[r].agent, mark[1], i)
    <3>1. CASE i \in MsgIds
      BY <1>3, <2>1, <2>4, <3>1 DEF CvMarks
    <3>2. CASE i = n + 1
      BY <1>1, <2>1, <2>3, <2>4, <3>2 DEF CvSeen
    <3> QED
      BY <1>3, <3>1, <3>2
  <2> QED
    BY <1>1, <2>1, <2>3, <2>4
<1>11. ThreadsJoin'
  <2> SUFFICES ASSUME NEW j \in ConvIds', NEW k \in ConvIds', j # k,
                      convs'[k].subject # NoSubject, convs'[k].subject = convs'[j].subject,
                      convs'[k].room = 0, convs'[j].room = 0,
                      NEW i \in MsgIds', messages'[i].conv = j,
                      {messages'[i].from, messages'[i].to} = convs'[k].pair
               PROVE  i > convs'[k].since
    BY DEF ThreadsJoin
  <2>1. j \in ConvIds /\ k \in ConvIds /\ convs' = convs
    BY <1>0, <1>3
  <2>2. CASE i \in MsgIds
    BY <1>3, <2>1, <2>2 DEF ThreadsJoin
  <2>3. CASE i = n + 1
    <3>1. convs[k].since \in Nat /\ convs[k].since <= n
      BY <2>1, CvRows DEF CvConv, CvRefers
    <3> QED
      BY <1>1, <2>1, <2>3, <3>1
  <2> QED
    BY <1>3, <2>2, <2>3
<1>12. NothingMissed'
  <2> SUFFICES ASSUME NEW a \in Speakers, NEW i \in MsgIds', messages'[i].to = a,
                      i <= lastRead[a][messages'[i].conv]
               PROVE  CvSeen(a, messages'[i].conv, i)
    BY <1>0 DEF NothingMissed, CvSeen
  <2>1. messages'[i].conv \in 1..MaxConversations
    BY <1>3, <1>8, ConversationsAssumption DEF CvRefers, ConvIds, CvTables
  <2>2. CASE i \in MsgIds
    BY <1>3, <2>2 DEF NothingMissed, CvSeen
  <2>3. CASE i = n + 1
    BY <1>1, <2>1, <2>3 DEF CvRefers, CvSeen
  <2> QED
    BY <1>3, <2>2, <2>3
<1> QED
  BY <1>5, <1>8, <1>9, <1>10, <1>11, <1>12

\* The pointer that decides whether a message is read.
LEMMA CvPointer ==
  ASSUME CvTables, CvRefers, NEW a \in Speakers, NEW i \in MsgIds
  PROVE  /\ messages[i].conv \in 1..MaxConversations /\ i \in Nat
         /\ lastRead[a][messages[i].conv] \in Nat
<1>1. messages[i].conv \in ConvIds /\ Len(convs) \in Nat /\ Len(messages) \in Nat /\ MaxConversations \in Nat
      /\ Len(convs) <= MaxConversations
  BY CvRows, ConversationsAssumption DEF CvRefers, CvTables
<1>2. messages[i].conv \in 1..MaxConversations /\ i \in Nat
  BY <1>1 DEF ConvIds, MsgIds
<1> QED
  BY <1>2 DEF CvTables, CvRefers

\* A read or a mark that records what it leaves out may move its pointers.
LEMMA CvMarkStart ==
  ASSUME CvInv, NEW r \in Posts, NEW a \in Speakers, NEW marks \in SUBSET (Nat \X Nat),
         posts' = [posts EXCEPT ![r] = [pc |-> "mark", agent |-> a, marks |-> marks]],
         returned \subseteq returned', passed \subseteq passed', ahead \subseteq ahead',
         UNCHANGED <<convs, messages, lastRead>>,
         \A mark \in marks :
           /\ mark[2] <= MaxLast
           /\ \A i \in MsgIds : messages[i].conv = mark[1] /\ messages[i].to = a /\ i <= mark[2]
                => <<a, i>> \in returned' \union passed' \/ (a = Human /\ <<mark[1], i>> \in ahead)
           /\ \A i \in Nat : i > Len(messages) /\ i <= mark[2] => a = Human /\ <<mark[1], i>> \in ahead'
  PROVE  CvInv'
<1> USE DEF CvInv
<1> DEFINE q == [pc |-> "mark", agent |-> a, marks |-> marks]
<1>0. MsgIds' = MsgIds /\ ConvIds' = ConvIds
  BY DEF MsgIds, ConvIds
<1>1. q \in CvMark /\ q.pc = "mark" /\ q.agent = a /\ q.marks = marks
  BY DEF CvMark
<1> HIDE DEF q
<1>2. /\ posts' \in [Posts -> {AtRest} \union CvSend \union CvMark]
      /\ Sending' = Sending \ {r} /\ Cardinality(Sending') <= Cardinality(Sending)
      /\ Cardinality(Sending) \in Nat /\ Cardinality(Sending') \in Nat
  <2>1. posts' = [posts EXCEPT ![r] = q]
    BY DEF q
  <2> QED
    BY <1>1, <2>1, SendingMoves DEF CvTables
<1>3. CvTables'
  <2>1. Len(messages) \in Nat /\ MaxMessages \in Nat
    BY ConversationsAssumption, CvRows
  <2> QED
    BY <1>2, <2>1 DEF CvTables
<1>4. posts'[r] = q /\ \A s \in Posts : s # r => posts'[s] = posts[s]
  BY DEF CvTables, q
<1>5. CvRefers'
  <2>1. \A s \in Sending' : s \in Sending /\ posts'[s] = posts[s]
    BY <1>2, <1>4 DEF Sending
  <2> QED
    BY <1>0, <2>1 DEF CvRefers
<1>6. CvLooked'
  <2>1. \A s \in Posts : posts'[s].pc = "conversation" => posts'[s] = posts[s]
    BY <1>1, <1>4
  <2> SUFFICES ASSUME NEW s \in Posts, posts'[s].pc = "conversation", posts'[s].room = 0,
                      posts'[s].subject # NoSubject, NEW i \in MsgIds,
                      convs[messages[i].conv].subject = posts'[s].subject,
                      convs[messages[i].conv].room = 0,
                      {messages[i].from, messages[i].to} = {posts'[s].from, posts'[s].to}
               PROVE  i > posts'[s].since
    BY <1>0 DEF CvLooked
  <2> QED
    BY <2>1 DEF CvLooked
<1>7. CvMarks'
  <2> SUFFICES ASSUME NEW s \in Posts, posts'[s].pc = "mark", NEW mark \in posts'[s].marks
               PROVE  /\ mark[2] <= MaxLast
                      /\ \A i \in MsgIds : messages[i].conv = mark[1] /\ messages[i].to = posts'[s].agent
                                           /\ i <= mark[2]
                           => \/ <<posts'[s].agent, i>> \in returned' \union passed'
                              \/ posts'[s].agent = Human /\ <<mark[1], i>> \in ahead'
                      /\ \A i \in Nat : i > Len(messages) /\ i <= mark[2]
                           => posts'[s].agent = Human /\ <<mark[1], i>> \in ahead'
    BY <1>0 DEF CvMarks, CvSeen
  <2>1. CASE s = r
    BY <1>1, <1>4, <2>1 DEF CvSeen
  <2>2. CASE s # r
    BY <1>4, <2>2 DEF CvMarks, CvSeen
  <2> QED
    BY <2>1, <2>2
<1>8. ThreadsJoin' /\ NothingMissed'
  BY <1>0 DEF ThreadsJoin, NothingMissed
<1> QED
  BY <1>3, <1>5, <1>6, <1>7, <1>8

LEMMA CvReadStep ==
  ASSUME CvInv, NEW r \in Posts, NEW a \in Speakers, NEW all \in BOOLEAN, NEW page \in SUBSET MsgIds,
         ReadInbox(r, a, all, page)
  PROVE  CvInv'
<1> DEFINE match == buildInboxConditions(a, all)
           threads == {messages[i].conv : i \in page}
           left == {j \in match \ page : messages[j].conv \in threads /\ j < LastReturned(page, messages[j].conv)}
           marks == {<<k, LastReturned(page, k)>> : k \in threads}
<1>0. /\ page \subseteq match
      /\ posts' = [posts EXCEPT ![r] = [pc |-> "mark", agent |-> a, marks |-> marks]]
      /\ returned' = returned \union {<<a, i>> : i \in page}
      /\ passed' = passed \union {<<a, i>> : i \in left}
      /\ UNCHANGED <<convs, messages, lastRead, ahead>>
  BY DEF ReadInbox
<1>1. Len(messages) \in Nat /\ MsgIds = 1..Len(messages) /\ CvTables
  BY CvRows DEF MsgIds, CvInv
<1>2. ASSUME NEW k \in threads
      PROVE  LastReturned(page, k) \in MsgIds
  <2> DEFINE T == {i \in page : messages[i].conv = k}
  <2>1. T # {} /\ T \subseteq 0..Len(messages) /\ T \subseteq MsgIds
    BY <1>1
  <2>2. Max(T) \in T
    BY <1>1, <2>1, MaxOf
  <2> QED
    BY <2>1, <2>2 DEF LastReturned
<1>3. marks \in SUBSET (Nat \X Nat)
  <2>1. \A i \in page : messages[i].conv \in Nat
    BY <1>1, CvRows DEF CvMessage
  <2> QED
    BY <1>1, <1>2, <2>1
<1>4. ASSUME NEW mark \in marks
      PROVE  /\ mark[2] <= MaxLast
             /\ \A i \in MsgIds : messages[i].conv = mark[1] /\ messages[i].to = a /\ i <= mark[2]
                  => <<a, i>> \in returned' \union passed' \/ (a = Human /\ <<mark[1], i>> \in ahead)
             /\ \A i \in Nat : i > Len(messages) /\ i <= mark[2] => a = Human /\ <<mark[1], i>> \in ahead'
  <2>1. PICK k \in threads : mark = <<k, LastReturned(page, k)>>
    OBVIOUS
  <2>2. mark[1] = k /\ mark[2] = LastReturned(page, k) /\ mark[2] \in MsgIds
    BY <1>2, <2>1
  <2>3. /\ mark[2] <= MaxLast
        /\ \A i \in Nat : ~(i > Len(messages) /\ i <= mark[2])
    <3>1. MaxMessages \in Nat /\ MaxLast \in Nat /\ MaxLast >= MaxMessages /\ Len(messages) <= MaxMessages
      BY <1>1, SendingFinite, ConversationsAssumption DEF CvTables
    <3> QED
      BY <1>1, <2>2, <3>1
  <2>4. ASSUME NEW i \in MsgIds, messages[i].conv = k, messages[i].to = a, i <= mark[2]
        PROVE  <<a, i>> \in returned' \union passed' \/ (a = Human /\ <<k, i>> \in ahead)
    <3>1. CASE i \in page
      BY <1>0, <3>1
    <3>2. CASE i \notin match
      <4>2. lastRead[a][messages[i].conv] \in Nat /\ i \in Nat
        BY CvPointer DEF CvInv
      <4>3. ~(i > lastRead[a][messages[i].conv])
        BY <2>4, <3>2 DEF buildInboxConditions
      <4>4. i <= lastRead[a][messages[i].conv]
        BY <4>2, <4>3
      <4> QED
        BY <1>0, <2>4, <4>4 DEF CvInv, NothingMissed
    <3>3. CASE i \in match /\ i \notin page
      <4>1. i # mark[2]
        <5> DEFINE T == {j \in page : messages[j].conv = k}
        <5>1. T # {} /\ T \subseteq 0..Len(messages)
          BY <1>1
        <5>2. Max(T) \in page
          BY <1>1, <5>1, MaxOf
        <5> QED
          BY <2>2, <3>3, <5>2 DEF LastReturned
      <4>2. i < LastReturned(page, messages[i].conv)
        BY <1>1, <2>2, <2>4, <4>1
      <4>3. i \in left
        BY <2>4, <3>3, <4>2
      <4> QED
        BY <1>0, <4>3
    <3> QED
      BY <3>1, <3>2, <3>3
  <2> QED
    BY <2>2, <2>3, <2>4
<1> HIDE DEF marks
<1>5. returned \subseteq returned' /\ passed \subseteq passed' /\ ahead \subseteq ahead'
  BY <1>0
<1> QED
  BY <1>0, <1>3, <1>4, <1>5, CvMarkStart

LEMMA CvMarkReadStep ==
  ASSUME CvInv, NEW r \in Posts, NEW threads \in SUBSET Nat, NEW last \in 1..MaxLast, MarkRead(r, threads, last)
  PROVE  CvInv'
<1> DEFINE marks == threads \X {last}
<1>0. /\ posts' = [posts EXCEPT ![r] = [pc |-> "mark", agent |-> Human, marks |-> marks]]
      /\ passed' = passed \union {<<Human, i>> : i \in {j \in MsgIds : j <= last /\ messages[j].conv \in threads}}
      /\ ahead' = ahead \union (threads \X ((Len(messages) + 1)..last))
      /\ UNCHANGED <<convs, messages, lastRead, returned>>
  BY DEF MarkRead
<1>1. Len(messages) \in Nat /\ MsgIds = 1..Len(messages) /\ last \in Nat /\ last <= MaxLast
  BY CvRows, ConversationsAssumption DEF MsgIds, CvInv
<1>2. marks \in SUBSET (Nat \X Nat) /\ Human \in Speakers
  BY <1>1, ConversationsAssumption
<1>3. ASSUME NEW mark \in marks
      PROVE  /\ mark[2] <= MaxLast
             /\ \A i \in MsgIds : messages[i].conv = mark[1] /\ messages[i].to = Human /\ i <= mark[2]
                  => <<Human, i>> \in returned' \union passed' \/ (Human = Human /\ <<mark[1], i>> \in ahead)
             /\ \A i \in Nat : i > Len(messages) /\ i <= mark[2] => Human = Human /\ <<mark[1], i>> \in ahead'
  <2>1. mark[1] \in threads /\ mark[2] = last
    OBVIOUS
  <2>2. \A i \in Nat : i > Len(messages) /\ i <= last => i \in (Len(messages) + 1)..last
    BY <1>1
  <2>3. \A i \in (Len(messages) + 1)..last : <<mark[1], i>> \in ahead'
    BY <1>0, <2>1
  <2> QED
    BY <1>0, <1>1, <2>1, <2>2, <2>3
<1> HIDE DEF marks
<1>4. returned \subseteq returned' /\ passed \subseteq passed' /\ ahead \subseteq ahead'
  BY <1>0
<1> QED
  BY <1>0, <1>2, <1>3, <1>4, CvMarkStart

LEMMA CvMarkStep ==
  ASSUME CvInv, NEW r \in Posts, NEW mark \in ConvIds \X (1..MaxLast), MarkConversation(r, mark)
  PROVE  CvInv'
<1> DEFINE a == posts[r].agent
           k == mark[1]
           id == mark[2]
           m == posts[r].marks
           q == IF m = {mark} THEN AtRest ELSE [posts[r] EXCEPT !.marks = m \ {mark}]
           up == Max({lastRead[a][k], id})
<1>a. /\ posts[r].pc = "mark" /\ mark \in m
      /\ UNCHANGED <<convs, messages, returned, passed, ahead>>
  BY DEF MarkConversation
<1>b. lastRead' = [lastRead EXCEPT ![a][k] = up]
  BY Zenon DEF MarkConversation, UpdateInboxState
<1>c. posts' = [posts EXCEPT ![r] = q]
  BY DEF MarkConversation
<1>0. /\ posts[r].pc = "mark" /\ mark \in m
      /\ lastRead' = [lastRead EXCEPT ![a][k] = up]
      /\ posts' = [posts EXCEPT ![r] = q]
      /\ UNCHANGED <<convs, messages, returned, passed, ahead>>
  BY <1>a, <1>b, <1>c, Zenon
<1>1. posts[r] \in CvMark /\ CvTables /\ CvRefers
  BY <1>0, CvKinds DEF CvInv
<1>2. a \in Speakers /\ m \in SUBSET (Nat \X Nat)
  BY <1>1 DEF CvMark
<1>3. /\ Len(messages) \in Nat /\ MaxConversations \in Nat /\ Len(convs) \in Nat
      /\ k \in ConvIds /\ k \in 1..MaxConversations /\ id \in Nat /\ id <= MaxLast
  BY <1>1, CvRows, ConversationsAssumption DEF ConvIds, MsgIds, CvTables
<1>4. lastRead[a][k] \in Nat /\ lastRead[a][k] <= MaxLast
  BY <1>1, <1>2, <1>3 DEF CvTables, CvRefers
<1>5. up \in {lastRead[a][k], id} /\ up \in Nat /\ up <= MaxLast
  BY <1>3, <1>4, MaxOfTwo
<1>6. q = AtRest \/ (q \in CvMark /\ q.pc = "mark" /\ q.agent = a /\ q.marks \subseteq m)
  <2>1. [posts[r] EXCEPT !.marks = m \ {mark}] \in CvMark
    BY <1>1, <1>2 DEF CvMark
  <2>2. /\ [posts[r] EXCEPT !.marks = m \ {mark}].marks = m \ {mark}
        /\ [posts[r] EXCEPT !.marks = m \ {mark}].pc = "mark"
        /\ [posts[r] EXCEPT !.marks = m \ {mark}].agent = a
    BY <1>0, <1>1 DEF CvMark
  <2> QED
    BY <2>1, <2>2
<1>7. AtRest.pc = "idle" /\ MsgIds' = MsgIds /\ ConvIds' = ConvIds
  BY <1>0 DEF AtRest, MsgIds, ConvIds
<1> HIDE DEF q, up
<1>8. /\ posts' \in [Posts -> {AtRest} \union CvSend \union CvMark]
      /\ Sending' = Sending \ {r} /\ Cardinality(Sending') <= Cardinality(Sending)
      /\ Cardinality(Sending) \in Nat /\ Cardinality(Sending') \in Nat
  <2>1. q \in {AtRest} \union CvSend \union CvMark /\ q.pc \notin {"conversation", "message"}
    BY <1>6, <1>7
  <2> QED
    BY <1>0, <1>1, <2>1, SendingMoves DEF CvTables
<1>9. /\ lastRead' \in [Speakers -> [1..MaxConversations -> Nat]]
      /\ lastRead'[a][k] = up
      /\ \A b \in Speakers, j \in 1..MaxConversations :
           b # a \/ j # k => lastRead'[b][j] = lastRead[b][j]
  BY <1>0, <1>1, <1>2, <1>3, <1>5 DEF CvTables
<1>10. CvTables'
  <2>1. MaxMessages \in Nat /\ Len(messages) + Cardinality(Sending) <= MaxMessages
    BY <1>1, ConversationsAssumption DEF CvTables
  <2>2. Len(messages) + Cardinality(Sending') <= MaxMessages
    BY <1>3, <1>8, <2>1
  <2> QED
    BY <1>0, <1>1, <1>8, <1>9, <2>2 DEF CvTables
<1>11. posts'[r] = q /\ \A s \in Posts : s # r => posts'[s] = posts[s]
  BY <1>0, <1>1 DEF CvTables
<1>12. CvRefers'
  <2>1. \A s \in Sending' : s \in Sending /\ posts'[s] = posts[s]
    BY <1>8, <1>11 DEF Sending
  <2>2. ASSUME NEW b \in Speakers, NEW j \in 1..MaxConversations
        PROVE  /\ lastRead'[b][j] <= MaxLast
               /\ \A i \in Nat : i > Len(messages) /\ i <= lastRead'[b][j] => b = Human /\ <<j, i>> \in ahead
    <3>1. CASE lastRead'[b][j] = lastRead[b][j]
      BY <1>1, <3>1 DEF CvRefers
    <3>2. CASE b = a /\ j = k /\ up = id
      <4>1. \A i \in Nat : i > Len(messages) /\ i <= id => a = Human /\ <<k, i>> \in ahead
        BY <1>0 DEF CvInv, CvMarks
      <4> QED
        BY <1>5, <1>9, <3>2, <4>1
    <3> QED
      BY <1>5, <1>9, <3>1, <3>2
  <2> QED
    BY <1>0, <1>1, <1>7, <2>1, <2>2 DEF CvRefers
<1>13. CvLooked'
  <2>1. \A s \in Posts : posts'[s].pc = "conversation" => posts'[s] = posts[s]
    BY <1>6, <1>7, <1>11
  <2> SUFFICES ASSUME NEW s \in Posts, posts'[s].pc = "conversation", posts'[s].room = 0,
                      posts'[s].subject # NoSubject, NEW i \in MsgIds,
                      convs[messages[i].conv].subject = posts'[s].subject,
                      convs[messages[i].conv].room = 0,
                      {messages[i].from, messages[i].to} = {posts'[s].from, posts'[s].to}
               PROVE  i > posts'[s].since
    BY <1>0, <1>7 DEF CvLooked
  <2> QED
    BY <2>1 DEF CvInv, CvLooked
<1>14. CvMarks'
  <2> SUFFICES ASSUME NEW s \in Posts, posts'[s].pc = "mark", NEW d \in posts'[s].marks
               PROVE  /\ d[2] <= MaxLast
                      /\ \A i \in MsgIds : messages[i].conv = d[1] /\ messages[i].to = posts'[s].agent
                                           /\ i <= d[2]
                           => CvSeen(posts'[s].agent, d[1], i)
                      /\ \A i \in Nat : i > Len(messages) /\ i <= d[2]
                           => posts'[s].agent = Human /\ <<d[1], i>> \in ahead
    BY <1>0, <1>7 DEF CvMarks, CvSeen
  <2>1. posts[s].pc = "mark" /\ d \in posts[s].marks /\ posts'[s].agent = posts[s].agent
    BY <1>0, <1>6, <1>7, <1>11
  <2> QED
    BY <2>1 DEF CvInv, CvMarks
<1>15. ThreadsJoin'
  BY <1>0, <1>7 DEF CvInv, ThreadsJoin
<1>16. NothingMissed'
  <2> SUFFICES ASSUME NEW b \in Speakers, NEW i \in MsgIds, messages[i].to = b,
                      i <= lastRead'[b][messages[i].conv]
               PROVE  CvSeen(b, messages[i].conv, i)
    BY <1>0, <1>7 DEF NothingMissed, CvSeen
  <2>1. messages[i].conv \in 1..MaxConversations
    BY <1>1, CvPointer
  <2>2. CASE i <= lastRead[b][messages[i].conv]
    BY <2>2 DEF CvInv, NothingMissed, CvSeen
  <2>3. CASE b = a /\ messages[i].conv = k /\ up = id
    <3>1. i <= id
      BY <1>9, <2>3
    <3> QED
      BY <1>0, <2>3, <3>1 DEF CvInv, CvMarks
  <2> QED
    BY <1>5, <1>9, <2>1, <2>2, <2>3
<1> QED
  BY <1>10, <1>12, <1>13, <1>14, <1>15, <1>16 DEF CvInv

LEMMA CvDoneStep ==
  ASSUME CvInv, NEW d \in MsgIds, MarkDoneRequest(d)
  PROVE  CvInv'
<1>1. PICK c \in MsgIds, v \in {"done", "processing"} : messages' = [messages EXCEPT ![c].status = v]
  BY DEF MarkDoneRequest
<1>2. UNCHANGED <<convs, lastRead, posts, returned, passed, ahead>>
  BY DEF MarkDoneRequest
<1>3. messages \in Seq(CvMessage) /\ messages[c] \in CvMessage /\ c \in 1..Len(messages)
  BY DEF CvInv, CvTables, MsgIds
<1>4. [messages[c] EXCEPT !.status = v] \in CvMessage
  BY <1>3 DEF CvMessage
<1>5. /\ messages' \in Seq(CvMessage) /\ Len(messages') = Len(messages) /\ MsgIds' = MsgIds
  <2>1. messages' = [messages EXCEPT ![c] = [messages[c] EXCEPT !.status = v]]
    BY <1>1, <1>3
  <2>2. messages' \in Seq(CvMessage) /\ Len(messages') = Len(messages)
    BY <1>3, <1>4, <2>1
  <2> QED
    BY <2>2 DEF MsgIds
<1>6. \A i \in MsgIds : /\ messages'[i].conv = messages[i].conv /\ messages'[i].reply = messages[i].reply
                        /\ messages'[i].to = messages[i].to /\ messages'[i].from = messages[i].from
                        /\ messages'[i].room = messages[i].room
  BY <1>1, <1>3, SMTT(30) DEF MsgIds, CvMessage
<1>7. Sending' = Sending /\ ConvIds' = ConvIds
  BY <1>2 DEF Sending, ConvIds
<1>8. CvTables'
  BY <1>2, <1>5, <1>7 DEF CvInv, CvTables
<1>9. CvRefers'
  BY <1>2, <1>5, <1>6, <1>7 DEF CvInv, CvRefers
<1>10. CvLooked'
  <2> SUFFICES ASSUME NEW s \in Posts, posts[s].pc = "conversation", posts[s].room = 0,
                      posts[s].subject # NoSubject, NEW i \in MsgIds,
                      convs[messages'[i].conv].subject = posts[s].subject,
                      convs[messages'[i].conv].room = 0,
                      {messages'[i].from, messages'[i].to} = {posts[s].from, posts[s].to}
               PROVE  i > posts[s].since
    BY <1>2, <1>5 DEF CvLooked
  <2>1. /\ convs[messages[i].conv].subject = posts[s].subject /\ convs[messages[i].conv].room = 0
        /\ {messages[i].from, messages[i].to} = {posts[s].from, posts[s].to}
    BY <1>6
  <2> QED
    BY <2>1 DEF CvInv, CvLooked
<1>11. CvMarks'
  BY <1>2, <1>5, <1>6, <1>7 DEF CvInv, CvMarks, CvSeen
<1>12. ThreadsJoin'
  BY <1>2, <1>5, <1>6, <1>7 DEF CvInv, ThreadsJoin
<1>13. NothingMissed'
  BY <1>2, <1>5, <1>6, <1>7 DEF CvInv, NothingMissed
<1> QED
  BY <1>8, <1>9, <1>10, <1>11, <1>12, <1>13 DEF CvInv

LEMMA CvStep == CvInv /\ [ConversationsNext]_cvVars => CvInv'
<1> SUFFICES ASSUME CvInv, [ConversationsNext]_cvVars PROVE CvInv'
  OBVIOUS
<1>0. /\ Human \in Speakers /\ Len(messages) \in Nat /\ 0 <= Len(messages) /\ Len(messages) <= Len(messages)
      /\ ConvIds \subseteq Nat
  BY ConversationsAssumption, CvRows DEF CvInv, ConvIds
<1>1. ASSUME NEW s \in Posts, InsertConversation(s) PROVE CvInv'
  BY <1>1, CvConversationStep
<1>2. ASSUME NEW s \in Posts, InsertMessage(s) PROVE CvInv'
  BY <1>2, CvMessageStep
<1>3. ASSUME NEW s \in Posts, SendFails(s) \/ MarkFails(s) PROVE CvInv'
  <2>1. posts' = [posts EXCEPT ![s] = AtRest] /\ UNCHANGED <<convs, messages, lastRead, returned, passed, ahead>>
    BY <1>3 DEF SendFails, MarkFails
  <2> QED
    BY <2>1, CvRests
<1>4. ASSUME NEW s \in Posts, NEW from \in Speakers, NEW to \in Speakers \union {NoRecipient},
             NEW room \in Rooms \union {0}, NEW t \in Topics, NEW reply \in {0, Len(messages)},
             callSendMessage(s, from, to, room, t, reply)
      PROVE  CvInv'
  <2>1. /\ from \in Names /\ 0 \in Nat /\ t \in Topics \union {NoSubject} /\ reply \in Nat
        /\ reply <= Len(messages)
    BY <1>0 DEF Names
  <2> QED
    BY <1>4, <2>1, CvSendStep DEF callSendMessage
<1>5. ASSUME NEW s \in Posts, NEW t \in Topics, handleMessagesSend(s, "system", Human, t)
      PROVE  CvInv'
  <2>1. /\ "system" \in Names /\ Human \in Speakers \union {NoRecipient} /\ 0 \in Rooms \union {0}
        /\ 0 \in Nat /\ t \in Topics \union {NoSubject}
    BY <1>0 DEF Names
  <2> QED
    BY <1>0, <1>5, <2>1, CvSendStep DEF handleMessagesSend
<1>6. ASSUME NEW s \in Posts, NEW to \in (Speakers \ {Human}) \union {NoRecipient},
             NEW room \in Rooms \union {0}, NEW k \in ConvIds, RestSendMessage(s, to, room, k, NoSubject)
      PROVE  CvInv'
  <2>1. /\ Human \in Names /\ to \in Speakers \union {NoRecipient} /\ k \in Nat /\ 0 \in Nat
        /\ NoSubject \in Topics \union {NoSubject}
    BY <1>0 DEF Names
  <2> QED
    BY <1>0, <1>6, <2>1, CvSendStep DEF RestSendMessage
<1>7. ASSUME NEW r \in Posts, NEW mark \in ConvIds \X (1..MaxLast), MarkConversation(r, mark) PROVE CvInv'
  BY <1>7, CvMarkStep
<1>8. ASSUME NEW r \in Posts, NEW a \in Speakers, NEW page \in SUBSET MsgIds, NEW all \in BOOLEAN,
             callReadInbox(r, a, all, page)
      PROVE  CvInv'
  BY <1>8, CvReadStep DEF callReadInbox
<1>9. ASSUME NEW r \in Posts, NEW last \in 1..MaxLast,
             \/ \E peer \in Speakers : MarkReadDM(r, peer, last)
             \/ \E room \in Rooms : MarkReadChannel(r, room, last)
      PROVE  CvInv'
  <2>1. \A j \in MsgIds : messages[j].conv \in Nat
    BY CvRows DEF CvInv, CvMessage
  <2>2. ASSUME NEW peer \in Speakers, MarkReadDM(r, peer, last) PROVE CvInv'
    <3>1. GetConversationIDsForDM(Human, peer, last) \in SUBSET Nat
      BY <2>1 DEF GetConversationIDsForDM
    <3> QED
      BY <2>2, <3>1, CvMarkReadStep DEF MarkReadDM
  <2>3. ASSUME NEW room \in Rooms, MarkReadChannel(r, room, last) PROVE CvInv'
    <3>1. GetConversationIDsForChannel(room, last) \in SUBSET Nat
      BY <2>1 DEF GetConversationIDsForChannel
    <3> QED
      BY <2>3, <3>1, CvMarkReadStep DEF MarkReadChannel
  <2> QED
    BY <1>9, <2>2, <2>3
<1>10. ASSUME NEW i \in MsgIds, MarkDoneRequest(i) PROVE CvInv'
  BY <1>10, CvDoneStep
<1>11. CASE UNCHANGED cvVars
  <2>1. UNCHANGED <<convs, messages, lastRead, posts, returned, passed, ahead>>
    BY <1>11 DEF cvVars
  <2>2. MsgIds' = MsgIds /\ ConvIds' = ConvIds /\ Sending' = Sending
    BY <2>1 DEF MsgIds, ConvIds, Sending
  <2>3. CvTables' /\ CvRefers' /\ CvMarks'
    BY <2>1, <2>2 DEF CvInv, CvTables, CvRefers, CvMarks, CvSeen
  <2>4. CvLooked'
    BY <2>1, <2>2 DEF CvInv, CvLooked
  <2>5. ThreadsJoin' /\ NothingMissed'
    BY <2>1, <2>2 DEF CvInv, ThreadsJoin, NothingMissed
  <2> QED
    BY <2>3, <2>4, <2>5 DEF CvInv
<1>12. CASE ConversationsNext
  BY <1>1, <1>2, <1>3, <1>4, <1>5, <1>6, <1>7, <1>8, <1>9, <1>10, <1>12, ZenonT(40) DEF ConversationsNext
<1> QED
  BY <1>11, <1>12

\* UpdateInboxState: pointers only move forward.
LEMMA CvForward ==
  CvInv /\ [ConversationsNext]_cvVars =>
    \A a \in Speakers, k \in 1..MaxConversations : lastRead'[a][k] >= lastRead[a][k]
<1> SUFFICES ASSUME CvInv, [ConversationsNext]_cvVars, NEW a \in Speakers, NEW k \in 1..MaxConversations
             PROVE  lastRead'[a][k] >= lastRead[a][k]
  OBVIOUS
<1>1. lastRead[a][k] \in Nat /\ lastRead \in [Speakers -> [1..MaxConversations -> Nat]]
  BY DEF CvInv, CvTables
<1>2. ASSUME NEW r \in Posts, NEW mark \in ConvIds \X (1..MaxLast), MarkConversation(r, mark)
      PROVE  lastRead'[a][k] >= lastRead[a][k]
  <2> DEFINE b == posts[r].agent
             up == Max({lastRead[b][mark[1]], mark[2]})
  <2>1. lastRead' = [lastRead EXCEPT ![b][mark[1]] = up]
    BY <1>2, Zenon DEF MarkConversation, UpdateInboxState
  <2>2. b \in Speakers
    BY <1>2, CvKinds DEF MarkConversation, CvMark, CvInv
  <2>3. mark[2] \in Nat
    BY ConversationsAssumption
  <2>4. CASE b = a /\ mark[1] = k
    <3>1. up >= lastRead[a][k]
      BY <1>1, <2>3, <2>4, MaxOfTwo
    <3> HIDE DEF up
    <3> QED
      BY <1>1, <2>1, <2>4, <3>1
  <2>5. CASE ~(b = a /\ mark[1] = k)
    <3> HIDE DEF up
    <3>1. lastRead'[a][k] = lastRead[a][k]
      BY <1>1, <2>1, <2>2, <2>5
    <3> QED
      BY <1>1, <3>1
  <2> QED
    BY <2>4, <2>5
<1>3. CASE lastRead' = lastRead
  BY <1>1, <1>3
<1>4. CASE UNCHANGED cvVars
  BY <1>3, <1>4 DEF cvVars
<1>5. ASSUME NEW s \in Posts, NEW from, NEW to, NEW room, NEW conv, NEW subject, NEW reply,
             SendMessage(s, from, to, room, conv, subject, reply)
      PROVE  lastRead' = lastRead
  BY <1>5 DEF SendMessage
<1>6. ASSUME NEW r \in Posts, NEW threads, NEW last, MarkRead(r, threads, last) PROVE lastRead' = lastRead
  BY <1>6 DEF MarkRead
<1>7. ASSUME NEW s \in Posts, InsertConversation(s) \/ InsertMessage(s) \/ SendFails(s) \/ MarkFails(s)
      PROVE  lastRead' = lastRead
  BY <1>7 DEF InsertConversation, InsertMessage, SendFails, MarkFails
<1>8. ASSUME NEW r \in Posts, NEW b, NEW page, NEW all, callReadInbox(r, b, all, page)
      PROVE  lastRead' = lastRead
  BY <1>8 DEF callReadInbox, ReadInbox
<1>9. ASSUME NEW i \in MsgIds, MarkDoneRequest(i) PROVE lastRead' = lastRead
  BY <1>9 DEF MarkDoneRequest
<1>10. CASE ConversationsNext
  BY <1>2, <1>3, <1>5, <1>6, <1>7, <1>8, <1>9, <1>10
     DEF ConversationsNext, callSendMessage, handleMessagesSend, RestSendMessage, MarkReadDM, MarkReadChannel
<1> QED
  BY <1>4, <1>10

LEMMA CvTyped == CvInv => ConversationsTypeOK
<1> SUFFICES ASSUME CvInv PROVE ConversationsTypeOK
  OBVIOUS
<1>2. ASSUME NEW a \in Speakers PROVE lastRead[a] \in [1..MaxConversations -> 0..MaxLast]
  <2>1. lastRead[a] \in [1..MaxConversations -> Nat]
    BY DEF CvInv, CvTables
  <2>2. \A k \in 1..MaxConversations : lastRead[a][k] \in Nat /\ lastRead[a][k] <= MaxLast
    BY <2>1 DEF CvInv, CvRefers
  <2>3. \A k \in 1..MaxConversations : lastRead[a][k] \in 0..MaxLast
    BY <2>2, ConversationsAssumption
  <2> QED
    BY <2>1, <2>3
<1> QED
  BY <1>2 DEF ConversationsTypeOK, CvInv, CvRefers

\* No stored to_agent is the empty string.
LEMMA SearchFinds ==
  ASSUME CvInv, NEW a \in Speakers
  PROVE  buildSearchConditions(a) = {i \in MsgIds : a \in {messages[i].from, messages[i].to}}
<1>1. \A i \in MsgIds : messages[i].to \in Speakers \union {NoRecipient}
  BY CvRows DEF CvInv, CvMessage
<1>2. Blank \notin Speakers \union {NoRecipient}
  BY ConversationsAssumption DEF Blank, NoRecipient
<1> QED
  BY <1>1, <1>2 DEF buildSearchConditions

LEMMA CvViews == CvInv => ViewsAgree
<1> SUFFICES ASSUME CvInv PROVE ViewsAgree
  OBVIOUS
<1>0. /\ Owned \subseteq Speakers
      /\ \A i \in MsgIds : messages[i] \in CvMessage
      /\ \A i \in MsgIds : messages[i].to = NoRecipient <=> messages[i].room # 0
  BY CvRows, ConversationsAssumption DEF CvInv, CvRefers
<1>1. /\ ListMessages = {i \in MsgIds : messages[i].to \in Owned}
      /\ RestSearchMessages = {i \in MsgIds : messages[i].to \in Owned \/ messages[i].from \in Owned}
  <2>1. \A a \in Owned : buildSearchConditions(a) = {i \in MsgIds : a \in {messages[i].from, messages[i].to}}
    BY <1>0, SearchFinds
  <2> QED
    BY <2>1 DEF ListMessages, RestSearchMessages, buildInboxConditions
<1>2. \A i \in MsgIds : RestGetMessage(i) <=> messages[i].to \in Owned \/ messages[i].from \in Owned
  BY DEF RestGetMessage, isAgentOwnedBy
<1>3. \A i \in ListMessages \union RestSearchMessages : RestGetMessage(i)
  BY <1>1, <1>2
<1>4. \A k \in ListConversations : RestGetConversation(k)
  BY <1>1, <1>2 DEF ListConversations, RestGetConversation, GetConversationMessages
<1> DEFINE Peer(i) == IF messages[i].from \in Owned THEN messages[i].to ELSE messages[i].from
           Direct == {j \in MsgIds : messages[j].room = 0 /\ {messages[j].from, messages[j].to} \intersect Owned # {}}
           Thread(p) == {i \in MsgIds : /\ messages[i].room = 0
                                        /\ \/ messages[i].from \in Owned /\ messages[i].to = p
                                           \/ messages[i].from = p /\ messages[i].to \in Owned}
<1>5. DMPartners = {Peer(i) : i \in Direct} /\ \A p : DMMessages(p).messages = Thread(p)
  BY DEF DMPartners, GetDMPartners, DMMessages, GetDMMessages
<1>6. \A i \in Direct : i \in Thread(Peer(i))
  OBVIOUS
<1>7. \A p : Thread(p) \subseteq RestSearchMessages
  BY <1>1
<1>8. \A i \in RestSearchMessages : messages[i].room = 0 => i \in Direct
  BY <1>1
<1> HIDE DEF Peer, Direct, Thread
<1>9. \A p \in DMPartners : DMMessages(p).messages # {} /\ DMMessages(p).messages \subseteq RestSearchMessages
  BY <1>5, <1>6, <1>7
<1>10. \A i \in RestSearchMessages :
         messages[i].room = 0 => \E p \in DMPartners : i \in DMMessages(p).messages
  BY <1>5, <1>6, <1>8
<1> QED
  BY <1>3, <1>4, <1>9, <1>10 DEF ViewsAgree

LEMMA CvMarker == CvInv => ChannelMarkerHonest
<1> SUFFICES ASSUME CvInv, NEW a \in Speakers, NEW room \in Rooms, NEW i \in MsgIds,
                    messages[i].room = room, i <= GetLastReadForChannel(a, room)
             PROVE  /\ i <= lastRead[a][messages[i].conv]
                    /\ GetChannelSummaries(a, room).newest <= GetLastReadForChannel(a, room)
                       => GetChannelSummaries(a, room).unread = 0
  BY DEF ChannelMarkerHonest
<1> DEFINE here == GetChannelMessages(room)
           threads == {messages[j].conv : j \in here}
           T == {lastRead[a][k] : k \in threads}
           fresh == {j \in here : messages[j].from # a /\ j > lastRead[a][messages[j].conv]}
           N == {0} \union here
<1>1. here = {j \in MsgIds : messages[j].room = room} /\ i \in here
  BY DEF GetChannelMessages
<1>2. \A j \in here : /\ lastRead[a][messages[j].conv] \in T /\ lastRead[a][messages[j].conv] \in Nat
                      /\ j \in Nat /\ j <= Len(messages) /\ Len(messages) \in Nat
  <2>1. \A j \in here : lastRead[a][messages[j].conv] \in Nat /\ j \in Nat
    BY <1>1, CvPointer DEF CvInv
  <2>2. Len(messages) \in Nat /\ \A j \in here : j <= Len(messages)
    BY <1>1, CvRows DEF CvInv, MsgIds
  <2> QED
    BY <2>1, <2>2
<1>3. T \subseteq Nat /\ T # {} /\ threads # {}
  <2>1. T \subseteq Nat
    BY <1>2
  <2>2. messages[i].conv \in threads
    BY <1>1
  <2>3. lastRead[a][messages[i].conv] \in T
    BY <1>1, <1>2
  <2> QED
    BY <2>1, <2>2, <2>3
<1>4. GetLastReadForChannel(a, room) = Min(T)
  BY <1>3 DEF GetLastReadForChannel
<1>5. Min(T) \in Nat /\ \A j \in here : Min(T) <= lastRead[a][messages[j].conv]
  <2> HIDE DEF T
  <2>1. Min(T) \in T /\ \A v \in T : Min(T) <= v
    BY <1>3, MinOf
  <2> QED
    BY <1>2, <1>3, <2>1
<1>6. i <= lastRead[a][messages[i].conv]
  <2> HIDE DEF T
  <2> QED
    BY <1>1, <1>2, <1>4, <1>5
<1>7. GetChannelSummaries(a, room).newest = Max(N) /\ GetChannelSummaries(a, room).unread = Cardinality(fresh)
  BY DEF GetChannelSummaries
<1>8. Max(N) \in Nat /\ \A j \in here : j <= Max(N)
  <2>1. Len(messages) \in Nat /\ N \subseteq 0..Len(messages) /\ N # {}
    BY <1>1, <1>2
  <2>2. here \subseteq N
    OBVIOUS
  <2> HIDE DEF N
  <2>3. Max(N) \in N /\ \A j \in N : j <= Max(N)
    BY <2>1, MaxOf
  <2>4. \A n \in 0..Len(messages) : n \in Nat
    OBVIOUS
  <2> QED
    BY <2>1, <2>2, <2>3, <2>4
<1>9. Max(N) <= Min(T) => fresh = {}
  <2> HIDE DEF T, N
  <2> SUFFICES ASSUME Max(N) <= Min(T), NEW j \in fresh PROVE FALSE
    OBVIOUS
  <2>1. j \in here /\ j > lastRead[a][messages[j].conv]
    OBVIOUS
  <2>2. j <= Max(N) /\ Min(T) <= lastRead[a][messages[j].conv] /\ j \in Nat
        /\ lastRead[a][messages[j].conv] \in Nat
    BY <1>2, <1>5, <1>8, <2>1
  <2> QED
    BY <1>5, <1>8, <2>1, <2>2
<1>10. fresh = {} => Cardinality(fresh) = 0
  <2> HIDE DEF fresh
  <2>1. Cardinality({}) = 0
    BY FS_EmptySet
  <2> QED
    BY <2>1, Zenon
<1> HIDE DEF T, N, fresh
<1> QED
  BY <1>4, <1>6, <1>7, <1>9, <1>10

LEMMA MessagesFinite ==
  ASSUME CvInv
  PROVE  /\ IsFiniteSet(MsgIds) /\ Cardinality(MsgIds) = Len(messages)
         /\ IsFiniteSet(ConvIds)
<1>1. Len(messages) \in Nat /\ Len(convs) \in Nat
  BY CvRows DEF CvInv
<1>2. IsFiniteSet(1..Len(messages)) /\ IsFiniteSet(1..Len(convs))
  BY <1>1, FS_Interval
<1>3. Cardinality(1..Len(messages)) = IF 1 > Len(messages) THEN 0 ELSE Len(messages) - 1 + 1
  <2>1. 1 \in Int /\ Len(messages) \in Int
    BY <1>1
  <2> QED
    BY <2>1, FS_Interval, Zenon
<1> QED
  BY <1>1, <1>2, <1>3 DEF MsgIds, ConvIds

\* GET /api/notifications/unread adds up the counts of the senders ...
UnreadDirect == {i \in buildInboxConditions(Human, FALSE) : messages[i].from # "system"}
DirectBadge == LET dms == GetDMUnreadCounts(Human) IN MapThenSumSet(LAMBDA p : dms[p], DOMAIN dms)

LEMMA BadgeIsInbox ==
  ASSUME CvInv
  PROVE  DirectBadge = Cardinality(UnreadDirect)
<1> DEFINE Mine == {j \in MsgIds : messages[j].to = Human /\ messages[j].room = 0}
           D == {messages[i].from : i \in Mine} \ {"system"}
           counts == GetDMUnreadCounts(Human)
           M == {i \in MsgIds : messages[i].to = Human /\ messages[i].room = 0
                                /\ i > lastRead[Human][messages[i].conv]}
           key == [i \in MsgIds |-> messages[i].from]
           shown == UnreadDirect
<1>1. DOMAIN counts = D
  BY DEF GetDMUnreadCounts
<1>2. \A p \in D : counts[p] = Cardinality({i \in MsgIds : /\ messages[i].to = Human /\ messages[i].room = 0
                                                         /\ messages[i].from = p
                                                         /\ i > lastRead[Human][messages[i].conv]})
  BY DEF GetDMUnreadCounts
<1>3. \A p \in D : {i \in MsgIds : /\ messages[i].to = Human /\ messages[i].room = 0
                                   /\ messages[i].from = p
                                   /\ i > lastRead[Human][messages[i].conv]} = {i \in M : key[i] = p}
  OBVIOUS
<1>4. IsFiniteSet(M) /\ IsFiniteSet(D)
  <2>1. IsFiniteSet(M) /\ IsFiniteSet(MsgIds)
    BY MessagesFinite, FS_Subset
  <2> DEFINE R == {key[i] : i \in MsgIds}
  <2>2. key \in Surjection(MsgIds, R)
    BY DEF Surjection
  <2>3. IsFiniteSet(R)
    BY <2>1, <2>2, FS_Surjection
  <2>4. D \subseteq R
    OBVIOUS
  <2> HIDE DEF D, R
  <2> QED
    BY <2>1, <2>3, <2>4, FS_Subset
<1>5. {i \in M : key[i] \in D} = shown
  <2>1. \A i \in MsgIds : messages[i].to = Human => messages[i].room = 0
    BY ConversationsAssumption DEF CvInv, CvRefers
  <2> QED
    BY <2>1 DEF buildInboxConditions, UnreadDirect
<1>6. DirectBadge = SumOf(counts, D)
  BY <1>1 DEF DirectBadge, SumOf
<1> HIDE DEF D, counts, M, key, shown
<1>7. \A p \in D : counts[p] = Cardinality({i \in M : key[i] = p})
  BY <1>2, <1>3, Zenon
<1>8. SumOf(counts, D) = Cardinality(Keyed(M, key, D))
  <2>1. CountsRows(counts, M, key, D)
    BY <1>7, Zenon DEF CountsRows
  <2> QED
    BY <1>4, <2>1, SumOfCounts
<1> QED
  BY <1>5, <1>6, <1>8, Zenon DEF shown, Keyed

\* ... and those of the channels the user joined ...
Joined == {q \in Rooms : Human \in RoomMembers[q]}
UnreadJoined == {i \in MsgIds : /\ messages[i].room \in Joined /\ messages[i].from # Human
                                /\ i > lastRead[Human][messages[i].conv]}
JoinedBadge == LET joined == [room \in Joined |-> GetChannelSummaries(Human, room).unread] IN
               MapThenSumSet(LAMBDA q : joined[q], DOMAIN joined)

LEMMA BadgeOfChannels ==
  ASSUME CvInv
  PROVE  JoinedBadge = Cardinality(UnreadJoined)
<1> DEFINE counts == [room \in Joined |-> GetChannelSummaries(Human, room).unread]
           M == {i \in MsgIds : messages[i].from # Human /\ i > lastRead[Human][messages[i].conv]}
           key == [i \in MsgIds |-> messages[i].room]
<1>1. DOMAIN counts = Joined
  OBVIOUS
<1>2. \A q \in Joined : counts[q] = Cardinality({i \in GetChannelMessages(q) :
                                /\ messages[i].from # Human /\ i > lastRead[Human][messages[i].conv]})
  BY DEF GetChannelSummaries
<1>3. \A q \in Joined : {i \in GetChannelMessages(q) :
                           /\ messages[i].from # Human /\ i > lastRead[Human][messages[i].conv]}
                        = {i \in M : key[i] = q}
  BY DEF GetChannelMessages
<1>4. IsFiniteSet(M) /\ IsFiniteSet(Joined)
  <2>1. M \subseteq MsgIds /\ Joined \subseteq Rooms
    BY DEF Joined
  <2> QED
    BY <2>1, MessagesFinite, FS_Subset, ConversationsAssumption
<1>5. {i \in M : key[i] \in Joined} = UnreadJoined
  BY DEF UnreadJoined
<1>6. JoinedBadge = SumOf(counts, Joined)
  BY <1>1 DEF JoinedBadge, SumOf
<1> HIDE DEF counts, M, key
<1>7. \A q \in Joined : counts[q] = Cardinality({i \in M : key[i] = q})
  BY <1>2, <1>3, Zenon
<1>8. SumOf(counts, Joined) = Cardinality(Keyed(M, key, Joined))
  <2>1. CountsRows(counts, M, key, Joined)
    BY <1>7, Zenon DEF CountsRows
  <2> QED
    BY <1>4, <2>1, SumOfCounts
<1> QED
  BY <1>5, <1>6, <1>8, Zenon DEF Keyed

\* ... which have no message in common.
LEMMA BadgeIsUnread ==
  ASSUME CvInv
  PROVE  UnreadCounts = Cardinality(UnreadOf(Human))
<1>1. UnreadCounts = DirectBadge + JoinedBadge
  BY DEF UnreadCounts, DirectBadge, JoinedBadge, Joined
<1>2. \A i \in MsgIds : /\ messages[i].to = Human => messages[i].room = 0
                        /\ messages[i].room \in Rooms \union {0} /\ i \in Nat
                        /\ lastRead[Human][messages[i].conv] \in Nat
  <2>1. \A i \in MsgIds : messages[i] \in CvMessage
    BY CvRows DEF CvInv
  <2>2. \A i \in MsgIds : i \in Nat /\ lastRead[Human][messages[i].conv] \in Nat
    BY CvPointer, ConversationsAssumption DEF CvInv
  <2> QED
    BY <2>1, <2>2, ConversationsAssumption DEF CvInv, CvRefers, CvMessage
<1>3. UnreadOf(Human) = UnreadDirect \union UnreadJoined
  BY <1>2, ConversationsAssumption DEF UnreadOf, UnreadDirect, UnreadJoined, Joined, buildInboxConditions
<1>4. UnreadDirect \intersect UnreadJoined = {} /\ UnreadDirect \subseteq MsgIds /\ UnreadJoined \subseteq MsgIds
  BY <1>2, ConversationsAssumption DEF UnreadDirect, UnreadJoined, Joined, buildInboxConditions
<1>5. IsFiniteSet(UnreadDirect) /\ IsFiniteSet(UnreadJoined)
  BY <1>4, MessagesFinite, FS_Subset
<1>6. Cardinality(UnreadDirect \union UnreadJoined) = Cardinality(UnreadDirect) + Cardinality(UnreadJoined)
  BY <1>4, <1>5, FS_Union, FS_EmptySet, FS_CardinalityType
<1> QED
  BY <1>1, <1>3, <1>6, BadgeIsInbox, BadgeOfChannels

\* conversations.list counts every message once.
LEMMA ThreadsCountAll ==
  ASSUME CvInv
  PROVE  LET n == handleConversationsList IN MapThenSumSet(LAMBDA k : n[k], ConvIds) = Len(messages)
<1> DEFINE n == handleConversationsList
           key == [i \in MsgIds |-> messages[i].conv]
<1>1. \A k \in ConvIds : n[k] = Cardinality({i \in MsgIds : key[i] = k})
  <2>1. \A k \in ConvIds : {i \in MsgIds : messages[i].conv = k} = {i \in MsgIds : key[i] = k}
    OBVIOUS
  <2>2. \A k \in ConvIds : n[k] = Cardinality({i \in MsgIds : messages[i].conv = k})
    BY DEF handleConversationsList, GetConversationMessages
  <2> HIDE DEF n, key
  <2> QED
    BY <2>1, <2>2, Zenon
<1>2. {i \in MsgIds : key[i] \in ConvIds} = MsgIds
  BY DEF CvInv, CvRefers
<1>3. MapThenSumSet(LAMBDA k : n[k], ConvIds) = SumOf(n, ConvIds)
  BY DEF SumOf
<1> HIDE DEF n, key
<1>4. SumOf(n, ConvIds) = Cardinality(Keyed(MsgIds, key, ConvIds))
  <2>1. CountsRows(n, MsgIds, key, ConvIds)
    BY <1>1, Zenon DEF CountsRows
  <2> QED
    BY <2>1, MessagesFinite, SumOfCounts
<1>5. SumOf(n, ConvIds) = Cardinality(MsgIds)
  BY <1>2, <1>4, Zenon DEF Keyed
<1>6. MapThenSumSet(LAMBDA k : n[k], ConvIds) = Len(messages)
  BY <1>3, <1>5, MessagesFinite
<1> QED
  BY <1>6 DEF n

LEMMA CvCounts == CvInv => CountsAgree
<1> SUFFICES ASSUME CvInv PROVE CountsAgree
  OBVIOUS
<1>0. IsFiniteSet(MsgIds) /\ \A i \in MsgIds : messages[i].to \in Speakers => messages[i].room = 0
  BY MessagesFinite, ConversationsAssumption DEF CvInv, CvRefers
<1>1. ASSUME NEW a \in Speakers
      PROVE  LET st == handleMyStatus(a) IN
             /\ st.total = Cardinality({i \in buildInboxConditions(a, TRUE) : messages[i].status = "pending"})
             /\ st.total <= Cardinality(st.dms \union st.system)
             /\ CountInboxMessages(a, FALSE) <= CountInboxMessages(a, TRUE)
             /\ buildSearchConditions(a) = handleMessagesList(a)
  <2> DEFINE st == handleMyStatus(a)
             P == {i \in MsgIds : messages[i].to = a /\ messages[i].room = 0 /\ messages[i].status = "pending"}
             Q == {i \in buildInboxConditions(a, TRUE) : messages[i].status = "pending"}
             W == GetPendingDMs(a) \union GetSystemNotifications(a)
             U == buildInboxConditions(a, FALSE)
             V == buildInboxConditions(a, TRUE)
  <2>1. st.total = Cardinality(P) /\ st.dms = GetPendingDMs(a) /\ st.system = GetSystemNotifications(a)
    BY DEF handleMyStatus, CountPendingDMs
  <2>2. P = Q
    BY <1>0 DEF buildInboxConditions
  <2>3. P \subseteq W /\ W \subseteq MsgIds
    BY DEF GetPendingDMs, GetSystemNotifications
  <2>4. U \subseteq V /\ V \subseteq MsgIds
    BY DEF buildInboxConditions
  <2>5. buildSearchConditions(a) = handleMessagesList(a)
    BY SearchFinds DEF handleMessagesList
  <2>6. CountInboxMessages(a, FALSE) = Cardinality(U) /\ CountInboxMessages(a, TRUE) = Cardinality(V)
    BY DEF CountInboxMessages
  <2> HIDE DEF P, Q, U, V
  <2>7. Cardinality(P) <= Cardinality(W) /\ Cardinality(U) <= Cardinality(V)
    <3> HIDE DEF W
    <3>1. IsFiniteSet(W) /\ IsFiniteSet(V)
      BY <1>0, <2>3, <2>4, FS_Subset
    <3> QED
      BY <2>3, <2>4, <3>1, FS_Subset
  <2>8. st.total = Cardinality(Q)
    BY <2>1, <2>2, Zenon
  <2>9. st.total <= Cardinality(st.dms \union st.system)
    BY <2>1, <2>7
  <2>10. CountInboxMessages(a, FALSE) <= CountInboxMessages(a, TRUE)
    BY <2>6, <2>7
  <2> HIDE DEF st
  <2> QED
    BY <2>5, <2>8, <2>9, <2>10, Zenon DEF st, Q
<1>2. ASSUME NEW i \in MsgIds PROVE EnrichedReplyCount(i) = Cardinality(GetReplies(i))
  <2> DEFINE R == {j \in MsgIds : messages[j].reply = i}
             C == {messages[j].reply : j \in MsgIds} \intersect {i}
             counts == GetReplyCounts({i})
  <2>1. GetReplies(i) = R
    BY DEF GetReplies
  <2>2. DOMAIN counts = C /\ (i \in C => counts[i] = Cardinality(R))
    BY DEF GetReplyCounts
  <2>3. EnrichedReplyCount(i) = IF i \in C THEN Cardinality(R) ELSE 0
    BY <2>2 DEF EnrichedReplyCount
  <2>4. i \notin C => R = {}
    OBVIOUS
  <2> HIDE DEF R, C
  <2>5. i \notin C => Cardinality(R) = 0
    <3>1. Cardinality({}) = 0
      BY FS_EmptySet
    <3> QED
      BY <2>4, <3>1, Zenon
  <2> QED
    BY <2>1, <2>3, <2>5
<1>3. LET n == handleConversationsList IN MapThenSumSet(LAMBDA k : n[k], ConvIds) = Len(messages)
  BY ThreadsCountAll
<1>4. UnreadCounts = Cardinality(UnreadOf(Human))
  BY BadgeIsUnread
<1> QED
  BY <1>1, <1>2, <1>3, <1>4, Zenon DEF CountsAgree

\* However sends, reads, marks and failures interleave, a message below its
\* recipient's pointer was seen or left out on purpose, a thread joins what was
\* there when its sender looked, and badge, inbox, status page and web views
\* show the same messages.
THEOREM ConversationsCorrect == ConversationsSpec => []ConversationsSafe
<1>1. CvInv => ConversationsSafe
  <2>1. CvInv => ThreadsJoin /\ NothingMissed
    BY DEF CvInv
  <2> QED
    BY <2>1, CvTyped, CvCounts, CvViews, CvMarker DEF ConversationsSafe
<1> QED
  BY <1>1, CvInitInv, CvStep, PTL DEF ConversationsSpec

\* Read pointers never move back.
THEOREM PointersForward == ConversationsSpec => ReadStaysRead
<1>1. CvInv /\ [ConversationsNext]_cvVars =>
        [\A a \in Speakers, k \in 1..MaxConversations : lastRead'[a][k] >= lastRead[a][k]]_cvVars
  BY CvForward
<1> QED
  BY <1>1, CvInitInv, CvStep, PTL DEF ConversationsSpec, ReadStaysRead

-----------------------------------------------------------------------------
(* The budget of a packet.  The loop of applyTokenBudget is a function on   *)
(* the number of turns; that it is defined, and what it has taken after     *)
(* each turn, is shown by taking the least turn without.                   *)

ItemRow == [id : Nat, size : Nat, truncated : BOOLEAN]
LoopStart == [used |-> 0, out |-> <<>>, done |-> FALSE]
Turn(st, k, items, maxItems, budget) ==
  IF st.done \/ k > maxItems THEN st ELSE takeItem(st, items[k], budget)
Loops(f, items, maxItems, budget, n) ==
  f = [k \in 0..n |-> IF k = 0 THEN LoopStart ELSE Turn(f[k - 1], k, items, maxItems, budget)]

LEMMA BudgetIsLoop ==
  ASSUME NEW items, NEW maxItems, NEW budget
  PROVE  applyTokenBudget(items, maxItems, budget)
            = (CHOOSE f : Loops(f, items, maxItems, budget, Len(items)))[Len(items)].out
BY DEF applyTokenBudget, Loops, LoopStart, Turn

LEMMA LoopsExist ==
  ASSUME NEW items, NEW maxItems, NEW budget, NEW n \in Nat
  PROVE  \E f : Loops(f, items, maxItems, budget, n)
<1> DEFINE B == {m \in Nat : ~ \E f : Loops(f, items, maxItems, budget, m)}
<1> SUFFICES ASSUME B # {} PROVE FALSE
  OBVIOUS
<1>1. PICK m \in B : \A j \in B : m <= j
  BY LeastNatural
<1>2. m # 0
  <2>1. Loops([k \in 0..0 |-> LoopStart], items, maxItems, budget, 0)
    BY DEF Loops
  <2> QED
    BY <2>1
<1>3. m - 1 \in Nat /\ m - 1 \notin B
  BY <1>1, <1>2
<1>4. PICK f : Loops(f, items, maxItems, budget, m - 1)
  BY <1>3
<1> DEFINE g == [k \in 0..m |-> IF k = m THEN Turn(f[m - 1], m, items, maxItems, budget) ELSE f[k]]
<1>5. \A k \in 0..m : k # 0 => k - 1 \in 0..m /\ g[k - 1] = f[k - 1]
  BY <1>1, <1>2
<1>6. \A k \in 0..m : g[k] = IF k = 0 THEN LoopStart ELSE Turn(g[k - 1], k, items, maxItems, budget)
  BY <1>1, <1>2, <1>4, <1>5 DEF Loops
<1>7. Loops(g, items, maxItems, budget, m)
  BY <1>6 DEF Loops
<1> QED
  BY <1>1, <1>7

\* The first k items in a row, and what they cost.
CostUpTo(items, k) == SumOf(Costs(items), 1..k)
Cut(item, left) == [item EXCEPT !.size = left * 4 - Overhead, !.truncated = TRUE]

LEMMA CostsNat ==
  ASSUME NEW items \in Seq(ItemRow), NEW k \in 1..Len(items)
  PROVE  Costs(items)[k] \in Nat /\ Costs(items)[k] = EstimateTokens(itemChars(items[k]))
<1>1. items[k].size \in Nat
  <2>1. items[k] \in ItemRow
    OBVIOUS
  <2> QED
    BY <2>1 DEF ItemRow
<1>2. \A c \in Nat : (c + 3) \div 4 \in Nat
  OBVIOUS
<1>3. items[k].size + Overhead \in Nat
  BY <1>1, InjectionAssumption
<1>4. EstimateTokens(itemChars(items[k])) \in Nat
  BY <1>2, <1>3 DEF EstimateTokens, itemChars
<1>5. DOMAIN items = 1..Len(items)
  OBVIOUS
<1>6. Costs(items)[k] = EstimateTokens(itemChars(items[k]))
  BY <1>5, Zenon DEF Costs
<1> QED
  BY <1>4, <1>6

LEMMA CostStep ==
  ASSUME NEW items \in Seq(ItemRow), NEW k \in 0..(Len(items) - 1)
  PROVE  /\ CostUpTo(items, 0) = 0
         /\ CostUpTo(items, k) \in Nat /\ CostUpTo(items, k + 1) \in Nat
         /\ CostUpTo(items, k + 1) = CostUpTo(items, k) + EstimateTokens(itemChars(items[k + 1]))
<1>1. \A j \in 0..Len(items) : IsFiniteSet(1..j)
  <2> SUFFICES ASSUME NEW j \in 0..Len(items) PROVE IsFiniteSet(1..j)
    OBVIOUS
  <2>1. j \in Int /\ 1 \in Int
    OBVIOUS
  <2> QED
    BY <2>1, FS_Interval, Zenon
<1>2. \A j \in 0..Len(items) : \A d \in 1..j : Costs(items)[d] \in Nat
  BY CostsNat
<1>3. \A j \in 0..Len(items) : CostUpTo(items, j) \in Nat
  BY <1>1, <1>2, SumNat DEF CostUpTo
<1>4. (1..(k + 1)) \ {k + 1} = 1..k /\ k + 1 \in 1..(k + 1) /\ k + 1 \in 0..Len(items) /\ k + 1 \in 1..Len(items)
      /\ k \in 0..Len(items)
  OBVIOUS
<1>5. SumOf(Costs(items), 1..(k + 1)) = Costs(items)[k + 1] + SumOf(Costs(items), (1..(k + 1)) \ {k + 1})
  BY <1>1, <1>2, <1>4, SumRemove, SMTT(30)
<1>6. CostUpTo(items, k + 1) = Costs(items)[k + 1] + CostUpTo(items, k)
  BY <1>4, <1>5 DEF CostUpTo
<1>7. CostUpTo(items, 0) = 0
  <2>1. 1..0 = {} /\ IsFiniteSet({})
    BY FS_EmptySet
  <2> QED
    BY <2>1, SumStep DEF CostUpTo
<1>8. Costs(items)[k + 1] = EstimateTokens(itemChars(items[k + 1])) /\ Costs(items)[k + 1] \in Nat
  BY <1>4, CostsNat
<1> HIDE DEF CostUpTo
<1> QED
  BY <1>3, <1>4, <1>6, <1>7, <1>8

\* What the loop has after k turns: the first items whole, or, once it ended,
\* the w items that fit and perhaps the next one cut.
Whole(out, items, w) == out \in Seq(ItemRow) /\ Len(out) >= w /\ \A i \in 1..w : out[i] = items[i]
Going(st, j, items, budget) ==
  /\ ~st.done /\ st.used = CostUpTo(items, j) /\ CostUpTo(items, j) <= budget
  /\ Whole(st.out, items, j) /\ Len(st.out) = j
Ended(out, w, items, maxItems, budget) ==
  /\ w < maxItems /\ w < Len(items) /\ CostUpTo(items, w) <= budget /\ CostUpTo(items, w + 1) > budget
  /\ Whole(out, items, w)
  /\ \/ Len(out) = w
     \/ /\ Len(out) = w + 1 /\ (budget - CostUpTo(items, w)) * 4 > Overhead
        /\ out[w + 1] = Cut(items[w + 1], budget - CostUpTo(items, w))
AfterTurn(st, k, items, maxItems, budget) ==
  \/ Going(st, IF k <= maxItems THEN k ELSE maxItems, items, budget)
  \/ st.done /\ \E w \in 0..Len(items) : Ended(st.out, w, items, maxItems, budget)

LEMMA TakeStep ==
  ASSUME NEW items \in Seq(ItemRow), NEW maxItems \in Nat, NEW budget \in Nat,
         NEW k \in 0..(Len(items) - 1), k < maxItems, NEW st, Going(st, k, items, budget)
  PROVE  LET new == takeItem(st, items[k + 1], budget) IN
         \/ Going(new, k + 1, items, budget)
         \/ new.done /\ Ended(new.out, k, items, maxItems, budget)
<1> DEFINE new == takeItem(st, items[k + 1], budget)
           cost == EstimateTokens(itemChars(items[k + 1]))
           left == budget - st.used
<1>1. /\ CostUpTo(items, k) \in Nat /\ CostUpTo(items, k + 1) = CostUpTo(items, k) + cost
      /\ st.used = CostUpTo(items, k) /\ CostUpTo(items, k) <= budget /\ cost \in Nat
  <2>1. k + 1 \in 1..Len(items)
    OBVIOUS
  <2> QED
    BY <2>1, CostStep, CostsNat DEF Going
<1>2. st.out \in Seq(ItemRow) /\ Len(st.out) = k /\ \A i \in 1..k : st.out[i] = items[i]
  BY DEF Going, Whole
<1>3. items[k + 1] \in ItemRow
  OBVIOUS
<1> HIDE DEF cost
<1>4. CASE st.used + cost <= budget
  <2>1. new = [used |-> st.used + cost, out |-> Append(st.out, items[k + 1]), done |-> FALSE]
    BY <1>4 DEF takeItem, cost
  <2>2. Whole(new.out, items, k + 1) /\ Len(new.out) = k + 1
    BY <1>2, <1>3, <2>1 DEF Whole
  <2> QED
    BY <1>1, <1>4, <2>1, <2>2 DEF Going
<1>5. CASE ~(st.used + cost <= budget)
  <2>1. new = [used |-> st.used, done |-> TRUE,
               out |-> IF left * 4 <= Overhead THEN st.out ELSE Append(st.out, Cut(items[k + 1], left))]
    BY <1>5 DEF takeItem, cost, Cut
  <2>2. /\ k < maxItems /\ k < Len(items) /\ CostUpTo(items, k) <= budget /\ CostUpTo(items, k + 1) > budget
    BY <1>1, <1>5
  <2>3. CASE left * 4 <= Overhead
    <3>1. new.out = st.out /\ new.done
      BY <2>1, <2>3
    <3> QED
      BY <1>2, <2>2, <3>1 DEF Ended, Whole
  <2>4. CASE ~(left * 4 <= Overhead)
    <3>1. new.out = Append(st.out, Cut(items[k + 1], left)) /\ new.done
      BY <2>1, <2>4
    <3>2. left = budget - CostUpTo(items, k) /\ left \in Nat /\ left * 4 > Overhead /\ left * 4 - Overhead \in Nat
      BY <1>1, <2>4, InjectionAssumption, SMTT(30)
    <3>3. Cut(items[k + 1], left) \in ItemRow
      BY <1>3, <3>2 DEF Cut, ItemRow
    <3> HIDE DEF left, new
    <3>4. new.out \in Seq(ItemRow) /\ Len(new.out) = k + 1 /\ new.out[k + 1] = Cut(items[k + 1], left)
          /\ \A i \in 1..k : new.out[i] = items[i]
      BY <1>2, <3>1, <3>3
    <3>5. Ended(new.out, k, items, maxItems, budget)
      BY <2>2, <3>2, <3>4 DEF Ended, Whole
    <3> QED
      BY <3>1, <3>5 DEF new
  <2> QED
    BY <2>3, <2>4
<1> QED
  BY <1>4, <1>5

LEMMA LoopHolds ==
  ASSUME NEW items \in Seq(ItemRow), NEW maxItems \in Nat, NEW budget \in Nat,
         NEW f, Loops(f, items, maxItems, budget, Len(items)), NEW n \in 0..Len(items)
  PROVE  AfterTurn(f[n], n, items, maxItems, budget)
<1> DEFINE B == {m \in 0..Len(items) : ~AfterTurn(f[m], m, items, maxItems, budget)}
<1> SUFFICES ASSUME B # {} PROVE FALSE
  OBVIOUS
<1>1. PICK m \in B : \A j \in B : m <= j
  <2>1. B \subseteq Nat
    OBVIOUS
  <2> HIDE DEF B
  <2> QED
    BY <2>1, LeastNatural
<1>2. m # 0
  <2>1. f[0] = LoopStart
    BY DEF Loops
  <2>2. CostUpTo(items, 0) = 0
    <3>1. 1..0 = {} /\ IsFiniteSet({})
      BY FS_EmptySet
    <3> QED
      BY <3>1, SumStep DEF CostUpTo
  <2>3. Whole(<<>>, items, 0)
    BY DEF Whole
  <2>4. Going(LoopStart, 0, items, budget)
    BY <2>2, <2>3 DEF Going, LoopStart
  <2> QED
    BY <2>1, <2>4 DEF AfterTurn
<1>3. m - 1 \in 0..(Len(items) - 1) /\ m \in Nat /\ (m - 1) + 1 = m
  BY <1>1, <1>2
<1>4. AfterTurn(f[m - 1], m - 1, items, maxItems, budget)
  BY <1>1, <1>3
<1>5. f[m] = Turn(f[m - 1], m, items, maxItems, budget)
  BY <1>1, <1>2 DEF Loops
<1> HIDE DEF B
<1>6. CASE f[m - 1].done
  <2>1. f[m] = f[m - 1]
    BY <1>5, <1>6 DEF Turn
  <2> QED
    BY <1>1, <1>4, <1>6, <2>1 DEF AfterTurn, Going, B
<1>7. CASE ~f[m - 1].done /\ m > maxItems
  <2>1. f[m] = f[m - 1]
    BY <1>5, <1>7 DEF Turn
  <2>2. (IF m - 1 <= maxItems THEN m - 1 ELSE maxItems) = maxItems /\ (IF m <= maxItems THEN m ELSE maxItems) = maxItems
    BY <1>3, <1>7
  <2> QED
    BY <1>1, <1>4, <1>7, <2>1, <2>2 DEF AfterTurn, B
<1>8. CASE ~f[m - 1].done /\ ~(m > maxItems)
  <2>1. PICK k \in 0..(Len(items) - 1) : k = m - 1
    BY <1>3
  <2>2. k < maxItems /\ k <= maxItems /\ k + 1 <= maxItems /\ k + 1 = m
    BY <1>3, <1>8, <2>1
  <2>3. Going(f[k], k, items, budget)
    BY <1>4, <1>8, <2>1, <2>2 DEF AfterTurn
  <2>4. f[m] = takeItem(f[k], items[k + 1], budget)
    BY <1>5, <1>8, <2>1, <2>2 DEF Turn
  <2>5. \/ Going(f[m], k + 1, items, budget)
        \/ f[m].done /\ Ended(f[m].out, k, items, maxItems, budget)
    BY <2>2, <2>3, <2>4, TakeStep
  <2>6. k \in 0..Len(items)
    OBVIOUS
  <2> QED
    BY <1>1, <2>2, <2>5, <2>6 DEF AfterTurn, B
<1> QED
  BY <1>6, <1>7, <1>8

\* Sums of functions that agree.
LEMMA SumAgree ==
  ASSUME NEW c, NEW d, NEW D, IsFiniteSet(D), \A x \in D : c[x] = d[x]
  PROVE  SumOf(c, D) = SumOf(d, D)
<1> DEFINE B == {n \in Nat : \E E \in SUBSET D : Cardinality(E) = n /\ SumOf(c, E) # SumOf(d, E)}
<1> SUFFICES ASSUME SumOf(c, D) # SumOf(d, D) PROVE FALSE
  OBVIOUS
<1>1. Cardinality(D) \in B
  BY FS_CardinalityType
<1>2. PICK n \in B : \A j \in B : n <= j
  <2>1. B \subseteq Nat /\ B # {}
    BY <1>1
  <2> HIDE DEF B
  <2> QED
    BY <2>1, LeastNatural
<1>3. PICK E \in SUBSET D : Cardinality(E) = n /\ SumOf(c, E) # SumOf(d, E)
  BY <1>2
<1>4. IsFiniteSet(E)
  BY FS_Subset
<1>5. E # {}
  BY <1>3, <1>4, SumStep
<1>6. PICK x \in E : x = Some(E)
  BY <1>5, SomeIn
<1>7. SumOf(c, E) = c[x] + SumOf(c, E \ {x}) /\ SumOf(d, E) = d[x] + SumOf(d, E \ {x})
  BY <1>4, <1>5, <1>6, SumStep
<1>8. SumOf(c, E \ {x}) # SumOf(d, E \ {x})
  BY <1>3, <1>7
<1>9. Cardinality(E \ {x}) \in Nat /\ Cardinality(E \ {x}) < n
  BY <1>3, <1>4, OneLess, SMTT(30)
<1>10. Cardinality(E \ {x}) \in B
  BY <1>8, <1>9
<1> QED
  BY <1>2, <1>9, <1>10

\* The cost of a packet by the cost of the items it was made from.
LEMMA TokensOfWhole ==
  ASSUME NEW items \in Seq(ItemRow), NEW out \in Seq(ItemRow), NEW w \in 0..Len(items),
         Whole(out, items, w)
  PROVE  CostUpTo(out, w) = CostUpTo(items, w)
<1>1. IsFiniteSet(1..w)
  <2>1. w \in Int /\ 1 \in Int
    OBVIOUS
  <2> QED
    BY <2>1, FS_Interval, Zenon
<1>2. \A x \in 1..w : x \in 1..Len(items) /\ x \in 1..Len(out) /\ out[x] = items[x]
  BY DEF Whole
<1>3. \A x \in 1..w : Costs(out)[x] = Costs(items)[x]
  BY <1>2, CostsNat
<1> QED
  BY <1>1, <1>3, SumAgree DEF CostUpTo

LEMMA TokensAre ==
  ASSUME NEW out \in Seq(ItemRow)
  PROVE  Tokens(out) = CostUpTo(out, Len(out))
<1>1. DOMAIN out = 1..Len(out)
  OBVIOUS
<1> QED
  BY <1>1, Zenon DEF Tokens, CostUpTo, SumOf

\* What a packet is: items that fit, perhaps one more that is cut.
PacketOf(p, items, maxItems, budget) ==
  \/ /\ Whole(p, items, Len(p)) /\ CostUpTo(items, Len(p)) <= budget
     /\ Len(p) = IF Len(items) <= maxItems THEN Len(items) ELSE maxItems
  \/ \E w \in 0..Len(items) : Ended(p, w, items, maxItems, budget)

LEMMA BudgetIs ==
  ASSUME NEW items \in Seq(ItemRow), NEW maxItems \in Nat, NEW budget \in Nat
  PROVE  PacketOf(applyTokenBudget(items, maxItems, budget), items, maxItems, budget)
<1>1. Len(items) \in Nat
  OBVIOUS
<1>2. PICK f : /\ Loops(f, items, maxItems, budget, Len(items))
               /\ f = CHOOSE g : Loops(g, items, maxItems, budget, Len(items))
  BY <1>1, LoopsExist
<1>3. applyTokenBudget(items, maxItems, budget) = f[Len(items)].out
  BY <1>2, BudgetIsLoop
<1>4. AfterTurn(f[Len(items)], Len(items), items, maxItems, budget)
  <2>1. Len(items) \in 0..Len(items)
    BY <1>1
  <2> QED
    BY <1>2, <2>1, LoopHolds
<1>5. PICK st : st = f[Len(items)]
  OBVIOUS
<1>6. PacketOf(st.out, items, maxItems, budget)
  BY <1>4, <1>5, Zenon DEF AfterTurn, Going, PacketOf
<1> QED
  BY <1>3, <1>5, <1>6

Uncut(items) == \A k \in 1..Len(items) : items[k].truncated = FALSE

\* What is cut costs what was left, and is shorter than it was.
LEMMA CutIs ==
  ASSUME NEW item \in ItemRow, NEW left \in Nat, left * 4 > Overhead,
         EstimateTokens(itemChars(item)) > left
  PROVE  /\ Cut(item, left).truncated = TRUE
         /\ EstimateTokens(itemChars(Cut(item, left))) = left
         /\ Cut(item, left).size \in 1..(item.size - 1)
<1>1. item.size \in Nat /\ Overhead \in Nat
  BY InjectionAssumption DEF ItemRow
<1>2. Cut(item, left).truncated = TRUE /\ Cut(item, left).size = left * 4 - Overhead
  BY DEF Cut, ItemRow
<1>3. EstimateTokens(itemChars(Cut(item, left))) = (left * 4 + 3) \div 4
  BY <1>1, <1>2 DEF EstimateTokens, itemChars
<1>4. (left * 4 + 3) \div 4 = left
  OBVIOUS
<1>5. (item.size + Overhead + 3) \div 4 > left
  BY DEF EstimateTokens, itemChars
<1>6. item.size + Overhead > left * 4
  BY <1>1, <1>5
<1> QED
  BY <1>1, <1>2, <1>3, <1>4, <1>6

LEMMA CostOfNext ==
  ASSUME NEW items \in Seq(ItemRow), NEW w \in 0..(Len(items) - 1)
  PROVE  Tokens(SubSeq(items, 1, w + 1)) = CostUpTo(items, w + 1)
<1>1. PICK t : t = SubSeq(items, 1, w + 1)
  OBVIOUS
<1>2. t \in Seq(ItemRow) /\ Len(t) = w + 1 /\ \A i \in 1..(w + 1) : t[i] = items[i]
  BY <1>1
<1>3. w + 1 \in 0..Len(items) /\ w + 1 \in Nat
  OBVIOUS
<1>4. Whole(t, items, w + 1)
  BY <1>2, <1>3 DEF Whole
<1> QED
  BY <1>1, <1>2, <1>3, <1>4, TokensAre, TokensOfWhole

\* applyTokenBudget, for every list of memories, every number of items and every
\* budget: within both, in order, only the last one cut and to something, and
\* nothing left out that would have fitted.
THEOREM BudgetAlwaysHeld ==
  ASSUME NEW items \in Seq(ItemRow), Uncut(items), NEW maxItems \in Nat, NEW budget \in Nat
  PROVE  PacketFits(items, maxItems, budget)
<1>1. PICK p : p = applyTokenBudget(items, maxItems, budget)
  OBVIOUS
<1>2. PacketOf(p, items, maxItems, budget)
  BY <1>1, BudgetIs
<1> DEFINE n == Len(p)
           whole == IF n > 0 /\ p[n].truncated THEN n - 1 ELSE n
           Fits == /\ Tokens(p) <= budget /\ n <= maxItems /\ n <= Len(items)
                   /\ \A k \in 1..whole : p[k] = items[k]
                   /\ whole < n => p[n].size \in 1..(items[n].size - 1)
                   /\ whole < Len(items) /\ whole < maxItems => Tokens(SubSeq(items, 1, whole + 1)) > budget
<1> SUFFICES Fits
  BY <1>1 DEF PacketFits
<1>3. Len(items) \in Nat
  OBVIOUS
<1>4. CASE /\ Whole(p, items, Len(p)) /\ CostUpTo(items, Len(p)) <= budget
           /\ Len(p) = IF Len(items) <= maxItems THEN Len(items) ELSE maxItems
  <2>1. p \in Seq(ItemRow) /\ n \in 0..Len(items) /\ n <= maxItems /\ (n = Len(items) \/ n = maxItems)
    BY <1>3, <1>4 DEF Whole
  <2>2. whole = n
    BY <1>4, <2>1 DEF Whole, Uncut
  <2>3. Tokens(p) <= budget
    BY <1>4, <2>1, TokensAre, TokensOfWhole
  <2>4. \A k \in 1..n : p[k] = items[k]
    BY <1>4 DEF Whole
  <2> HIDE DEF n, whole
  <2> QED
    BY <1>3, <2>1, <2>2, <2>3, <2>4
<1>5. ASSUME NEW w \in 0..Len(items), Ended(p, w, items, maxItems, budget)
      PROVE  Fits
  <2>1. /\ w < maxItems /\ w < Len(items) /\ CostUpTo(items, w) <= budget /\ CostUpTo(items, w + 1) > budget
        /\ Whole(p, items, w) /\ p \in Seq(ItemRow) /\ w \in 0..(Len(items) - 1)
    BY <1>3, <1>5 DEF Ended, Whole
  <2>2. Tokens(SubSeq(items, 1, w + 1)) > budget
    BY <2>1, CostOfNext
  <2>3. CostUpTo(p, w) = CostUpTo(items, w)
    BY <2>1, TokensOfWhole
  <2>4. \A k \in 1..w : p[k] = items[k]
    BY <2>1 DEF Whole
  <2>5. CASE n = w
    <3>1. whole = w
      BY <2>1, <2>4, <2>5 DEF Uncut
    <3>2. Tokens(p) <= budget
      BY <2>1, <2>3, <2>5, TokensAre
    <3> HIDE DEF n, whole
    <3> QED
      BY <2>1, <2>2, <2>4, <2>5, <3>1, <3>2
  <2>6. CASE /\ n = w + 1 /\ (budget - CostUpTo(items, w)) * 4 > Overhead
             /\ p[w + 1] = Cut(items[w + 1], budget - CostUpTo(items, w))
    <3>1. /\ CostUpTo(items, w) \in Nat
          /\ CostUpTo(items, w + 1) = CostUpTo(items, w) + EstimateTokens(itemChars(items[w + 1]))
          /\ EstimateTokens(itemChars(items[w + 1])) \in Nat
      <4>1. w + 1 \in 1..Len(items)
        BY <2>1
      <4> QED
        BY <2>1, <4>1, CostStep, CostsNat
    <3>2. PICK left \in Nat : left = budget - CostUpTo(items, w)
      BY <2>1, <3>1
    <3>3. EstimateTokens(itemChars(items[w + 1])) > left
      BY <2>1, <3>1, <3>2
    <3>4. items[w + 1] \in ItemRow
      BY <2>1
    <3>5. /\ p[w + 1].truncated = TRUE /\ EstimateTokens(itemChars(p[w + 1])) = left
          /\ p[w + 1].size \in 1..(items[w + 1].size - 1)
      BY <2>6, <3>2, <3>3, <3>4, CutIs
    <3>6. whole = w
      BY <2>1, <2>6, <3>5
    <3>7. Tokens(p) <= budget
      <4>1. w \in 0..(Len(p) - 1)
        BY <2>1, <2>6
      <4>2. CostUpTo(p, w + 1) = CostUpTo(p, w) + EstimateTokens(itemChars(p[w + 1]))
        BY <2>1, <4>1, CostStep
      <4>3. CostUpTo(p, w + 1) = budget
        BY <2>3, <3>1, <3>2, <3>5, <4>2
      <4> QED
        BY <2>1, <2>6, <4>3, TokensAre
    <3> HIDE DEF n, whole
    <3> QED
      BY <2>1, <2>2, <2>4, <2>6, <3>5, <3>6, <3>7
  <2> QED
    BY <1>5, <2>5, <2>6 DEF Ended
<1> QED
  BY <1>2, <1>4, <1>5 DEF PacketOf

LEMMA BudgetHeldHolds == BudgetHeld
<1> SUFFICES ASSUME NEW c \in Candidates, NEW maxItems \in 1..3, NEW budget \in TriedBudgets
             PROVE  PacketFits(c, maxItems, budget)
  BY DEF BudgetHeld
<1> DEFINE X == [id : {0}, size : TriedSizes, truncated : {FALSE}]
<1>1. PICK n \in 0..3 : c \in [1..n -> X]
  BY DEF Candidates
<1>2. ASSUME NEW x \in X PROVE x \in ItemRow /\ x.truncated = FALSE
  <2>5. x.truncated \in {FALSE} /\ x.size \in TriedSizes /\ x.id \in {0}
    BY Zenon
  <2>1. x.truncated = FALSE /\ x.truncated \in BOOLEAN /\ x.size \in TriedSizes /\ x.id = 0
    BY <2>5, Zenon
  <2>6. TriedSizes \subseteq Nat /\ 0 \in Nat
    BY InjectionAssumption
  <2>2. x.id \in Nat /\ x.size \in Nat
    BY <2>1, <2>6, Zenon
  <2>3. x = [id |-> x.id, size |-> x.size, truncated |-> x.truncated]
    OBVIOUS
  <2> HIDE DEF X
  <2>4. x \in ItemRow
    BY <2>1, <2>2, <2>3 DEF ItemRow
  <2> QED
    BY <2>1, <2>4
<1> HIDE DEF X
<1>3. c \in [1..n -> ItemRow] /\ n \in Nat /\ \A k \in 1..n : c[k].truncated = FALSE
  <2>1. n \in Nat
    OBVIOUS
  <2>2. c \in [1..n -> ItemRow] /\ \A k \in 1..n : c[k].truncated = FALSE
    BY <1>1, <1>2, Zenon
  <2> QED
    BY <2>1, <2>2
<1>4. c \in Seq(ItemRow) /\ Len(c) = n
  BY <1>3
<1>5. Uncut(c)
  BY <1>3, <1>4, Zenon DEF Uncut
<1>6. maxItems \in Nat /\ budget \in Nat
  BY InjectionAssumption
<1> QED
  BY <1>4, <1>5, <1>6, BudgetAlwaysHeld

-----------------------------------------------------------------------------
(* The memories of a packet.                                               *)

Keeps(f, s, P, n) ==
  f = [k \in 0..n |-> IF k = 0 THEN <<>> ELSE IF k \in P THEN Append(f[k - 1], s[k]) ELSE f[k - 1]]

LEMMA KeptIsLoop ==
  ASSUME NEW s, NEW P
  PROVE  Kept(s, P) = (CHOOSE f : Keeps(f, s, P, Len(s)))[Len(s)]
BY DEF Kept, Keeps

LEMMA KeepsExist ==
  ASSUME NEW s, NEW P, NEW n \in Nat
  PROVE  \E f : Keeps(f, s, P, n)
<1> DEFINE B == {m \in Nat : ~ \E f : Keeps(f, s, P, m)}
<1> SUFFICES ASSUME B # {} PROVE FALSE
  OBVIOUS
<1>1. PICK m \in B : \A j \in B : m <= j
  BY LeastNatural
<1>2. m # 0
  <2>1. Keeps([k \in 0..0 |-> <<>>], s, P, 0)
    BY DEF Keeps
  <2> QED
    BY <2>1
<1>3. m - 1 \in Nat /\ m - 1 \notin B
  BY <1>1, <1>2
<1>4. PICK f : Keeps(f, s, P, m - 1)
  BY <1>3
<1> DEFINE Next(x, k) == IF k \in P THEN Append(x, s[k]) ELSE x
           g == [k \in 0..m |-> IF k = m THEN Next(f[m - 1], m) ELSE f[k]]
<1>5. \A k \in 0..m : k # 0 => k - 1 \in 0..m /\ g[k - 1] = f[k - 1]
  BY <1>1, <1>2
<1>6. \A k \in 0..(m - 1) : f[k] = IF k = 0 THEN <<>> ELSE Next(f[k - 1], k)
  BY <1>3, <1>4 DEF Keeps
<1> HIDE DEF Next
<1>7. \A k \in 0..m : g[k] = IF k = 0 THEN <<>> ELSE Next(g[k - 1], k)
  BY <1>1, <1>2, <1>5, <1>6
<1>8. Keeps(g, s, P, m)
  BY <1>7 DEF Keeps, Next
<1> QED
  BY <1>1, <1>8

\* Each of t is at a position of its own among the first k that are kept.
Picks(t, g, s, P, k, R) ==
  /\ t \in Seq(R) /\ g \in [1..Len(t) -> P \intersect (1..k)]
  /\ \A i \in 1..Len(t) : t[i] = s[g[i]]
  /\ \A i, j \in 1..Len(t) : g[i] = g[j] => i = j

LEMMA KeptIs ==
  ASSUME NEW R, NEW s \in Seq(R), NEW P
  PROVE  \E g : Picks(Kept(s, P), g, s, P, Len(s), R)
<1>1. Len(s) \in Nat
  OBVIOUS
<1>2. PICK f : Keeps(f, s, P, Len(s)) /\ Kept(s, P) = f[Len(s)]
  BY <1>1, KeepsExist, KeptIsLoop
<1> DEFINE B == {m \in 0..Len(s) : ~ \E g : Picks(f[m], g, s, P, m, R)}
<1> SUFFICES ASSUME B # {} PROVE FALSE
  BY <1>1, <1>2
<1>3. PICK m \in B : \A j \in B : m <= j
  <2>1. B \subseteq Nat
    OBVIOUS
  <2> HIDE DEF B
  <2> QED
    BY <2>1, LeastNatural
<1>4. m # 0
  <2>1. f[0] = <<>>
    BY <1>1, <1>2 DEF Keeps
  <2>2. Picks(<<>>, [i \in {} |-> 0], s, P, 0, R)
    BY DEF Picks
  <2> QED
    BY <2>1, <2>2
<1>5. m - 1 \in 0..Len(s) /\ m - 1 \notin B /\ m \in 1..Len(s)
  BY <1>3, <1>4
<1>6. PICK t, g : t = f[m - 1] /\ Picks(t, g, s, P, m - 1, R)
  BY <1>5
<1>7. f[m] = IF m \in P THEN Append(t, s[m]) ELSE t
  BY <1>2, <1>4, <1>5, <1>6 DEF Keeps
<1> HIDE DEF B
<1>8. CASE m \notin P
  <2>1. Picks(t, g, s, P, m, R)
    BY <1>5, <1>6 DEF Picks
  <2> QED
    BY <1>3, <1>7, <1>8, <2>1 DEF B
<1>9. CASE m \in P
  <2>1. PICK u : u = Append(t, s[m])
    OBVIOUS
  <2>2. /\ t \in Seq(R) /\ Len(t) \in Nat /\ u \in Seq(R) /\ Len(u) = Len(t) + 1 /\ u[Len(t) + 1] = s[m]
        /\ \A i \in 1..Len(t) : u[i] = t[i]
    BY <1>5, <1>6, <2>1 DEF Picks
  <2> DEFINE h == [i \in 1..Len(u) |-> IF i = Len(u) THEN m ELSE g[i]]
  <2>3. \A i \in 1..Len(u) : i # Len(u) => i \in 1..Len(t)
    BY <2>2
  <2>4. \A i \in 1..Len(t) : g[i] \in P /\ g[i] \in 1..(m - 1) /\ g[i] # m /\ g[i] \in 1..m
    <3>1. \A i \in 1..Len(t) : g[i] \in P /\ g[i] \in 1..(m - 1)
      BY <1>6, Zenon DEF Picks
    <3> QED
      BY <1>5, <3>1
  <2>5. h \in [1..Len(u) -> P \intersect (1..m)]
    BY <1>5, <1>9, <2>3, <2>4
  <2>6. \A i \in 1..Len(u) : u[i] = s[h[i]]
    BY <1>6, <2>2, <2>3 DEF Picks
  <2>7. \A i, j \in 1..Len(u) : h[i] = h[j] => i = j
    BY <1>6, <2>3, <2>4 DEF Picks
  <2>8. Picks(u, h, s, P, m, R)
    BY <2>2, <2>5, <2>6, <2>7 DEF Picks
  <2> QED
    BY <1>3, <1>7, <1>9, <2>1, <2>8 DEF B
<1> QED
  BY <1>8, <1>9

\* A packet has the memories it was made from, in their places.
LEMMA BudgetKeepsIds ==
  ASSUME NEW items \in Seq(ItemRow), NEW maxItems \in Nat, NEW budget \in Nat, NEW out,
         out = applyTokenBudget(items, maxItems, budget)
  PROVE  \A k \in DOMAIN out : k \in 1..Len(items) /\ out[k].id = items[k].id
<1>1. PacketOf(out, items, maxItems, budget)
  BY BudgetIs
<1>2. out \in Seq(ItemRow) /\ DOMAIN out = 1..Len(out)
  BY <1>1 DEF PacketOf, Whole, Ended
<1>3. CASE Whole(out, items, Len(out)) /\ Len(out) = IF Len(items) <= maxItems THEN Len(items) ELSE maxItems
  BY <1>2, <1>3 DEF Whole
<1>4. ASSUME NEW w \in 0..Len(items), Ended(out, w, items, maxItems, budget)
      PROVE  \A k \in DOMAIN out : k \in 1..Len(items) /\ out[k].id = items[k].id
  <2>1. w < Len(items) /\ \A k \in 1..w : out[k] = items[k]
    BY <1>4 DEF Ended, Whole
  <2>2. CASE Len(out) = w
    BY <1>2, <2>1, <2>2
  <2>3. CASE Len(out) = w + 1 /\ out[w + 1] = Cut(items[w + 1], budget - CostUpTo(items, w))
    <3>1. items[w + 1] \in ItemRow
      BY <2>1
    <3>2. out[w + 1].id = items[w + 1].id
      BY <2>3, <3>1 DEF Cut, ItemRow
    <3> QED
      BY <1>2, <2>1, <2>3, <3>2
  <2> QED
    BY <1>4, <2>2, <2>3 DEF Ended
<1> QED
  BY <1>1, <1>3, <1>4 DEF PacketOf

PoolRow == [from : Thinkers, size : Nat, reply : Nat, meta : Nat, at : Thinkers \union {NoOne}, recent : BOOLEAN, live : BOOLEAN]

\* A list of memories of one owner without repetition.
OwnList(items, owner) ==
  /\ items \in Seq(ItemRow)
  /\ \A k \in 1..Len(items) : ThinkerOwner[pool[items[k].id].from] = owner
  /\ \A j, k \in 1..Len(items) : items[j].id = items[k].id => j = k

OwnIds(ids, n, s, P, owner) ==
  /\ n \in Nat /\ ids \in [1..n -> 1..Len(pool)] /\ s = [k \in 1..n |-> Item(ids[k])]
  /\ \A j, k \in 1..n : ids[j] = ids[k] => j = k
  /\ \A k \in P \intersect (1..n) : ThinkerOwner[pool[ids[k]].from] = owner

\* Memories taken from a list of numbers of messages, with or without gaps.
LEMMA OwnKept ==
  ASSUME pool \in Seq(PoolRow), NEW n, NEW ids, NEW s, NEW P, NEW owner, OwnIds(ids, n, s, P, owner)
  PROVE  OwnList(Kept(s, P), owner)
<1>0. n \in Nat /\ ids \in [1..n -> 1..Len(pool)] /\ s = [k \in 1..n |-> Item(ids[k])]
  BY DEF OwnIds
<1>1. \A k \in 1..n : Item(ids[k]) \in ItemRow /\ Item(ids[k]).id = ids[k]
  <2> SUFFICES ASSUME NEW k \in 1..n PROVE Item(ids[k]) \in ItemRow /\ Item(ids[k]).id = ids[k]
    OBVIOUS
  <2>1. PICK i \in 1..Len(pool) : i = ids[k]
    BY <1>0
  <2>2. pool[i] \in PoolRow
    OBVIOUS
  <2>3. pool[i].size \in Nat /\ i \in Nat
    BY <2>2 DEF PoolRow
  <2>4. Item(i) \in ItemRow /\ Item(i).id = i
    BY <2>3 DEF Item, ItemRow
  <2> QED
    BY <2>1, <2>4
<1>2. s \in [1..n -> ItemRow] /\ \A k \in 1..n : s[k].id = ids[k]
  BY <1>0, <1>1
<1>3. s \in Seq(ItemRow) /\ Len(s) = n
  BY <1>0, <1>2
<1>4. PICK t, g : t = Kept(s, P) /\ Picks(t, g, s, P, n, ItemRow)
  <2>1. \E g : Picks(Kept(s, P), g, s, P, Len(s), ItemRow)
    BY <1>3, KeptIs, Zenon
  <2> QED
    BY <1>3, <2>1, Zenon
<1>5. \A i \in 1..Len(t) : g[i] \in P \intersect (1..n) /\ g[i] \in 1..n /\ t[i] = s[g[i]]
  BY <1>4, Zenon DEF Picks
<1>6. \A i \in 1..Len(t) : t[i].id = ids[g[i]]
  BY <1>2, <1>5
<1>7. \A i \in 1..Len(t) : ThinkerOwner[pool[t[i].id].from] = owner
  <2>1. \A k \in P \intersect (1..n) : ThinkerOwner[pool[ids[k]].from] = owner
    BY DEF OwnIds
  <2> SUFFICES ASSUME NEW i \in 1..Len(t) PROVE ThinkerOwner[pool[t[i].id].from] = owner
    OBVIOUS
  <2>2. PICK k \in P \intersect (1..n) : t[i].id = ids[k]
    BY <1>5, <1>6
  <2> QED
    BY <2>1, <2>2, Zenon
<1>8. ASSUME NEW i \in 1..Len(t), NEW j \in 1..Len(t), t[i].id = t[j].id PROVE i = j
  <2>1. ids[g[i]] = ids[g[j]] /\ g[i] \in 1..n /\ g[j] \in 1..n
    BY <1>5, <1>6, <1>8
  <2>2. g[i] = g[j]
    BY <2>1 DEF OwnIds
  <2> QED
    BY <1>4, <2>2 DEF Picks
<1> QED
  BY <1>4, <1>7, <1>8 DEF Picks, OwnList

LEMMA FoundAreOwn ==
  ASSUME pool \in Seq(PoolRow), NEW owner, NEW results \in Results
  PROVE  OwnList(filterAndScore(results, owner), owner)
<1>1. PICK S : S \subseteq DOMAIN pool /\ results \in SetToSeqs(S)
  BY DEF Results
<1>2. DOMAIN pool = 1..Len(pool) /\ Len(pool) \in Nat
  OBVIOUS
<1>3. IsFiniteSet(S)
  <2>1. 1 \in Int /\ Len(pool) \in Int
    BY <1>2
  <2>2. IsFiniteSet(1..Len(pool))
    BY <2>1, FS_Interval, Zenon
  <2> QED
    BY <1>1, <1>2, <2>2, FS_Subset, Zenon
<1>4. PICK n \in Nat : n = Cardinality(S)
  BY <1>3, FS_CardinalityType
<1>5. results \in [1..n -> S] /\ \A i, j \in 1..n : i # j => results[i] # results[j]
  BY <1>1, <1>4 DEF SetToSeqs
<1>6. results \in [1..n -> 1..Len(pool)] /\ DOMAIN results = 1..n
  BY <1>1, <1>2, <1>5
<1>7. PICK P, s : /\ P = {k \in DOMAIN results : ThinkerOwner[pool[results[k]].from] = owner}
                  /\ s = [k \in DOMAIN results |-> Item(results[k])]
  OBVIOUS
<1>8. s = [k \in 1..n |-> Item(results[k])]
  BY <1>6, <1>7
<1>9. \A k \in P \intersect (1..n) : ThinkerOwner[pool[results[k]].from] = owner
  BY <1>7
<1>10. \A i, j \in 1..n : results[i] = results[j] => i = j
  BY <1>5
<1>11. OwnIds(results, n, s, P, owner)
  BY <1>6, <1>8, <1>9, <1>10 DEF OwnIds
<1>12. OwnList(Kept(s, P), owner)
  BY <1>11, OwnKept
<1> QED
  BY <1>7, <1>12 DEF filterAndScore

LEMMA RecentAreOwn ==
  ASSUME pool \in Seq(PoolRow), NEW owner
  PROVE  OwnList(recentMemoriesForOwner(owner), owner)
<1>1. PICK n \in Nat : n = Len(pool)
  OBVIOUS
<1>2. DOMAIN pool = 1..n
  BY <1>1
<1>3. PICK ids : ids = [k \in 1..n |-> n + 1 - k]
  OBVIOUS
<1>4. ids \in [1..n -> 1..Len(pool)] /\ \A j, k \in 1..n : ids[j] = ids[k] => j = k
  BY <1>1, <1>3
<1>5. \A k \in 1..n : ids[k] = Len(pool) + 1 - k
  BY <1>1, <1>3
<1>6. PICK P, s : /\ P = {k \in DOMAIN pool : LET m == pool[Len(pool) + 1 - k] IN
                              m.live /\ m.recent /\ ThinkerOwner[m.from] = owner}
                  /\ s = [k \in DOMAIN pool |-> Item(Len(pool) + 1 - k)]
  OBVIOUS
<1>7. s = [k \in 1..n |-> Item(ids[k])]
  BY <1>2, <1>5, <1>6
<1>8. \A k \in P \intersect (1..n) : ThinkerOwner[pool[ids[k]].from] = owner
  BY <1>5, <1>6
<1>9. OwnIds(ids, n, s, P, owner)
  BY <1>1, <1>4, <1>7, <1>8 DEF OwnIds
<1>10. OwnList(Kept(s, P), owner)
  BY <1>9, OwnKept
<1> QED
  BY <1>6, <1>10 DEF recentMemoriesForOwner

LEMMA OwnHolds == pool \in Seq(PoolRow) => OwnMemories
<1> SUFFICES ASSUME pool \in Seq(PoolRow), NEW p \in Packets
             PROVE  \A j, k \in DOMAIN p.items :
                      /\ ThinkerOwner[pool[p.items[k].id].from] = ThinkerOwner[p.agent]
                      /\ p.items[j].id = p.items[k].id => j = k
  BY DEF OwnMemories
<1>1. PICK a, found : /\ OwnList(found, ThinkerOwner[a]) /\ p.agent = a
                      /\ p.items = applyTokenBudget(found, MaxItems, BudgetTokens)
  <2>1. CASE \E a \in Thinkers : p = BuildContextPacket(a, FALSE, <<>>)
    <3>1. PICK a \in Thinkers : p = BuildContextPacket(a, FALSE, <<>>)
      BY <2>1
    <3>2. p.agent = a /\ p.items = applyTokenBudget(recentMemoriesForOwner(ThinkerOwner[a]), MaxItems, BudgetTokens)
      BY <3>1 DEF BuildContextPacket
    <3> QED
      BY <3>2, RecentAreOwn
  <2>2. CASE \E a \in Thinkers, results \in Results : p = BuildContextPacket(a, TRUE, results)
    <3>1. PICK a \in Thinkers, results \in Results : p = BuildContextPacket(a, TRUE, results)
      BY <2>2
    <3>2. p.agent = a /\ p.items = applyTokenBudget(filterAndScore(results, ThinkerOwner[a]), MaxItems, BudgetTokens)
      BY <3>1 DEF BuildContextPacket
    <3> QED
      BY <3>2, FoundAreOwn
  <2>3. \/ \E a \in Thinkers : p = BuildContextPacket(a, FALSE, <<>>)
        \/ \E a \in Thinkers, results \in Results : p = BuildContextPacket(a, TRUE, results)
    BY Zenon DEF Packets
  <2> QED
    BY <2>1, <2>2, <2>3, Zenon
<1>2. found \in Seq(ItemRow) /\ MaxItems \in Nat /\ BudgetTokens \in Nat
  BY <1>1, InjectionAssumption DEF OwnList
<1>3. \A k \in DOMAIN p.items : k \in 1..Len(found) /\ p.items[k].id = found[k].id
  BY <1>1, <1>2, BudgetKeepsIds
<1> QED
  BY <1>1, <1>3 DEF OwnList

-----------------------------------------------------------------------------
(* Links, records and core memories.                                       *)

Record == [n : Nat, owner : {ThinkerOwner[a] : a \in Thinkers}]
RingRow == [rec : Record, age : {"new", "day"}]
MemLink == [src : Nat, dst : Nat, type : {"reply_to", "mention", "channel_cooccurrence"},
            owner : {ThinkerOwner[a] : a \in Thinkers}]

PoolSound ==
  /\ pool \in Seq(PoolRow)
  /\ \A i \in 1..Len(pool) : pool[i].reply < i
  /\ coreOf \in [Thinkers -> 0..CoreMaxBytes]

LinkSound(l) ==
  /\ l.src \in 1..Len(pool) /\ l.dst # 0
  /\ \/ l.dst < l.src
     \/ l.type = "mention" /\ l.src \in late /\ l.dst \in 1..Len(pool) /\ l.dst # l.src
     \/ l.type = "reply_to" /\ pool[l.src].reply = 0 /\ l.dst = pool[l.src].meta

\* A message whose listener has not run is late as soon as another is stored
LinksSound ==
  /\ heard \subseteq 1..Len(pool) /\ memLinks \subseteq MemLink
  /\ \A i \in (1..Len(pool)) \ heard : i < Len(pool) => i \in late
  /\ \A l \in memLinks : LinkSound(l)

\* A record has its number to itself, on its way to the ring and in it
AuditSound ==
  /\ recording \subseteq Record /\ ring \subseteq RingRow /\ IsFiniteSet(recording) /\ IsFiniteSet(ring)
  /\ delivered \in Nat /\ lostRecords \in Nat /\ cleaned \in Nat
  /\ delivered = Cardinality(ring) + Cardinality(recording) + cleaned + lostRecords
  /\ \A r \in recording : r.n < delivered
  /\ \A q \in ring : q.rec.n < delivered
  /\ \A r, q \in recording : r.n = q.n => r = q
  /\ \A r, q \in ring : r.rec.n = q.rec.n => r = q
  /\ \A r \in recording, q \in ring : r.n # q.rec.n

IjInv == PoolSound /\ LinksSound /\ AuditSound

LEMMA IjInitInv == InjectionInit => IjInv
<1> SUFFICES ASSUME InjectionInit PROVE IjInv
  OBVIOUS
<1>1. PoolSound
  BY InjectionAssumption DEF InjectionInit, PoolSound
<1>2. LinksSound
  BY DEF InjectionInit, LinksSound
<1>3. AuditSound
  BY FS_EmptySet DEF InjectionInit, AuditSound
<1> QED
  BY <1>1, <1>2, <1>3 DEF IjInv

LEMMA PoolKept == ASSUME UNCHANGED <<pool, coreOf>>, PoolSound PROVE PoolSound'
BY DEF PoolSound
LEMMA LinksKept == ASSUME UNCHANGED <<pool, heard, memLinks, late>>, LinksSound PROVE LinksSound'
BY DEF LinksSound, LinkSound
LEMMA AuditKept == ASSUME UNCHANGED ijAudit, AuditSound PROVE AuditSound'
BY DEF AuditSound, ijAudit

LEMMA RememberStep ==
  ASSUME IjInv, NEW a \in Thinkers, NEW size \in Sizes, NEW reply \in 0..Len(pool), NEW meta \in NamedIds,
         NEW at \in Thinkers \union {NoOne}, Remember(a, size, reply, meta, at)
  PROVE  IjInv'
<1>1. PICK row : row = [from |-> a, size |-> size, reply |-> reply, meta |-> meta, at |-> at,
                        recent |-> TRUE, live |-> TRUE]
  OBVIOUS
<1>2. pool' = Append(pool, row) /\ late' = late \union (DOMAIN pool \ heard)
  BY <1>1 DEF Remember
<1>3. UNCHANGED <<heard, memLinks, coreOf>> /\ UNCHANGED ijAudit
  BY DEF Remember
<1>4. row \in PoolRow /\ row.reply = reply
  BY <1>1, InjectionAssumption DEF PoolRow
<1>5. pool \in Seq(PoolRow) /\ Len(pool) \in Nat
  BY DEF IjInv, PoolSound
<1>6. /\ pool' \in Seq(PoolRow) /\ Len(pool') = Len(pool) + 1 /\ pool'[Len(pool) + 1] = row
      /\ \A i \in 1..Len(pool) : pool'[i] = pool[i]
  BY <1>2, <1>4, <1>5
<1>7. PoolSound'
  <2>1. ASSUME NEW i \in 1..Len(pool') PROVE pool'[i].reply < i
    <3>1. CASE i = Len(pool) + 1
      BY <1>4, <1>5, <1>6, <3>1
    <3>2. CASE i # Len(pool) + 1
      <4>1. i \in 1..Len(pool)
        BY <1>5, <1>6, <3>2
      <4> QED
        BY <1>6, <4>1 DEF IjInv, PoolSound
    <3> QED
      BY <3>1, <3>2
  <2>2. coreOf' \in [Thinkers -> 0..CoreMaxBytes]
    BY <1>3 DEF IjInv, PoolSound
  <2> QED
    BY <1>6, <2>1, <2>2 DEF PoolSound
<1>8. LinksSound'
  <2>1. DOMAIN pool = 1..Len(pool) /\ \A i \in 1..Len(pool) : i \in 1..Len(pool')
    BY <1>5, <1>6
  <2>2. ASSUME NEW i \in (1..Len(pool')) \ heard', i < Len(pool') PROVE i \in late'
    BY <1>2, <1>3, <1>5, <1>6, <2>1, <2>2
  <2>3. heard' \subseteq 1..Len(pool') /\ memLinks' \subseteq MemLink
    BY <1>3, <2>1 DEF IjInv, LinksSound
  <2>4. ASSUME NEW l \in memLinks'
        PROVE  /\ l.src \in 1..Len(pool') /\ l.dst # 0
               /\ \/ l.dst < l.src
                  \/ l.type = "mention" /\ l.src \in late' /\ l.dst \in 1..Len(pool') /\ l.dst # l.src
                  \/ l.type = "reply_to" /\ pool'[l.src].reply = 0 /\ l.dst = pool'[l.src].meta
    <3>1. l \in memLinks /\ late \subseteq late'
      BY <1>2, <1>3
    <3>2. LinkSound(l)
      BY <3>1 DEF IjInv, LinksSound
    <3>3. pool'[l.src] = pool[l.src]
      BY <1>6, <3>2 DEF LinkSound
    <3> QED
      BY <2>1, <3>1, <3>2, <3>3 DEF LinkSound
  <2> QED
    BY <2>2, <2>3, <2>4 DEF LinksSound, LinkSound
<1>9. AuditSound'
  BY <1>3, AuditKept DEF IjInv
<1> QED
  BY <1>7, <1>8, <1>9 DEF IjInv

LEMMA LatestIs ==
  ASSUME NEW n \in Nat, NEW ids, ids \subseteq 1..n
  PROVE  LatestOf(ids) = 0 \/ LatestOf(ids) \in ids
<1>1. CASE ids = {}
  BY <1>1 DEF LatestOf
<1>2. CASE ids # {}
  <2>1. ids \subseteq 0..n
    OBVIOUS
  <2>2. \E i \in ids : \A j \in ids : j <= i
    BY <1>2, <2>1, MaxOf
  <2> QED
    BY <1>2, <2>2 DEF LatestOf
<1> QED
  BY <1>1, <1>2

\* A link of a message points to an earlier one, is a mention of another, or is
\* what its metadata says.
LinkFrom(l, i) ==
  /\ l \in MemLink /\ l.src = i /\ l.dst # 0
  /\ \/ l.dst < i
     \/ l.type = "mention" /\ l.dst \in 1..Len(pool) /\ l.dst # i
     \/ l.type = "reply_to" /\ pool[i].reply = 0 /\ l.dst = pool[i].meta

LEMMA SentStep ==
  ASSUME IjInv, NEW i \in DOMAIN pool, OnMessageSent(i)
  PROVE  IjInv'
<1>1. pool \in Seq(PoolRow) /\ Len(pool) \in Nat /\ DOMAIN pool = 1..Len(pool)
  BY DEF IjInv, PoolSound
<1>2. UNCHANGED <<pool, coreOf, late>> /\ UNCHANGED ijAudit /\ heard' = heard \union {i} /\ i \notin heard
  BY DEF OnMessageSent
<1>3. PICK msg : msg = pool[i] /\ msg \in PoolRow
  BY <1>1
<1>4. msg.reply \in Nat /\ msg.meta \in Nat /\ msg.reply < i /\ msg.from \in Thinkers /\ i \in Nat /\ i \in 1..Len(pool)
  BY <1>1, <1>3 DEF IjInv, PoolSound, PoolRow
<1> DEFINE link(dst, type) == IF dst = 0 THEN {}
                              ELSE {[src |-> i, dst |-> dst, type |-> type, owner |-> ThinkerOwner[msg.from]]}
<1>5. PICK mention, before :
        /\ mention = 0 \/ mention \in (1..Len(pool)) \ {i}
        /\ before = 0 \/ (before \in 1..Len(pool) /\ before < i)
        /\ memLinks' = memLinks \union (link(ReplyOf(msg), "reply_to")
                         \union (IF msg.at \in {NoOne, msg.from} THEN {} ELSE link(mention, "mention"))
                         \union link(before, "channel_cooccurrence"))
  <2>1. PICK mention, before : /\ mention = mostRecentMessageFromAgentInChannel(msg.at, i)
                               /\ before = mostRecentMessageInChannel(i)
    OBVIOUS
  <2>2. mention = 0 \/ mention \in {j \in DOMAIN pool : pool[j].live /\ pool[j].from = msg.at /\ j # i}
    <3>1. {j \in DOMAIN pool : pool[j].live /\ pool[j].from = msg.at /\ j # i} \subseteq 1..Len(pool)
      BY <1>1
    <3> QED
      BY <1>1, <2>1, <3>1, LatestIs DEF mostRecentMessageFromAgentInChannel
  <2>3. before = 0 \/ before \in {j \in DOMAIN pool : pool[j].live /\ j < i}
    <3>1. {j \in DOMAIN pool : pool[j].live /\ j < i} \subseteq 1..Len(pool)
      BY <1>1
    <3> QED
      BY <1>1, <2>1, <3>1, LatestIs DEF mostRecentMessageInChannel
  <2>4. memLinks' = memLinks \union (link(ReplyOf(msg), "reply_to")
                         \union (IF msg.at \in {NoOne, msg.from} THEN {} ELSE link(mention, "mention"))
                         \union link(before, "channel_cooccurrence"))
    BY <1>3, <2>1 DEF OnMessageSent, AddLinks
  <2> HIDE DEF link
  <2> QED
    BY <1>1, <2>2, <2>3, <2>4
<1>6. ASSUME NEW l \in memLinks', l \notin memLinks PROVE LinkFrom(l, i)
  <2> DEFINE Row(dst, type) == [src |-> i, dst |-> dst, type |-> type, owner |-> ThinkerOwner[msg.from]]
  <2>1. \/ ReplyOf(msg) # 0 /\ l = Row(ReplyOf(msg), "reply_to")
        \/ mention # 0 /\ l = Row(mention, "mention")
        \/ before # 0 /\ l = Row(before, "channel_cooccurrence")
    BY <1>5, <1>6
  <2>2. CASE ReplyOf(msg) # 0 /\ l = Row(ReplyOf(msg), "reply_to")
    <3>1. CASE msg.reply # 0
      BY <1>4, <2>2, <3>1 DEF LinkFrom, MemLink, ReplyOf
    <3>2. CASE msg.reply = 0
      BY <1>3, <1>4, <2>2, <3>2 DEF LinkFrom, MemLink, ReplyOf
    <3> QED
      BY <3>1, <3>2
  <2>3. CASE mention # 0 /\ l = Row(mention, "mention")
    BY <1>4, <1>5, <2>3 DEF LinkFrom, MemLink
  <2>4. CASE before # 0 /\ l = Row(before, "channel_cooccurrence")
    BY <1>4, <1>5, <2>4 DEF LinkFrom, MemLink
  <2> QED
    BY <2>1, <2>2, <2>3, <2>4
<1> HIDE DEF link
<1>7. i < Len(pool) => i \in late
  BY <1>2, <1>4 DEF IjInv, LinksSound
<1>8. LinksSound'
  <2>1. heard' \subseteq 1..Len(pool') /\ \A j \in (1..Len(pool')) \ heard' : j < Len(pool') => j \in late'
    BY <1>2, <1>4 DEF IjInv, LinksSound
  <2>2. ASSUME NEW l \in memLinks'
        PROVE  l \in MemLink /\ LinkSound(l)
    <3>1. CASE l \in memLinks
      <4>1. LinkSound(l) /\ l \in MemLink
        BY <3>1 DEF IjInv, LinksSound
      <4> QED
        BY <4>1
    <3>2. CASE l \notin memLinks
      <4>1. LinkFrom(l, i)
        BY <1>6, <3>2
      <4>2. \/ l.dst < i
            \/ l.type = "mention" /\ i < Len(pool) /\ l.dst \in 1..Len(pool) /\ l.dst # i
            \/ l.type = "reply_to" /\ pool[i].reply = 0 /\ l.dst = pool[i].meta
        BY <1>1, <1>4, <4>1 DEF LinkFrom, MemLink
      <4> QED
        BY <1>4, <1>7, <4>1, <4>2 DEF LinkFrom, LinkSound
    <3> QED
      BY <3>1, <3>2
  <2> QED
    BY <1>2, <2>1, <2>2 DEF LinksSound, LinkSound
<1> QED
  BY <1>2, <1>8, PoolKept, AuditKept DEF IjInv

\* What happens to the pool without a new message leaves links as they are.
LEMMA PoolStep ==
  ASSUME IjInv, (\E i \in DOMAIN pool : Forget(i)) \/ WindowPasses
  PROVE  IjInv'
<1>1. pool \in Seq(PoolRow) /\ Len(pool) \in Nat /\ DOMAIN pool = 1..Len(pool)
  BY DEF IjInv, PoolSound
<1>2. UNCHANGED <<heard, memLinks, coreOf, late>> /\ UNCHANGED ijAudit
  BY DEF Forget, WindowPasses
<1>3. /\ pool' \in Seq(PoolRow) /\ Len(pool') = Len(pool)
      /\ \A j \in 1..Len(pool) : pool'[j].reply = pool[j].reply /\ pool'[j].meta = pool[j].meta
  <2>1. CASE \E i \in DOMAIN pool : Forget(i)
    <3>1. PICK i \in 1..Len(pool) : pool' = [pool EXCEPT ![i].live = FALSE]
      BY <1>1, <2>1 DEF Forget
    <3>2. PICK row : row = [pool[i] EXCEPT !.live = FALSE]
      OBVIOUS
    <3>3. row \in PoolRow /\ row.reply = pool[i].reply /\ row.meta = pool[i].meta
      <4>1. pool[i] \in PoolRow
        BY <1>1
      <4> QED
        BY <3>2, <4>1 DEF PoolRow
    <3>4. pool' = [pool EXCEPT ![i] = row]
      BY <3>1, <3>2
    <3> QED
      BY <1>1, <3>3, <3>4
  <2>2. CASE WindowPasses
    <3>1. pool' = [i \in 1..Len(pool) |-> [pool[i] EXCEPT !.recent = FALSE]]
      BY <1>1, <2>2 DEF WindowPasses
    <3>2. ASSUME NEW i \in 1..Len(pool)
          PROVE  [pool[i] EXCEPT !.recent = FALSE] \in PoolRow
                 /\ [pool[i] EXCEPT !.recent = FALSE].reply = pool[i].reply
                 /\ [pool[i] EXCEPT !.recent = FALSE].meta = pool[i].meta
      <4>1. pool[i] \in PoolRow
        BY <1>1
      <4> QED
        BY <4>1 DEF PoolRow
    <3>3. pool' \in [1..Len(pool) -> PoolRow] /\ \A i \in 1..Len(pool) : pool'[i].reply = pool[i].reply /\ pool'[i].meta = pool[i].meta
      BY <3>1, <3>2
    <3>4. PICK p : p = pool' /\ p \in [1..Len(pool) -> PoolRow]
      BY <3>3
    <3>5. p \in Seq(PoolRow) /\ Len(p) = Len(pool)
      BY <1>1, <3>4
    <3> QED
      BY <3>3, <3>4, <3>5
  <2> QED
    BY <2>1, <2>2
<1>4. PoolSound'
  BY <1>2, <1>3 DEF IjInv, PoolSound
<1>5. LinksSound'
  BY <1>2, <1>3 DEF IjInv, LinksSound, LinkSound
<1> QED
  BY <1>2, <1>4, <1>5, AuditKept DEF IjInv

LEMMA CoreStep ==
  ASSUME IjInv, NEW a \in Thinkers,
         handleMemoryCoreDelete(a) \/ \E size \in CoreSizes : handleMemoryCoreSet(a, size)
  PROVE  IjInv'
<1>1. UNCHANGED <<pool, heard, memLinks, late>> /\ UNCHANGED ijAudit
  BY DEF handleMemoryCoreDelete, handleMemoryCoreSet
<1>2. PICK v \in 0..CoreMaxBytes : coreOf' = [coreOf EXCEPT ![a] = v]
  BY InjectionAssumption DEF handleMemoryCoreDelete, handleMemoryCoreSet
<1>3. PoolSound'
  BY <1>1, <1>2 DEF IjInv, PoolSound
<1> QED
  BY <1>1, <1>3, LinksKept, AuditKept DEF IjInv

LEMMA SendStep ==
  ASSUME IjInv, NEW a \in Thinkers, NEW query, NEW results, WrapInjection(a, query, results)
  PROVE  IjInv'
<1>1. UNCHANGED <<pool, heard, memLinks, late>> /\ UNCHANGED coreOf
  BY DEF WrapInjection
<1>2. PICK r : r = [n |-> delivered, owner |-> ThinkerOwner[a]]
  OBVIOUS
<1>3. /\ delivered' = delivered + 1 /\ recording' = recording \union {r}
      /\ ring' = ring /\ lostRecords' = lostRecords /\ cleaned' = cleaned
  BY <1>2 DEF WrapInjection
<1>4. delivered \in Nat /\ r \in Record /\ r.n = delivered
  BY <1>2 DEF IjInv, AuditSound, Record
<1>5. r \notin recording
  BY <1>4 DEF IjInv, AuditSound
<1>6. IsFiniteSet(recording') /\ Cardinality(recording') = Cardinality(recording) + 1 /\ Cardinality(recording) \in Nat
      /\ Cardinality(ring) \in Nat
  BY <1>3, <1>5, FS_AddElement, FS_CardinalityType DEF IjInv, AuditSound
<1>7. delivered' = Cardinality(ring') + Cardinality(recording') + cleaned' + lostRecords'
  BY <1>3, <1>6 DEF IjInv, AuditSound
<1>8. recording' \subseteq Record /\ ring' \subseteq RingRow /\ IsFiniteSet(ring')
      /\ delivered' \in Nat /\ lostRecords' \in Nat /\ cleaned' \in Nat
  BY <1>3, <1>4 DEF IjInv, AuditSound
<1>9. \A x \in recording : x.n \in Nat /\ x.n < delivered
  BY DEF IjInv, AuditSound, Record
<1>10. \A q \in ring : q.rec.n \in Nat /\ q.rec.n < delivered
  BY DEF IjInv, AuditSound, RingRow, Record
<1>11. /\ \A x \in recording' : x.n < delivered'
       /\ \A q \in ring' : q.rec.n < delivered'
  BY <1>3, <1>4, <1>9, <1>10
<1>12. /\ \A x, q \in recording' : x.n = q.n => x = q
       /\ \A x, q \in ring' : x.rec.n = q.rec.n => x = q
       /\ \A x \in recording', q \in ring' : x.n # q.rec.n
  <2>1. \A x \in recording : x.n # delivered
    BY <1>4, <1>9
  <2>2. \A q \in ring : q.rec.n # delivered
    BY <1>4, <1>10
  <2> QED
    BY <1>3, <1>4, <2>1, <2>2 DEF IjInv, AuditSound
<1>13. AuditSound'
  BY <1>6, <1>7, <1>8, <1>11, <1>12 DEF AuditSound
<1> QED
  BY <1>1, <1>13, PoolKept, LinksKept DEF IjInv

LEMMA RecordStep ==
  ASSUME IjInv, NEW r \in recording, recordInjection(r)
  PROVE  IjInv'
<1>1. UNCHANGED <<pool, heard, memLinks, late>> /\ UNCHANGED coreOf
  BY DEF recordInjection
<1>2. PICK w : w = [rec |-> r, age |-> "new"]
  OBVIOUS
<1>3. /\ recording' = recording \ {r} /\ ring' = ring \union {w}
      /\ delivered' = delivered /\ lostRecords' = lostRecords /\ cleaned' = cleaned
  BY <1>2 DEF recordInjection
<1>4. r \in Record /\ w \in RingRow /\ w.rec = r
  <2>1. r \in Record
    BY DEF IjInv, AuditSound
  <2> QED
    BY <1>2, <2>1 DEF RingRow
<1>5. w \notin ring
  BY <1>4 DEF IjInv, AuditSound
<1>6. /\ IsFiniteSet(recording') /\ IsFiniteSet(ring') /\ Cardinality(ring) \in Nat /\ Cardinality(recording') \in Nat
      /\ Cardinality(recording) = Cardinality(recording') + 1 /\ Cardinality(ring') = Cardinality(ring) + 1
  <2>1. IsFiniteSet(recording) /\ IsFiniteSet(ring)
    BY DEF IjInv, AuditSound
  <2>2. /\ IsFiniteSet(recording \ {r}) /\ Cardinality(recording \ {r}) \in Nat
        /\ Cardinality(recording) = Cardinality(recording \ {r}) + 1
    BY <2>1, OneLess
  <2>3. IsFiniteSet(ring \union {w}) /\ Cardinality(ring \union {w}) = Cardinality(ring) + 1 /\ Cardinality(ring) \in Nat
    BY <1>5, <2>1, FS_AddElement, FS_CardinalityType
  <2> QED
    BY <1>3, <2>2, <2>3
<1>7. delivered' = Cardinality(ring') + Cardinality(recording') + cleaned' + lostRecords'
  BY <1>3, <1>6 DEF IjInv, AuditSound
<1>8. recording' \subseteq Record /\ ring' \subseteq RingRow
      /\ delivered' \in Nat /\ lostRecords' \in Nat /\ cleaned' \in Nat
  BY <1>3, <1>4 DEF IjInv, AuditSound
<1>9. /\ \A x \in recording' : x.n < delivered'
      /\ \A q \in ring' : q.rec.n < delivered'
  BY <1>3, <1>4 DEF IjInv, AuditSound
<1>10. /\ \A x, q \in recording' : x.n = q.n => x = q
       /\ \A x, q \in ring' : x.rec.n = q.rec.n => x = q
       /\ \A x \in recording', q \in ring' : x.n # q.rec.n
  BY <1>3, <1>4 DEF IjInv, AuditSound
<1>11. AuditSound'
  BY <1>6, <1>7, <1>8, <1>9, <1>10 DEF AuditSound
<1> QED
  BY <1>1, <1>11, PoolKept, LinksKept DEF IjInv

LEMMA DayStep ==
  ASSUME IjInv, DayPasses
  PROVE  IjInv'
<1>1. UNCHANGED <<pool, heard, memLinks, late>> /\ UNCHANGED coreOf
  BY DEF DayPasses
<1> DEFINE Old(r) == [rec |-> r.rec, age |-> "day"]
           h == [r \in ring |-> Old(r)]
<1>2. \A r \in ring : r.rec \in Record
  BY DEF IjInv, AuditSound, RingRow
<1>3. ring' = {Old(r) : r \in ring}
  BY DEF DayPasses
<1>4. UNCHANGED <<recording, delivered, lostRecords, cleaned>>
  BY DEF DayPasses
<1>5. \A r, q \in ring : r.rec.n = q.rec.n => r = q
  BY DEF IjInv, AuditSound
<1>6. IsFiniteSet(ring') /\ Cardinality(ring') = Cardinality(ring)
  <2>1. h \in [ring -> ring'] /\ (\A t \in ring' : \E r \in ring : h[r] = t)
    BY <1>3
  <2>2. \A r, q \in ring : h[r] = h[q] => r = q
    BY <1>5
  <2>3. h \in Surjection(ring, ring') /\ h \in Injection(ring, ring')
    BY <2>1, <2>2 DEF Surjection, Injection, IsInjective
  <2>4. IsFiniteSet(ring)
    BY DEF IjInv, AuditSound
  <2> HIDE DEF h
  <2> QED
    BY <2>3, <2>4, FS_Surjection
<1>7. ring' \subseteq RingRow
  <2> SUFFICES ASSUME NEW t \in ring' PROVE t \in RingRow
    OBVIOUS
  <2>1. PICK r \in ring : t = Old(r)
    BY <1>3
  <2>2. PICK x \in Record : x = r.rec
    BY <1>2
  <2> QED
    BY <2>1, <2>2 DEF RingRow
<1>8. \A t \in ring' : \E r \in ring : t = Old(r) /\ t.rec = r.rec
  BY <1>3
<1>9. /\ \A q \in ring' : q.rec.n < delivered'
      /\ \A x \in recording', q \in ring' : x.n # q.rec.n
  BY <1>4, <1>8 DEF IjInv, AuditSound
<1>10. \A x, q \in ring' : x.rec.n = q.rec.n => x = q
  BY <1>5, <1>8
<1>11. AuditSound'
  BY <1>4, <1>6, <1>7, <1>9, <1>10 DEF IjInv, AuditSound
<1> QED
  BY <1>1, <1>11, PoolKept, LinksKept DEF IjInv

LEMMA CleanStep ==
  ASSUME IjInv, maybeCleanupInjections
  PROVE  IjInv'
<1>1. UNCHANGED <<pool, heard, memLinks, late>> /\ UNCHANGED coreOf
  BY DEF maybeCleanupInjections
<1>2. PICK old : /\ old \subseteq ring /\ ring' = ring \ old /\ cleaned' = cleaned + Cardinality(old)
                 /\ recording' = recording /\ delivered' = delivered /\ lostRecords' = lostRecords
  BY DEF maybeCleanupInjections
<1>3. /\ IsFiniteSet(ring') /\ Cardinality(ring) = Cardinality(ring') + Cardinality(old)
      /\ Cardinality(ring') \in Nat /\ Cardinality(old) \in Nat
  <2>1. IsFiniteSet(ring) /\ IsFiniteSet(old) /\ IsFiniteSet(ring \ old)
    BY <1>2, FS_Subset DEF IjInv, AuditSound
  <2>2. Cardinality(ring \ old) = Cardinality(ring) - Cardinality(ring \intersect old)
    BY <2>1, FS_Difference
  <2>3. ring \intersect old = old
    BY <1>2
  <2>4. Cardinality(ring) \in Nat /\ Cardinality(old) \in Nat /\ Cardinality(ring \ old) \in Nat
    BY <2>1, FS_CardinalityType
  <2> QED
    BY <1>2, <2>1, <2>2, <2>3, <2>4
<1>4. delivered' = Cardinality(ring') + Cardinality(recording') + cleaned' + lostRecords' /\ cleaned' \in Nat
  <2>1. Cardinality(recording) \in Nat
    BY FS_CardinalityType DEF IjInv, AuditSound
  <2> QED
    BY <1>2, <1>3, <2>1 DEF IjInv, AuditSound
<1>5. AuditSound'
  BY <1>2, <1>3, <1>4 DEF IjInv, AuditSound
<1> QED
  BY <1>1, <1>5, PoolKept, LinksKept DEF IjInv

LEMMA CrashStep ==
  ASSUME IjInv, InjectionCrash
  PROVE  IjInv'
<1>1. UNCHANGED <<pool, coreOf>> /\ UNCHANGED <<memLinks, late>> /\ heard' = DOMAIN pool
  BY DEF InjectionCrash
<1>2. /\ recording' = {} /\ lostRecords' = lostRecords + Cardinality(recording)
      /\ ring' = ring /\ delivered' = delivered /\ cleaned' = cleaned
  BY DEF InjectionCrash
<1>3. Cardinality(recording) \in Nat /\ Cardinality(ring) \in Nat /\ IsFiniteSet({}) /\ Cardinality({}) = 0
  BY FS_CardinalityType, FS_EmptySet DEF IjInv, AuditSound
<1>4. delivered' = Cardinality(ring') + Cardinality(recording') + cleaned' + lostRecords' /\ lostRecords' \in Nat
  BY <1>2, <1>3 DEF IjInv, AuditSound
<1>5. AuditSound'
  BY <1>2, <1>3, <1>4 DEF IjInv, AuditSound
<1>6. heard' = 1..Len(pool)
  BY <1>1 DEF IjInv, PoolSound
<1>7. LinksSound'
  BY <1>1, <1>6 DEF IjInv, LinksSound, LinkSound
<1> QED
  BY <1>1, <1>5, <1>7, PoolKept DEF IjInv

LEMMA IjStep == IjInv /\ [InjectionNext]_ijVars => IjInv'
<1> SUFFICES ASSUME IjInv, [InjectionNext]_ijVars PROVE IjInv'
  OBVIOUS
<1>1. CASE UNCHANGED ijVars
  <2>1. UNCHANGED <<pool, coreOf>> /\ UNCHANGED <<pool, heard, memLinks, late>> /\ UNCHANGED ijAudit
    BY <1>1 DEF ijVars, ijAudit
  <2> QED
    BY <2>1, PoolKept, LinksKept, AuditKept DEF IjInv
<1>2. CASE InjectionNext
  BY <1>2, RememberStep, SentStep, PoolStep, CoreStep, SendStep, RecordStep, DayStep, CleanStep, CrashStep
     DEF InjectionNext, wrapQuery, wrapStatus
<1> QED
  BY <1>1, <1>2

LEMMA InjectionIsSafe == IjInv => InjectionSafe
<1> SUFFICES ASSUME IjInv PROVE InjectionSafe
  OBVIOUS
<1>1. pool \in Seq(PoolRow) /\ DOMAIN pool = 1..Len(pool)
  BY DEF IjInv, PoolSound
<1>2. InjectionTypeOK
  BY <1>1 DEF IjInv, PoolSound, LinksSound, LinkSound, InjectionTypeOK, MemLink
<1>3. OwnMemories
  BY <1>1, OwnHolds
<1>4. AuditComplete
  BY DEF IjInv, AuditSound, AuditComplete, ListRecent
<1>5. LinksPointBack
  <2> SUFFICES ASSUME NEW l \in memLinks
               PROVE  \/ l.dst \in 1..(l.src - 1)
                      \/ l.type = "mention" /\ l.src \in late /\ l.dst \in DOMAIN pool \ {l.src}
                      \/ l.type = "reply_to" /\ pool[l.src].reply = 0 /\ l.dst = pool[l.src].meta
    BY DEF LinksPointBack
  <2>1. LinkSound(l) /\ l.src \in Nat /\ l.dst \in Nat
    BY DEF IjInv, LinksSound, MemLink
  <2>2. l.dst # 0 /\ l.dst < l.src => l.dst \in 1..(l.src - 1)
    BY <2>1
  <2> QED
    BY <1>1, <2>1, <2>2 DEF LinkSound
<1> QED
  BY <1>2, <1>3, <1>4, <1>5, BudgetHeldHolds DEF InjectionSafe

\* Packets stay within the budget and hold memories of the caller's owner, every
\* packet is on record once or accounted for, and a link points back unless the
\* sender's metadata named its target or a mention came late.
THEOREM InjectionCorrect == InjectionSpec => []InjectionSafe
<1>1. InjectionSpec => []IjInv
  BY IjInitInv, IjStep, PTL DEF InjectionSpec
<1> QED
  BY <1>1, InjectionIsSafe, PTL

-----------------------------------------------------------------------------
(* The composition: a step of it is a step of one component, or leaves it. *)

LEMMA StoreComposes ==
  /\ StoreInit => ConversationsInit /\ ReactionsInit /\ AttachmentsInit /\ RetentionInit /\ InjectionInit
  /\ [StoreNext]_<<part, cvVars, rxVars, atVars, rtVars, ijVars>> =>
        /\ [ConversationsNext]_cvVars /\ [ReactionsNext]_rxVars /\ [AttachmentsNext]_atVars
        /\ [RetentionNext]_rtVars /\ [InjectionNext]_ijVars
BY DEF StoreInit, StoreNext

\* Reactions of the composed system: claims, limits, states and trust.
THEOREM ReactionsHoldAlways == StoreSpec => []ReactionsHold
<1>1. ReactionsSafe => ReactionsHold
  BY DEF ReactionsHold
<1>2. StoreSpec => ReactionsSpec
  BY StoreComposes, PTL DEF StoreSpec, ReactionsSpec
<1> QED
  BY <1>1, <1>2, ReactionsCorrect, PTL

\* Attachments and retention of the composed system: what a live message refers
\* to can be downloaded, and a clean-up leaves nothing dangling.
THEOREM CleanupHoldsAlways == StoreSpec => []CleanupHolds
<1>1. AttachmentsSafe /\ RetentionSafe => CleanupHolds
  BY DEF CleanupHolds
<1>2. StoreSpec => AttachmentsSpec /\ RetentionSpec
  BY StoreComposes, PTL DEF StoreSpec, AttachmentsSpec, RetentionSpec
<1> QED
  BY <1>1, <1>2, AttachmentsCorrect, RetentionCorrect, PTL

\* Conversations of the composed system: threads, pointers, counts and views.
THEOREM ConversationsHoldAlways == StoreSpec => []ConversationsHold
<1>1. ConversationsSafe => ConversationsHold
  BY DEF ConversationsHold
<1>2. StoreSpec => ConversationsSpec
  BY StoreComposes, PTL DEF StoreSpec, ConversationsSpec
<1> QED
  BY <1>1, <1>2, ConversationsCorrect, PTL

\* UpdateInboxState: what is read stays read, though reads overtake each other.
THEOREM ReadStays == StoreSpec => ReadStaysRead
<1>1. StoreSpec => ConversationsSpec
  BY StoreComposes, PTL DEF StoreSpec, ConversationsSpec
<1> QED
  BY <1>1, PointersForward, PTL

\* Injected memories of the composed system: budget, owner, audit and links.
THEOREM InjectionHoldsAlways == StoreSpec => []InjectionHolds
<1>1. InjectionSafe => InjectionHolds
  BY DEF InjectionHolds
<1>2. StoreSpec => InjectionSpec
  BY StoreComposes, PTL DEF StoreSpec, InjectionSpec
<1> QED
  BY <1>1, <1>2, InjectionCorrect, PTL
=============================================================================

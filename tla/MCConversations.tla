-------------------------- MODULE MCConversations --------------------------
(***************************************************************************)
(* Instances of the message store's components for TLC: conversations and  *)
(* read pointers (Conversations), reactions and trust (Reactions),         *)
(* attachment files (Attachments), the retention worker (Retention) and    *)
(* what is injected into tool results (Injection).  One run takes them one *)
(* after the other: part names the component whose steps a behaviour       *)
(* consists of, and the variables of the others keep their initial values. *)
(***************************************************************************)
EXTENDS Conversations, Reactions, Attachments, Retention, Injection, TLC

CONSTANTS c1, c2, m1, m2

VARIABLE part

\* Two concurrent requests, or two writers, are interchangeable.
Symmetry == Permutations({c1, c2})

\* Everybody is in every channel.
MCRoomMembers == [r \in Rooms |-> Speakers]

MCRxAuthor == [m \in RxMessages |-> "b"]

MCThinkerOwner == [t \in Thinkers |-> IF t = "a" THEN 1 ELSE 2]

StoreInit ==
  /\ ConversationsInit /\ ReactionsInit /\ AttachmentsInit /\ RetentionInit /\ InjectionInit
  /\ part \in {"conversations", "reactions", "attachments", "retention", "injection"}

StoreNext ==
  /\ UNCHANGED part
  /\ \/ part = "conversations" /\ ConversationsNext /\ UNCHANGED <<rxVars, atVars, rtVars, ijVars>>
     \/ part = "reactions" /\ ReactionsNext /\ UNCHANGED <<cvVars, atVars, rtVars, ijVars>>
     \/ part = "attachments" /\ AttachmentsNext /\ UNCHANGED <<cvVars, rxVars, rtVars, ijVars>>
     \/ part = "retention" /\ RetentionNext /\ UNCHANGED <<cvVars, rxVars, atVars, ijVars>>
     \/ part = "injection" /\ InjectionNext /\ UNCHANGED <<cvVars, rxVars, atVars, rtVars>>

StoreSpec == StoreInit /\ [][StoreNext]_<<part, cvVars, rxVars, atVars, rtVars, ijVars>>

-----------------------------------------------------------------------------
\* What each component promises (its own module states it), in the
\* behaviours that exercise it.

\* Threads join, no message is passed over unseen, and badge, inbox, status
\* page and web views count the same messages.
ConversationsHold == part = "conversations" => ConversationsSafe

\* A claim is one agent's, lists and state badges agree, and every stored
\* verdict of a person moves the author's trust once.
ReactionsHold == part = "reactions" => ReactionsSafe

\* What a live message refers to can be downloaded although uploads, links,
\* collections, clean-ups and crashes interleave; and retention deletes what
\* has expired, with its rows, and leaves nothing that points at it.
CleanupHolds ==
  /\ part = "attachments" => AttachmentsSafe
  /\ part = "retention" => RetentionSafe

\* A packet holds memories of the caller's owner within the budget, every
\* packet is on record, and links point back unless the sender named the target.
InjectionHolds == part = "injection" => InjectionSafe

=============================================================================

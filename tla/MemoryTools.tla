----------------------------- MODULE MemoryTools -----------------------------
(***************************************************************************)
(* What a dream agent does to its owner's memory pool: the memory_* tools  *)
(* of internal/mcp/memory_tools.go over LinkStore, CoreMemoryStore and     *)
(* JobsStore.AppendAction, composed with the dream worker, which hands out *)
(* the token a call must present and decides by the outcome of the job     *)
(* whether its actions count; beside it the owner's edits of the core      *)
(* memory (internal/api/memory_core.go).                                   *)
(*                                                                         *)
(* A tool call is three steps: the checks, the write and the audit entry.  *)
(* Bodies, reasons and blobs are left out: of a core memory the model      *)
(* keeps who wrote it.                                                     *)
(***************************************************************************)
EXTENDS DreamWorker

CONSTANTS
  Memories,      \* messages on memory channels
  Author,        \* the owner of the agent that posted each
  Reflections,   \* ids of messages the dream agents post
  Calls,         \* tool calls being served at once
  RelTypes,      \* bound: the relation types memory_add_link is asked for
  NoMessage,
  Human,         \* memory_core.updated_by of an owner's edit
  NoBlob,
  Editors,       \* bound: the owners who edit the core memory by hand
  MaxActions     \* bound: tool calls of all jobs

ASSUME MemoryAssumption ==
  /\ Author \in [Memories -> Owners]
  /\ Memories \cap Reflections = {} /\ NoMessage \notin Memories \cup Reflections
  /\ {Human, NoBlob} \cap JobIds = {} /\ Human # NoBlob
  /\ Editors \subseteq Owners /\ MaxActions \in Nat

Semantic      == {"refines", "contradicts", "examples", "related"}
Consolidation == {"duplicate_of", "superseded_by"}
Tools         == {"memory_list_unprocessed", "memory_write_reflection", "memory_rewrite_core",
                  "memory_mark_duplicate", "memory_supersede", "memory_add_link"}

VARIABLES
  links,     \* memory_links
  actions,   \* memory_consolidation_jobs.actions
  made,      \* reflections posted
  core,      \* memory_core: who wrote the blob of the owner's agent
  call       \* the calls being served

memVars == <<links, actions, made, core, call>>
vars    == <<dreamVars, memVars>>

Idle == [at |-> "idle"]
Serve(c, label) == call' = [call EXCEPT ![c].at = label]

-----------------------------------------------------------------------------
(* Checks. *)

\* The agent has the token from the moment runJob calls the harness, and may
\* still have it when its job is over.
HasToken(j) == run[j] \in {"exec", "orphan", "revoke", "account", "done"}

\* authorizeForOwner, for a request that claims owner o.
Authorized(j, o) == token[j] \in {"live", "old"} /\ OwnerOf(j) = o

\* Mutant: the second message of a pair is not looked up.
BelongsFirst(m, n, o) == m \in Memories /\ Author[m] = o

\* messageBelongsTo of both: a reflection's author "dream:<owner>" is no agent
\* and belongs to nobody.
Belong(m, n, o) == {m, n} \subseteq Memories /\ Author[m] = o /\ Author[n] = o

Entries == UNION {{<<j, i>> : i \in DOMAIN actions[j]} : j \in JobIds}

Accept(c, j, tool, label, src, dst, rel) ==
  /\ call[c] = Idle /\ HasToken(j)
  /\ Cardinality(Entries) + Cardinality({k \in Calls : call[k] # Idle}) < MaxActions
  /\ call' = [call EXCEPT ![c] = [at |-> label, job |-> j, tool |-> tool, src |-> src, dst |-> dst, rel |-> rel]]
  /\ UNCHANGED <<dreamVars, links, actions, made, core>>

\* memory_mark_duplicate; the kept one is either of the two.
MarkDuplicate(c, j, o, loser, keep) ==
  /\ Authorized(j, o) /\ Belong(loser, keep, o)
  /\ Accept(c, j, "memory_mark_duplicate", "link", loser, keep, "duplicate_of")

Supersede(c, j, o, a, b) ==
  /\ Authorized(j, o) /\ Belong(a, b, o)
  /\ Accept(c, j, "memory_supersede", "link", a, b, "superseded_by")

\* memory_add_link: Add refuses an agent the reserved types.
AddLink(c, j, o, src, dst, rel) ==
  /\ Authorized(j, o) /\ Belong(src, dst, o)
  /\ rel \in Semantic
  /\ Accept(c, j, "memory_add_link", "link", src, dst, rel)

\* memory_write_reflection, of one source.
WriteReflection(c, j, o, source) ==
  /\ Authorized(j, o) /\ Belong(source, source, o)
  /\ Accept(c, j, "memory_write_reflection", "post", NoMessage, source, "refines")

RewriteCore(c, j, o) ==
  /\ Authorized(j, o)
  /\ Accept(c, j, "memory_rewrite_core", "blob", NoMessage, NoMessage, "none")

\* What memory_list_unprocessed answers.
Unprocessed(o) ==
  {m \in Memories : /\ Author[m] = o
                    /\ \A l \in links : l.dst = m => l.rel \notin {"refines"} \cup Consolidation}

ListUnprocessed(c, j, o) ==
  /\ Authorized(j, o)
  /\ Accept(c, j, "memory_list_unprocessed", "append", NoMessage, NoMessage, "none")

-----------------------------------------------------------------------------
(* Writes. *)

\* The reflection's conversation and message, inserted without the messaging
\* service.
PostReflection(c, r) ==
  /\ call[c].at = "post"
  /\ r \in Reflections \ made
  /\ made' = made \cup {r}
  /\ call' = [call EXCEPT ![c].at = "link", ![c].src = r]
  /\ UNCHANGED <<dreamVars, links, actions, core>>

\* The INSERT into memory_links; UNIQUE(src, dst, relation_type) refuses a
\* second one and with it the call.
InsertLink(c) ==
  LET new == [src |-> call[c].src, dst |-> call[c].dst, rel |-> call[c].rel]
  IN  /\ call[c].at = "link"
      /\ IF new \in links
         THEN call' = [call EXCEPT ![c] = Idle] /\ UNCHANGED links
         ELSE links' = links \cup {new} /\ Serve(c, "append")
      /\ UNCHANGED <<dreamVars, actions, made, core>>

\* CoreMemoryStore.Set of a blob within the cap.
SetCore(c) ==
  /\ call[c].at = "blob"
  /\ core' = [core EXCEPT ![OwnerOf(call[c].job)] = call[c].job]
  /\ Serve(c, "append")
  /\ UNCHANGED <<dreamVars, links, actions, made>>

Entry(c) ==
  [tool |-> call[c].tool, keep |-> call[c].dst,
   target |-> CASE call[c].tool = "memory_add_link" -> call[c].dst [] OTHER -> call[c].src]

\* Mutant: the array is written over.
AppendActionLost(c) ==
  /\ call[c].at = "append"
  /\ actions' = [actions EXCEPT ![call[c].job] = <<Entry(c)>>]
  /\ call' = [call EXCEPT ![c] = Idle]
  /\ UNCHANGED <<dreamVars, links, made, core>>

\* Mutant: a job that is over takes no more entries.
AppendActionOpen(c) ==
  /\ call[c].at = "append"
  /\ actions' = [actions EXCEPT ![call[c].job] = IF status[call[c].job] \in Over THEN @ ELSE Append(@, Entry(c))]
  /\ call' = [call EXCEPT ![c] = Idle]
  /\ UNCHANGED <<dreamVars, links, made, core>>

\* recordAction: one transaction, whatever the status of the job.
AppendAction(c) ==
  /\ call[c].at = "append"
  /\ actions' = [actions EXCEPT ![call[c].job] = Append(@, Entry(c))]
  /\ call' = [call EXCEPT ![c] = Idle]
  /\ UNCHANGED <<dreamVars, links, made, core>>

\* PUT and DELETE of /api/owner/{ownerID}/agents/{agentName}/core-memory.
OwnerEdits(o, by) ==
  /\ by = NoBlob => core[o] # NoBlob
  /\ core' = [core EXCEPT ![o] = by]
  /\ UNCHANGED <<dreamVars, links, actions, made, call>>

-----------------------------------------------------------------------------
(* The view memory_status, and what retrieval shows. *)

\* Actions of jobs that succeeded, in full or in part.
EffectiveActions ==
  UNION {{actions[j][i] : i \in DOMAIN actions[j]} : j \in {k \in JobIds : status[k] \in {"succeeded", "partial"}}}

Status(m) ==
  IF \E e \in EffectiveActions : e.tool = "memory_supersede" /\ e.target = m THEN "superseded"
  ELSE IF \E e \in EffectiveActions : e.tool = "memory_mark_duplicate" /\ e.target = m /\ e.keep # m THEN "soft_deleted"
  ELSE "active"

\* The memories BuildContextPacket may inject for an agent of o: WrapInjection
\* gives it no StatusProvider, so applyStatusFilter returns what it gets.
Injectable(o) == {m \in Memories : Author[m] = o}

-----------------------------------------------------------------------------
MemInit ==
  /\ links = {} /\ made = {}
  /\ actions = [j \in JobIds |-> <<>>]
  /\ core = [o \in Owners |-> NoBlob]
  /\ call = [c \in Calls |-> Idle]

ToolCall(c) ==
  \E j \in JobIds, o \in Owners :
    \/ \E m, n \in Memories : MarkDuplicate(c, j, o, m, n) \/ Supersede(c, j, o, m, n)
    \/ \E m, n \in Memories, rel \in RelTypes : AddLink(c, j, o, m, n, rel)
    \/ \E m \in Memories : WriteReflection(c, j, o, m)
    \/ RewriteCore(c, j, o) \/ ListUnprocessed(c, j, o)

CallStep(c) ==
  \/ \E r \in Reflections : PostReflection(c, r)
  \/ InsertLink(c) \/ SetCore(c) \/ AppendAction(c)

\* The tools are served by the process the worker runs in.
RestartAll == Restart /\ call' = [c \in Calls |-> Idle] /\ UNCHANGED <<links, actions, made, core>>

Init == DreamInit /\ MemInit
Next ==
  \/ Working /\ UNCHANGED memVars
  \/ \E c \in Calls : ToolCall(c) \/ CallStep(c)
  \/ \E o \in Editors, by \in {Human, NoBlob} : OwnerEdits(o, by)
  \/ RestartAll
Spec == Init /\ [][Next]_vars

-----------------------------------------------------------------------------
(* Properties. *)

\* The types of the tables and of the calls being served.
TypeOK ==
  /\ DreamTypeOK
  /\ links \subseteq [src : Memories \cup Reflections, dst : Memories, rel : Semantic \cup Consolidation]
  /\ \A j \in JobIds : actions[j] \in Seq([tool : Tools, keep : Memories \cup {NoMessage},
                                            target : Memories \cup Reflections \cup {NoMessage}])
  /\ made \subseteq Reflections
  /\ core \in [Owners -> JobIds \cup {Human, NoBlob}]
  /\ \A c \in Calls : call[c] # Idle =>
       /\ call[c].at \in {"post", "link", "blob", "append"}
       /\ call[c].job \in JobIds /\ call[c].tool \in Tools
       /\ call[c].src = NoMessage <=> \/ call[c].tool \in {"memory_list_unprocessed", "memory_rewrite_core"}
                                     \/ call[c].at = "post"

Excluded == {m \in Memories : Status(m) # "active"}

\* Status is derived, never stored: it follows the outcomes of jobs and an array
\* that is read, extended and written back.  A memory that was excluded from
\* retrieval is nevertheless never active again, whatever calls and jobs meet.
ExcludedStays == [][Excluded \subseteq Excluded']_vars

\* SC-008, for what the dream agents write: no entry of an owner's audit log and
\* no link touches a memory of another owner, although links and entries carry
\* ids the agent has chosen.
AuditWithinOwner ==
  /\ \A j \in JobIds : \A i \in DOMAIN actions[j] :
       actions[j][i].target \in Memories => Author[actions[j][i].target] = OwnerOf(j)
  /\ \A l \in links : l.src \in Memories => Author[l.src] = Author[l.dst]

\* j's log has, or is about to get, an entry of this tool about src.
Audited(j, tool, src) ==
  \/ \E i \in DOMAIN actions[j] : actions[j][i].tool = tool /\ actions[j][i].target = src
  \/ \E c \in Calls : call[c] # Idle /\ call[c] = [call[c] EXCEPT !.at = "append", !.job = j, !.tool = tool, !.src = src]

\* "every call MUST be recorded" (FR-015), although write and entry are separate
\* statements: while the server stays up, nothing that excludes a memory and no
\* core memory of a dream agent is without its entry, even if the job ends first.
WritesAudited ==
  restarts = 0 =>
    /\ \A l \in links : l.rel \in Consolidation =>
         \E j \in JobIds : Audited(j, IF l.rel = "duplicate_of" THEN "memory_mark_duplicate"
                                      ELSE "memory_supersede", l.src)
    /\ \A o \in Owners : core[o] \in JobIds => OwnerOf(core[o]) = o /\ Audited(core[o], "memory_rewrite_core", NoMessage)

-----------------------------------------------------------------------------
(* What the documents promise and the code does not keep (see README). *)

\* specs/020-proactive-memory-dream-worker/spec.md:100: "Superseded memories are
\* excluded from default retrieval".
SupersededHidden == \A o \in Owners : \A m \in Injectable(o) : Status(m) # "superseded"

\* contracts/mcp-memory-tools.md:39: memory_list_unprocessed excludes "any already
\* linked via refines / duplicate_of / superseded_by to a more recent memory"; the
\* query leaves out the destinations of such links, which are the ones kept.
LoserNotListed ==
  \A l \in links : l.rel \in Consolidation /\ l.src \in Memories => l.src \notin Unprocessed(Author[l.src])

\* contracts/mcp-memory-tools.md:109: "one is kept canonical, the other is
\* soft-deleted" (and :136, `already_duplicate`).
OneSurvivor ==
  \A e, f \in {a \in EffectiveActions : a.tool = "memory_mark_duplicate" /\ a.target # a.keep} :
    e.target # f.keep \/ e.keep # f.target

\* contracts/mcp-memory-tools.md:165: `cycle_detected`.
NoCycle ==
  \A l, k \in links : l.rel = "superseded_by" /\ k.rel = "superseded_by" => l.src # k.dst \/ l.dst # k.src

\* contracts/mcp-memory-tools.md:134: "The memory_status view then derives loser_id
\* as soft_deleted"; after a job that failed the link is there, the status is not,
\* and UNIQUE refuses every later attempt.
LinkExcludes ==
  (\A c \in Calls : call[c] = Idle) /\ (\A j \in JobIds : status[j] \notin Flying) =>
    \A l \in links : l.rel \in Consolidation /\ l.src # l.dst => l.src \in Excluded

\* spec.md:116: "an immutable audit log"; an agent whose call was accepted before
\* its job ended adds to it afterwards.
ClosedLog == [][\A j \in JobIds : status[j] \in Over => actions'[j] = actions[j]]_vars
=============================================================================

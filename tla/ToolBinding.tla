----------------------------- MODULE ToolBinding -----------------------------
(***************************************************************************)
(* Who a turn acts for, what kind of turn it is, and which tools it may    *)
(* run: permissions.py, turn_policy.py and the tables of tools.py, without *)
(* state.  A perception is its kind and, for a ChannelMessage, the two     *)
(* fields that decide its author's trust.                                  *)
(***************************************************************************)
EXTENDS Naturals

CONSTANTS
    McpTools,       \* tools of the outside servers, listed once at boot
    MinPrincipal,   \* each one's server's min_principal
    UntrustedMcp,   \* those whose server has untrusted_output
    SelfProfile, Evolution      \* the two config switches

Principals == {"owner", "owner_dm", "internal", "external_public"}
Owners     == {"owner", "owner_dm"}
Trusted    == {"owner", "owner_dm", "internal"}

Kinds == {"conversation", "reflection", "diary", "agenda", "pulse", "safe_mode"}

MainTools == {"NoteMemory", "WriteDiary", "WriteSchedule", "Shell", "InvokeSkill",
              "Recall", "SpawnWorkflow", "ReadToolOutput", "SetFocus", "OpenLoop",
              "CloseLoop", "MoodTool", "PursueGoal", "AdvanceGoal"}
ExtraTools == {"NoteToolLesson", "PinSelf", "SelfRevision", "LearnName"}
AgentTools == {"Report", "Scratchpad", "EditOwnerProfile"}
BuiltinTools == MainTools \union ExtraTools \union AgentTools

\* register_mcp: a name that is taken fails the boot.
NoneTaken(names) == names \intersect BuiltinTools = {}

ASSUME BindingAssumption ==
    /\ NoneTaken(McpTools)
    /\ MinPrincipal \in [McpTools -> {"owner", "internal", "external_public"}]
    /\ UntrustedMcp \subseteq McpTools
    /\ SelfProfile \in BOOLEAN /\ Evolution \in BOOLEAN

-----------------------------------------------------------------------------
(* permissions.py *)

\* TRUST_ORDER by rank, highest trust first.
Rank == [owner |-> 0, owner_dm |-> 1, internal |-> 2, external_public |-> 3]

OriginTier == [owner |-> "internal", owner_dm |-> "external_dm",
               internal |-> "internal", external_public |-> "external_public"]

\* The principals of a batch's authors; Doll's own perceptions have none.
Authors(batch) ==
    {IF p.kind = "UserSpoke" THEN "owner"
     ELSE IF p.owner /\ p.dm THEN "owner_dm" ELSE "external_public" :
        p \in {q \in batch : q.kind \in {"UserSpoke", "ChannelMessage"}}}

PrincipalOf(batch) ==
    IF Authors(batch) = {} THEN "internal"
    ELSE CHOOSE a \in Authors(batch) :
            \A b \in Authors(batch) : Rank[b] <= Rank[a]

\* Mutant: LearnName may run without the owner.
ToolMatrixLearnNameTrusted ==
    [t \in BuiltinTools |->
        IF t \in {"Recall", "NoteMemory", "WriteDiary"} THEN Principals ELSE Trusted]

ToolMatrix ==
    [t \in BuiltinTools |->
        IF t \in {"Recall", "NoteMemory", "WriteDiary"} THEN Principals
        ELSE IF t = "LearnName" THEN Owners
        ELSE Trusted]

McpRow(t) == CASE MinPrincipal[t] = "owner"           -> Owners
               [] MinPrincipal[t] = "internal"        -> Trusted
               [] MinPrincipal[t] = "external_public" -> Principals

ToolsFor(principal) == {t \in BuiltinTools : principal \in ToolMatrix[t]}

\* A stranger's row without WriteDiary, and an agent's Report.
TaintedTools == (ToolsFor("external_public") \ {"WriteDiary"}) \union {"Report"}

-----------------------------------------------------------------------------
(* turn_policy.py *)

KindTools(kind) ==
    CASE kind \in {"conversation", "reflection"} -> MainTools
      [] kind = "diary"     -> {"WriteDiary", "Recall"}
      [] kind = "agenda"    -> {"Recall", "AdvanceGoal", "CloseLoop", "MoodTool"}
      [] kind = "pulse"     -> {"Recall", "NoteMemory", "MoodTool"}
      [] kind = "safe_mode" -> {"Recall", "ReadToolOutput"}

\* The tools a kind adds and _holds for them.
Extras == {[kind |-> "conversation", tool |-> "LearnName",      when |-> {}],
           [kind |-> "conversation", tool |-> "PinSelf",
            when |-> {"self_profile", "owner_present"}],
           [kind |-> "reflection",   tool |-> "NoteToolLesson", when |-> {}],
           [kind |-> "reflection",   tool |-> "PinSelf",        when |-> {"self_profile"}],
           [kind |-> "reflection",   tool |-> "SelfRevision",   when |-> {"evolution"}],
           [kind |-> "reflection",   tool |-> "LearnName",      when |-> {}]}

Holds(extra, principal) ==
    /\ "self_profile"  \in extra.when => SelfProfile
    /\ "evolution"     \in extra.when => Evolution
    /\ "owner_present" \in extra.when => principal \in Owners
    /\ principal \in ToolMatrix[extra.tool]

\* Any reflection in the batch; another moment only when it is all of it.
MomentOf(batch) ==
    LET pure(kind) == \A p \in batch : p.kind = kind IN
    IF \E p \in batch : p.kind = "ReflectionMoment" THEN "reflection"
    ELSE IF pure("DiaryMoment") THEN "diary"
    ELSE IF pure("AgendaMoment") THEN "agenda"
    ELSE IF pure("PulseMoment") THEN "pulse"
    ELSE "conversation"

EffectiveKind(moment, safeMode) == IF safeMode THEN "safe_mode" ELSE moment

BoundTools ==
    [kind \in Kinds |-> [principal \in Principals |->
        (KindTools(kind) \intersect ToolsFor(principal))
        \union {e.tool : e \in {x \in Extras : x.kind = kind /\ Holds(x, principal)}}
        \union {t \in McpTools : kind = "conversation" /\ principal \in McpRow(t)}]]

\* One list per origin tier: whatever any turn of the tier can be bound to.
OfferedTools ==
    [principal \in Principals |->
        LET tier == {q \in Principals : OriginTier[q] = OriginTier[principal]} IN
        {t \in MainTools : \E q \in tier : q \in ToolMatrix[t]}
        \union {e.tool : e \in {x \in Extras : \E q \in tier : Holds(x, q)}}
        \union {t \in McpTools : \E q \in tier : q \in McpRow(t)}]

\* The tool classes' taints: does the call ask for untrusted content?
\* external is Recall's include_external, or an ext- id of ReadToolOutput.
CallTaints(tool, external) ==
    \/ tool \in {"Recall", "ReadToolOutput"} /\ external
    \/ tool \in UntrustedMcp
=============================================================================

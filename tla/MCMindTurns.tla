------------------------------ MODULE MCMindTurns ------------------------------
(* Model-checking instance of MindTurns: one owner DM, one public channel and  *)
(* room for one channel page, with an untrusted MCP server's tool.             *)
EXTENDS MindTurns

MCMinPrincipal == [t \in McpTools |-> "internal"]

Reads  == {"Recall", "NoteMemory", "WriteDiary", "web__fetch"}

\* Pages and memory over three places.
Taints == [places |-> Places, moments |-> {"UserSpoke"}, authors |-> {FALSE},
           called |-> Reads, days |-> 1, boots |-> 1, facts |-> {}, changes |-> 0, samples |-> 0]

\* The same with one-off diary turns at the keyboard.
OneOffs == [Taints EXCEPT !.places = {Private} \union Publics,
                          !.moments = {"UserSpoke", "DiaryMoment"}]

\* Safe mode and the owner's tools, over a restart.
Guards == [places |-> Places, moments |-> {"UserSpoke", "ReflectionMoment"},
           authors |-> {TRUE}, called |-> {"Recall", "Shell", "LearnName", "PinSelf"},
           days |-> 1, boots |-> 2, facts |-> {}, changes |-> 0, samples |-> 0]

\* Diaries, alone and among other moments, over midnight.
Diaries == [places |-> {Private} \union Publics,
            moments |-> {"DiaryMoment", "AgendaMoment"}, authors |-> {FALSE},
            called |-> {"WriteDiary"}, days |-> 2, boots |-> 1, facts |-> {}, changes |-> 0, samples |-> 0]

\* What is on the pages: blocks that change, more facts than a turn is given.
Contents == [Taints EXCEPT !.places = {Private} \union Publics, !.called = {},
                           !.facts = Facts, !.changes = 1]

\* A body that shifts and shifts back over midnight, among diaries, and among
\* channel turns.
Bodies   == [OneOffs EXCEPT !.places = {Private}, !.called = {}, !.samples = 2, !.days = 2]
Abroad   == [Bodies EXCEPT !.places = {Private} \union Publics, !.moments = {"UserSpoke"}]

MCScopes    == {Taints, OneOffs, Guards, Diaries, Contents, Bodies, Abroad}
=============================================================================

----------------------------- MODULE MCNodeUtil -----------------------------
EXTENDS NodeUtil

\* Two tasks, the name of one part of the other's ID; a nested container.
Task(id, name, texts, framework, container) ==
  [id |-> id, name |-> name, texts |-> texts, framework |-> framework, container |-> container]

MCTasks == {Task("web.1", "web", {"web"}, "marathon", <<"c1">>),
            Task("webapp.2", "webapp", {"web", "webapp"}, "metronome", <<"c2", "pod">>)}

MCTimeouts == {-1, 0, 1}

MCTexts == {"web", "webapp"}
=============================================================================

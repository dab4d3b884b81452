-------------------------------- MODULE MCPaths --------------------------------
(* Paths with a process of two threads and one of one thread.  One project *)
(* lies right below the home directory, one beside it, and one is above it;*)
(* the home directory and the one above it may have a .multiplai, and the  *)
(* latter is further up from the first project than the walk goes.         *)
EXTENDS Paths, TLC

\* Processes share nothing but files that neither writes: it is enough that
\* one of them begins when the other has its paths, and that only the first
\* walks in every way.
OneAfterAnother ==
    env["q"] # None =>
        /\ \A t \in ThreadsOf["p"] : pc[t] = "idle" /\ result[t] # None
        /\ env["q"].project # None =>
               env["q"].project = <<"home", "me", "w">> /\ env["q"].home = Home

TheNames == STRING
TheThreads == ("p" :> {"p1", "p2"} @@ "q" :> {"q1"})
ThePlugins == {<<"context", "kit">>}
TheHome == <<"home", "me">>
TheClone == <<"home", "me", "context">>
TheProjects == {<<"home", "me", "w">>, <<"home", "you">>, <<"home">>}
TheMarkable == {<<"home">>, <<"home", "me">>, <<"home", "me", "w">>}
TheManaged == {None, <<"managed">>}
TheWorkspaces == {None, <<"home", "me", "w">>}
TheOptionSets == {NoOptions, [NoOptions EXCEPT !.workspace_dir = <<"x">>, !.diary_dir = <<"notes", "diary">>],
                  [NoOptions EXCEPT !.memory_dir = BadPath]}
=============================================================================

--------------------------------- MODULE Paths ---------------------------------
(***************************************************************************)
(* Where a process keeps its files: get_paths and Paths.resolve (paths.py) *)
(* over the plugin options (plugin_options.py).                            *)
(*                                                                         *)
(* A hook gets the options in its environment when the harness starts it;  *)
(* a script that a skill runs reads them from settings.json at its first   *)
(* question, and once a process.  Meanwhile settings are edited, plugins   *)
(* upgraded, and .multiplai directories come and go.  A path is the        *)
(* sequence of its components.  Left out: the options now_dir,             *)
(* learnings_dir and memory_banks_file (as diary_dir), how an option is    *)
(* stringified, two threads that read the settings at once, a settings.json*)
(* that cannot be read or is read half written, which counts as empty for  *)
(* the life of the process, a directory the walk cannot look at (OSError), *)
(* and _reset_cache, which is for tests.                                   *)
(***************************************************************************)
EXTENDS Integers, Sequences, SequencesExt

CONSTANTS
    Names,       \* what a component of a path may be
    Procs,
    ThreadsOf,   \* [process -> its threads]
    Plugins,     \* <<plugin, marketplace>>
    Versions,    \* of a plugin, in the cache of Claude Code
    Oldest,      \* the version that is installed at first
    Home,        \* the home directory, resolved
    Clone,       \* a checkout outside the config dir
    Projects,    \* what CLAUDE_PROJECT_DIR may be
    Markable,    \* directories that may have a .multiplai
    Managed,     \* what CLAUDE_PLUGIN_DATA may be
    Workspaces,  \* what WORKSPACE may be
    OptionSets,  \* what the options of a plugin may be set to
    None,        \* unset or blank
    BadPath,     \* a path expanduser raises at, like "~nobody/notes"
    MaxDepth,    \* _MARKER_MAX_DEPTH
    MaxEdits     \* bound: changes of settings, plugins and markers

Path == Seq(Names)

NoOptions == [workspace_dir |-> None, data_dir |-> None, memory_dir |-> None,
              diary_dir |-> None]
OptionNames == DOMAIN NoOptions
OptionValues == Path \cup {None, BadPath}

Environments ==
    [plugin: Plugins \cup {None}, where: Path, root: Path \cup {None},
     data: Managed \cup {None}, project: Path \cup {None}, home: {Home, None},
     options: OptionSets \cup {NoOptions}]

ASSUME PathsAssumption ==
    /\ MaxDepth \in Nat \ {0} /\ MaxEdits \in Nat
    /\ {".claude", "plugins", "cache", "scripts"} \cup Versions \subseteq Names
    /\ Oldest \in Versions /\ Plugins \subseteq Names \X Names
    /\ Home \in Path /\ Clone \in Path /\ Markable \subseteq Path
    /\ Projects \subseteq Path \cup {None}
    /\ OptionSets \subseteq [OptionNames -> OptionValues]
    /\ \A p, q \in Procs : p # q => ThreadsOf[p] \cap ThreadsOf[q] = {}

\* None stands for nothing else.
ASSUME NoneAssumption ==
    /\ None \notin Path /\ None \notin Plugins /\ None \notin OptionSets \cup {NoOptions}
    /\ None \notin Environments
    /\ \A p \in Procs : None \notin ThreadsOf[p]

VARIABLES
    settings,  \* [plugin -> its options in settings.json]
    installed, \* installed_plugins.json: [plugin -> the version at its installPath]
    markers,   \* the directories that have a .multiplai
    shell,     \* WORKSPACE, as the launcher exported it
    edits,     \* changes so far
    env,       \* [process -> its environment and its place], None before it starts
    saved,     \* [process -> the cache of _saved_options]
    cached,    \* [process -> _cached_paths]
    lock,      \* [process -> the thread that holds _lock]
    pc,        \* [thread -> "idle", "waiting", the option it asks for, "walk", "built"]
    got,       \* [thread -> the options it has been told]
    dir,       \* [thread -> the directory its walk looks at next]
    found,     \* [thread -> the directory its walk ended with]
    result,    \* [thread -> what get_paths last gave it]
    read,      \* history: [process -> settings of its plugin when it looked]
    ever,      \* history: [thread -> markers seen at some time of its walk]
    always     \* history: [thread -> markers seen at every time of its walk]

world == <<settings, installed, markers, shell, edits>>
caches == <<saved, cached, lock>>
locals == <<pc, got, dir, found, result>>
history == <<read, ever, always>>
vars == <<world, env, caches, locals, history>>

Threads == UNION {ThreadsOf[p] : p \in Procs}
ProcOf(t) == CHOOSE p \in Procs : t \in ThreadsOf[p]

Cache == Home \o <<".claude", "plugins", "cache">>
VersionDir(q, v) == Cache \o <<q[2], q[1], v>>
InstallPath(q) == VersionDir(q, installed[q])
Standalone == Append(Home, ".multiplai")

Init ==
    /\ settings \in [Plugins -> OptionSets] /\ installed = [q \in Plugins |-> Oldest]
    /\ markers \in SUBSET Markable /\ shell \in Workspaces /\ edits = 0
    /\ env = [p \in Procs |-> None]
    /\ saved = [p \in Procs |-> None] /\ cached = [p \in Procs |-> None]
    /\ lock = [p \in Procs |-> None]
    /\ pc = [t \in Threads |-> "idle"] /\ got = [t \in Threads |-> NoOptions]
    /\ dir = [t \in Threads |-> None] /\ found = [t \in Threads |-> None]
    /\ result = [t \in Threads |-> None]
    /\ read = [p \in Procs |-> {}]
    /\ ever = [t \in Threads |-> {}] /\ always = [t \in Threads |-> {}]

-----------------------------------------------------------------------------
(* The user, Claude Code and other processes.                              *)

Edit == /\ edits < MaxEdits /\ edits' = edits + 1
        /\ UNCHANGED <<shell, env, caches, locals, read>>

EditSettings(q) ==
    /\ Edit
    /\ \E o \in OptionSets \ {settings[q]} : settings' = [settings EXCEPT ![q] = o]
    /\ UNCHANGED <<installed, markers, ever, always>>

\* The directory of the superseded version stays.
Upgrade(q) ==
    /\ Edit
    /\ \E v \in Versions \ {installed[q]} : installed' = [installed EXCEPT ![q] = v]
    /\ UNCHANGED <<settings, markers, ever, always>>

\* A .multiplai is made or removed.
Mark(d) ==
    /\ Edit
    /\ markers' = IF d \in markers THEN markers \ {d} ELSE markers \cup {d}
    /\ ever' = [t \in Threads |-> IF pc[t] = "walk" THEN ever[t] \cup {d} ELSE ever[t]]
    /\ always' = [t \in Threads |-> always[t] \ {d}]
    /\ UNCHANGED <<settings, installed>>

Start(p, e) == env[p] = None /\ env' = [env EXCEPT ![p] = e]
               /\ UNCHANGED <<world, caches, locals, ever, always>>

\* The harness runs a hook of the installed version, options in its environment.
\* home is what Path.home() gives: Home, or a name that leads there through a
\* symlink, which no resolved path equals (None).
StartHook(p, q) ==
    /\ \E data \in Managed, project \in Projects, home \in {Home, None} :
           Start(p, [plugin |-> q, where |-> InstallPath(q), root |-> InstallPath(q),
                     data |-> data, project |-> project, home |-> home,
                     options |-> settings[q]])
    /\ read' = [read EXCEPT ![p] = {settings[q]}]

\* Bash exports none of these, and without a project nobody asks for the home.
\* _plugin_path is where the script lies.
StartScript(p, q, where) ==
    /\ Start(p, [plugin |-> q, where |-> where, root |-> None, data |-> None,
                 project |-> None, home |-> None, options |-> NoOptions])
    /\ UNCHANGED read

-----------------------------------------------------------------------------
(* plugin_options: whose options, and which.                               *)

\* The plugin installed around a path, by installed_plugins.json.
ByRecord(where) ==
    LET around == {q \in Plugins : IsPrefix(InstallPath(q), where)}
    IN IF around = {} THEN None
       ELSE CHOOSE q \in around :
                \A r \in around : Len(InstallPath(r)) <= Len(InstallPath(q))
\* By the layout <marketplace>/<plugin>/<version> of the cache.
ByLayout(where) ==
    IF IsPrefix(Cache, where) /\ Len(where) >= Len(Cache) + 3
    THEN <<where[Len(Cache) + 2], where[Len(Cache) + 1]>> ELSE None

\* Mistake: nobody thinks of a session that runs a superseded version.
PluginIdMutant(where) == ByRecord(where)
PluginId(where) == IF ByRecord(where) # None THEN ByRecord(where) ELSE ByLayout(where)

SavedOptions(p) ==
    LET q == PluginId(env[p].where) IN IF q \in Plugins THEN settings[q] ELSE NoOptions

\* _saved_options: parsed at the first question, then cached (lru_cache).
Saved(p) == IF saved[p] # None THEN saved[p] ELSE SavedOptions(p)
FillSaved(p) ==
    /\ saved' = [saved EXCEPT ![p] = Saved(p)]
    /\ read' = IF saved[p] # None \/ env[p].plugin = None THEN read
               ELSE [read EXCEPT ![p] = @ \cup {settings[env[p].plugin]}]

\* Another module of the process asks for an option that is not exported.
OtherOption(p) ==
    /\ env[p] # None /\ saved[p] = None
    /\ FillSaved(p)
    /\ UNCHANGED <<world, env, cached, lock, locals, ever, always>>

-----------------------------------------------------------------------------
(* get_paths                                                               *)

Goto(t, to) == pc' = [pc EXCEPT ![t] = to]
Gives(t, value) == result' = [result EXCEPT ![t] = value]

\* The look before the lock.
GetPaths(t) ==
    LET p == ProcOf(t)
    IN /\ env[p] # None /\ pc[t] = "idle"
       /\ IF cached[p] # None
          THEN /\ result[t] # cached[p] /\ Gives(t, cached[p]) /\ UNCHANGED pc
          ELSE Goto(t, "waiting") /\ UNCHANGED result
       /\ UNCHANGED <<world, env, caches, got, dir, found, history>>

\* Mistake: who got the lock does not look again.
MustResolveMutant(p) == TRUE
MustResolve(p) == cached[p] = None

Acquire(t) ==
    LET p == ProcOf(t)
    IN /\ pc[t] = "waiting" /\ lock[p] = None
       /\ \/ /\ MustResolve(p)
             /\ lock' = [lock EXCEPT ![p] = t]
             /\ Goto(t, "workspace_dir")
             /\ got' = [got EXCEPT ![t] = NoOptions]
             /\ UNCHANGED result
          \/ /\ ~MustResolve(p)
             /\ Gives(t, cached[p]) /\ Goto(t, "idle")
             /\ UNCHANGED <<lock, got>>
       /\ UNCHANGED <<world, env, saved, cached, dir, found, history>>

\* What holds the lock after an exception; "with" lets it go.
\* Mistake: the lock is released only after a good end.
AfterRaiseMutant(t) == t
AfterRaise(t) == None

After == [workspace_dir |-> "walk", data_dir |-> "memory_dir",
          memory_dir |-> "diary_dir", diary_dir |-> "built"]

\* One option() of resolve: the environment, else what is saved.
AskOption(t) ==
    LET p == ProcOf(t)
        o == pc[t]
        exported == env[p].options[o]
        value == IF exported # None THEN exported ELSE Saved(p)[o]
        raises == \/ value = BadPath
                  \/ o = "workspace_dir" /\ value = None /\ shell = BadPath
    IN /\ pc[t] \in OptionNames
       /\ IF exported # None THEN UNCHANGED <<saved, read>> ELSE FillSaved(p)
       /\ \/ /\ raises
             /\ Goto(t, "idle") /\ lock' = [lock EXCEPT ![p] = AfterRaise(t)]
             /\ UNCHANGED <<got, dir, ever, always>>
          \/ /\ ~raises
             /\ Goto(t, After[o]) /\ UNCHANGED lock
             /\ got' = [got EXCEPT ![t][o] = value]
             /\ IF o = "workspace_dir"
                THEN /\ dir' = [dir EXCEPT ![t] = env[p].project]
                     /\ ever' = [ever EXCEPT ![t] = markers]
                     /\ always' = [always EXCEPT ![t] = markers]
                ELSE UNCHANGED <<dir, ever, always>>
       /\ UNCHANGED <<world, env, cached, found, result>>

\* Mistake: $HOME is looked at before it ends the walk.
WalkEndsMutant(e, d) ==
    \/ d = None
    \/ Len(e.project) - Len(d) >= MaxDepth
    \/ Len(d) < Len(Home) /\ IsPrefix(d, Home)
\* _discovered_workspace_base: nowhere to look, or looked far enough.  The path
\* that goes up is resolved, the one of $HOME is not.
WalkEnds(e, d) ==
    \/ d = None
    \/ d = e.home
    \/ Len(e.project) - Len(d) >= MaxDepth

\* One is_dir of the walk.
WalkOn(t) ==
    LET d == dir[t]
        ends(marker) == /\ found' = [found EXCEPT ![t] = marker]
                        /\ Goto(t, "data_dir") /\ UNCHANGED dir
    IN /\ pc[t] = "walk"
       /\ IF WalkEnds(env[ProcOf(t)], d) THEN ends(None)
          ELSE IF d \in markers THEN ends(d)
          ELSE IF d = <<>> THEN ends(None)
          ELSE dir' = [dir EXCEPT ![t] = Front(d)] /\ UNCHANGED <<found, pc>>
       /\ UNCHANGED <<world, env, caches, got, result, history>>

\* Where resolve puts the files, given the options and the walk.
Or(value, otherwise) == IF value # None THEN value ELSE otherwise
Configured(o) == Or(o.workspace_dir, shell)

DataDir(e, o, marker) ==
    IF o.data_dir # None THEN o.data_dir
    ELSE IF Configured(o) # None THEN Configured(o) \o <<".multiplai", "data">>
    ELSE IF e.data # None THEN e.data
    ELSE IF marker # None THEN marker \o <<".multiplai", "data">>
    ELSE Append(Standalone, "data")

Resolved(e, o, marker) ==
    LET workspace == Or(Configured(o), marker)
        base == IF workspace = None THEN Standalone ELSE Append(workspace, ".multiplai")
        diary == Or(o.diary_dir, Append(base, "diary"))
    IN [plugin_root |-> Or(e.root, Standalone), data_dir |-> DataDir(e, o, marker),
        memory_dir |-> Or(o.memory_dir, Append(base, "memory")),
        diary_dir |-> diary, now_dir |-> Append(Front(diary), "now")]

\* Resolved: the cache is set, and the lock released.
Publish(t) ==
    LET p == ProcOf(t)
    IN /\ pc[t] = "built"
       /\ cached' = [cached EXCEPT ![p] = Resolved(env[p], got[t], found[t])]
       /\ lock' = [lock EXCEPT ![p] = None]
       /\ Gives(t, cached'[p]) /\ Goto(t, "idle")
       /\ got' = [got EXCEPT ![t] = NoOptions] /\ dir' = [dir EXCEPT ![t] = None]
       /\ found' = [found EXCEPT ![t] = None]
       /\ ever' = [ever EXCEPT ![t] = {}] /\ always' = [always EXCEPT ![t] = {}]
       /\ UNCHANGED <<world, env, saved, read>>

Resolve(t) == AskOption(t) \/ WalkOn(t) \/ Publish(t)

Next ==
    \/ \E q \in Plugins : EditSettings(q) \/ Upgrade(q)
    \/ \E d \in Markable : Mark(d)
    \/ \E p \in Procs, q \in Plugins :
           \/ StartHook(p, q)
           \/ \E v \in Versions : StartScript(p, q, Append(VersionDir(q, v), "scripts"))
    \/ \E p \in Procs : StartScript(p, None, Clone) \/ OtherOption(p)
    \/ \E t \in Threads : GetPaths(t) \/ Acquire(t) \/ Resolve(t)

Spec == Init /\ [][Next]_vars
\* The thread that resolves, of which a process has one, is scheduled; locks
\* need not be fair.
FairSpec == Spec /\ \A p \in Procs : WF_vars(\E t \in ThreadsOf[p] : Resolve(t))

-----------------------------------------------------------------------------
(* Properties.                                                             *)

\* All threads of a process get the same paths, whatever changes while they
\* ask: they are resolved once (get_paths, _lock).
OnePathsPerProcess ==
    \A p \in Procs : \A t, u \in ThreadsOf[p] :
        result[t] # None /\ result[u] # None => result[t] = result[u]

\* Two processes of one plugin that looked at the same settings keep their
\* files in the same places when a workspace is configured, a hook or a script
\* of a superseded version alike; and a marker that appears does not move the
\* data of an install that has a managed directory (Paths.resolve).  This is of
\* settings that both could read.
ProcessesAgree ==
    \A p, q \in Procs :
        /\ cached[p] # None /\ cached[q] # None
        /\ env[p].plugin = env[q].plugin /\ env[p].plugin # None
        => \A o \in OptionSets : read[p] = {o} /\ read[q] = {o} =>
              /\ Configured(o) # None =>
                     [cached[p] EXCEPT !.plugin_root = None]
                         = [cached[q] EXCEPT !.plugin_root = None]
              /\ env[p].data = env[q].data /\ env[p].data # None =>
                     cached[p].data_dir = cached[q].data_dir

\* The walk of a project below $HOME ends there, unless $HOME is a symlink.
StopsAtHome(e) == e.home = Home /\ IsPrefix(Home, e.project)

\* Where a marker counts: a directory less than MaxDepth levels up, and below
\* $HOME if the walk stops there.
Eligible(e) ==
    {SubSeq(e.project, 1, n) : n \in {m \in 0..Len(e.project) :
        /\ Len(e.project) - m < MaxDepth
        /\ StopsAtHome(e) => ~IsPrefix(SubSeq(e.project, 1, m), Home)}}

\* The walk ends at a marker that was there, no nearer one having been there all
\* the time.  For a project below $HOME that is never $HOME or a directory above
\* it, as long as Path.home() goes through no symlink; with one, $HOME and what
\* lies above it count, and they do for a project outside of $HOME
\* (_discovered_workspace_base).
DiscoveryIsNearest ==
    \A t \in Threads :
        LET e == env[ProcOf(t)]
            good(set) == {d \in set : d \in Eligible(e)}
        IN pc[t] \in {"data_dir", "memory_dir", "diary_dir", "built"} =>
             IF e.project = None THEN found[t] = None
             ELSE IF found[t] = None THEN good(always[t]) = {}
             ELSE /\ found[t] \in good(ever[t])
                  /\ \A d \in good(always[t]) : Len(d) <= Len(found[t])

\* The lock comes free again and again, though resolving may raise for a path
\* in the settings: no thread keeps it for ever (get_paths, with _lock).  One
\* that waits may still be overtaken by the others each time.
LockComesFree == \A p \in Procs : []<>(lock[p] = None)
=============================================================================

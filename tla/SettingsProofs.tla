----------------------------- MODULE SettingsProofs ---------------------------
(***************************************************************************)
(* Theorems about what a process of the package resolves from its          *)
(* environment, its settings and the disk.                                 *)
(*                                                                         *)
(* First part: Paths, for any processes, threads, plugins, directories and *)
(* options.  Three invariants stand beside the types: one of the lock, one *)
(* of what the options of a process come from, one of the walk.  The       *)
(* second part is SessionModel.                                            *)
(***************************************************************************)
EXTENDS Paths, SessionModel, SequenceTheorems, WellFoundedInduction, TLAPS

Locations == {"idle", "waiting", "walk", "built"} \cup OptionNames
Asking == {"idle", "waiting"}

TypeOK ==
    /\ settings \in [Plugins -> OptionSets] /\ installed \in [Plugins -> Versions]
    /\ markers \in SUBSET Markable
    /\ env \in [Procs -> Environments \cup {None}]
    /\ saved \in [Procs -> OptionSets \cup {NoOptions, None}]
    /\ cached = [p \in Procs |-> cached[p]]
    /\ lock \in [Procs -> Threads \cup {None}]
    /\ pc \in [Threads -> Locations]
    /\ got \in [Threads -> [OptionNames -> OptionValues]]
    /\ dir \in [Threads -> Path \cup {None}] /\ found \in [Threads -> Markable \cup {None}]
    /\ result = [t \in Threads |-> result[t]]
    /\ read \in [Procs -> SUBSET OptionSets]
    /\ ever \in [Threads -> SUBSET Markable] /\ always \in [Threads -> SUBSET Markable]

\* A process that has not started has asked for nothing.
NotStarted(p) ==
    /\ saved[p] = None /\ cached[p] = None /\ read[p] = {}
    /\ \A t \in ThreadsOf[p] : pc[t] = "idle"
StartInv == \A p \in Procs : env[p] = None => NotStarted(p)

\* The thread that resolves holds the lock, and nothing is cached yet; what a
\* thread was given is what is cached.
LockInv ==
    \A p \in Procs : \A t \in ThreadsOf[p] :
        /\ pc[t] \notin Asking => lock[p] = t /\ cached[p] = None
        /\ result[t] # None => result[t] = cached[p]

\* The options a thread has been told when it is at a place of resolve.
Told(spot) ==
    CASE spot \in {"walk", "data_dir"} -> {"workspace_dir"}
      [] spot = "memory_dir" -> {"workspace_dir", "data_dir"}
      [] spot = "diary_dir" -> OptionNames \ {"diary_dir"}
      [] spot = "built" -> OptionNames
      [] OTHER -> {}

\* A process of a plugin finds its plugin, and every option it was told comes
\* from settings of that plugin that it looked at.
OptionsOfPlugin(p) ==
    LET q == env[p].plugin
    IN /\ \E v \in Versions :
              env[p].where \in {VersionDir(q, v), Append(VersionDir(q, v), "scripts")}
       /\ env[p].options = NoOptions \/ env[p].options \in read[p]
       /\ saved[p] # None => saved[p] \in read[p]
       /\ \A t \in ThreadsOf[p], n \in OptionNames :
              n \in Told(pc[t]) => \E o \in read[p] : got[t][n] = o[n]
       /\ cached[p] # None =>
              /\ read[p] # {}
              /\ \A o \in OptionSets : read[p] = {o} =>
                     \E m \in Markable \cup {None} : cached[p] = Resolved(env[p], o, m)
OptionsInv ==
    \A p \in Procs : env[p] # None /\ env[p].plugin # None => OptionsOfPlugin(p)

\* A walk is at a directory of the project's path, not above $HOME if it stops
\* there, and no marker that was there all the time lies below it.
WalkAt(e, d, seen) ==
    /\ (e.project = None) <=> (d = None)
    /\ e.project # None =>
         /\ d = SubSeq(e.project, 1, Len(d)) /\ Len(d) <= Len(e.project)
         /\ StopsAtHome(e) => Len(Home) <= Len(d)
         /\ \A m \in seen \cap Eligible(e) : Len(m) <= Len(d)

\* An ended one is at the nearest marker, as DiscoveryIsNearest says.
Walked == {"data_dir", "memory_dir", "diary_dir", "built"}
WalkEnded(e, f, some, all) ==
    IF e.project = None THEN f = None
    ELSE IF f = None THEN all \cap Eligible(e) = {}
    ELSE /\ f \in some \cap Eligible(e)
         /\ \A d \in all \cap Eligible(e) : Len(d) <= Len(f)

Walking(t) ==
    LET e == env[ProcOf(t)]
    IN /\ pc[t] = "walk" =>
             /\ always[t] \subseteq markers /\ markers \subseteq ever[t]
             /\ WalkAt(e, dir[t], always[t])
       /\ pc[t] \in Walked => WalkEnded(e, found[t], ever[t], always[t])
WalkInv == \A t \in Threads : Walking(t)

IInv == TypeOK /\ StartInv /\ LockInv /\ OptionsInv /\ WalkInv

-----------------------------------------------------------------------------
(* Lemmas about the constants and the operators of the model.              *)

LEMMA OptionNamesAre ==
    OptionNames = {"workspace_dir", "data_dir", "memory_dir", "diary_dir"}
  BY DEF OptionNames, NoOptions

LEMMA NoOptionsType == NoOptions \in [OptionNames -> OptionValues]
  BY DEF OptionNames, NoOptions, OptionValues

\* A thread belongs to one process.
LEMMA ThreadOfProcess ==
    ASSUME NEW p \in Procs, NEW t \in ThreadsOf[p]
    PROVE  t \in Threads /\ ProcOf(t) = p /\ t # None
  BY PathsAssumption, NoneAssumption DEF Threads, ProcOf

LEMMA ProcessOfThread ==
    ASSUME NEW t \in Threads
    PROVE  ProcOf(t) \in Procs /\ t \in ThreadsOf[ProcOf(t)]
  BY DEF Threads, ProcOf

LEMMA ThreeInSeq ==
    ASSUME NEW S, NEW a \in S, NEW b \in S, NEW c \in S
    PROVE  <<a, b, c>> \in Seq(S) /\ Len(<<a, b, c>>) = 3
  OBVIOUS

LEMMA AppendInSeq ==
    ASSUME NEW S, NEW s \in Seq(S), NEW a \in S
    PROVE  /\ Append(s, a) \in Seq(S) /\ Len(Append(s, a)) = Len(s) + 1
           /\ \A i \in 1..Len(s) : Append(s, a)[i] = s[i]
  OBVIOUS

LEMMA ConcatInSeq ==
    ASSUME NEW S, NEW s \in Seq(S), NEW u \in Seq(S)
    PROVE  /\ s \o u \in Seq(S) /\ Len(s \o u) = Len(s) + Len(u)
           /\ \A i \in 1..Len(s) : (s \o u)[i] = s[i]
           /\ \A i \in 1..Len(u) : (s \o u)[Len(s) + i] = u[i]
  OBVIOUS

LEMMA PathLength == \A s \in Path : Len(s) \in Nat
  BY DEF Path

\* The directory of a version of a plugin, component by component.
LEMMA CacheType == Cache \in Path /\ Len(Cache) \in Nat
  <1>1. Home \in Seq(Names)
    BY PathsAssumption DEF Path
  <1>2. ".claude" \in Names /\ "plugins" \in Names /\ "cache" \in Names
    BY PathsAssumption
  <1>3. <<".claude", "plugins", "cache">> \in Seq(Names)
    BY <1>2, ThreeInSeq
  <1>4. Cache \in Seq(Names)
    BY <1>1, <1>3, ConcatInSeq DEF Cache
  <1> QED
    BY <1>4, PathLength DEF Path

LEMMA VersionDirIs ==
    ASSUME NEW q \in Plugins, NEW v \in Versions
    PROVE  /\ VersionDir(q, v) \in Path
           /\ Len(VersionDir(q, v)) = Len(Cache) + 3
           /\ VersionDir(q, v)[Len(Cache) + 1] = q[2]
           /\ VersionDir(q, v)[Len(Cache) + 2] = q[1]
           /\ \A i \in 1..Len(Cache) : VersionDir(q, v)[i] = Cache[i]
  <1> DEFINE u == <<q[2], q[1], v>>
  <1>1. q[1] \in Names /\ q[2] \in Names /\ v \in Names
    BY PathsAssumption
  <1>2. u \in Seq(Names) /\ Len(u) = 3
    BY <1>1, ThreeInSeq
  <1>3. u[1] = q[2] /\ u[2] = q[1] /\ 1 \in 1..3 /\ 2 \in 1..3
    OBVIOUS
  <1>4. Cache \in Seq(Names)
    BY CacheType DEF Path
  <1>5. VersionDir(q, v) = Cache \o u
    BY DEF VersionDir
  <1> HIDE DEF u
  <1>6. /\ Cache \o u \in Seq(Names) /\ Len(Cache \o u) = Len(Cache) + 3
        /\ \A i \in 1..Len(Cache) : (Cache \o u)[i] = Cache[i]
        /\ \A i \in 1..3 : (Cache \o u)[Len(Cache) + i] = u[i]
    BY <1>2, <1>4, ConcatInSeq, SMTT(30)
  <1>7. (Cache \o u)[Len(Cache) + 1] = q[2] /\ (Cache \o u)[Len(Cache) + 2] = q[1]
    BY <1>3, <1>6
  <1> QED
    BY <1>5, <1>6, <1>7 DEF Path

LEMMA ScriptsIs ==
    ASSUME NEW q \in Plugins, NEW v \in Versions
    PROVE  /\ Append(VersionDir(q, v), "scripts") \in Path
           /\ Len(Append(VersionDir(q, v), "scripts")) = Len(Cache) + 4
           /\ \A i \in 1..(Len(Cache) + 3) :
                  Append(VersionDir(q, v), "scripts")[i] = VersionDir(q, v)[i]
  <1>1. "scripts" \in Names
    BY PathsAssumption
  <1>2. VersionDir(q, v) \in Seq(Names) /\ Len(VersionDir(q, v)) = Len(Cache) + 3
    BY VersionDirIs DEF Path
  <1> QED
    BY <1>1, <1>2, AppendInSeq, CacheType DEF Path

\* A path is a prefix when it agrees component by component.
LEMMA PrefixByIndex ==
    ASSUME NEW s \in Path, NEW w \in Path
    PROVE  IsPrefix(s, w) <=> /\ Len(s) <= Len(w)
                              /\ \A i \in 1..Len(s) : s[i] = w[i]
  <1>1. ASSUME IsPrefix(s, w) PROVE \A i \in 1..Len(s) : s[i] = w[i]
    <2> TAKE i \in 1..Len(s)
    <2>1. SubSeq(s, 1, Len(s)) = SubSeq(w, 1, Len(s)) /\ Len(s) <= Len(w)
      BY <1>1 DEF IsPrefix
    <2>2. SubSeq(s, 1, Len(s))[i] = s[i] /\ SubSeq(w, 1, Len(s))[i] = w[i]
      BY <2>1 DEF Path
    <2> QED
      BY <2>1, <2>2
  <1>2. ASSUME Len(s) <= Len(w), \A i \in 1..Len(s) : s[i] = w[i]
        PROVE  SubSeq(s, 1, Len(s)) = SubSeq(w, 1, Len(s))
    BY <1>2 DEF Path
  <1> QED
    BY <1>1, <1>2 DEF IsPrefix

\* The plugin of a path below one of its versions is found, whichever version is
\* installed.
LEMMA PluginIsFound ==
    ASSUME installed \in [Plugins -> Versions], NEW q \in Plugins, NEW v \in Versions,
           NEW where \in {VersionDir(q, v), Append(VersionDir(q, v), "scripts")}
    PROVE  PluginId(where) = q
  <1> DEFINE c == Len(Cache)
  <1>1. /\ where \in Path /\ Len(where) \in Nat /\ Len(where) >= c + 3 /\ c \in Nat
        /\ \A i \in 1..(c + 3) : where[i] = VersionDir(q, v)[i]
    <2>1. CASE where = VersionDir(q, v)
      BY <2>1, VersionDirIs, CacheType
    <2>2. CASE where = Append(VersionDir(q, v), "scripts")
      BY <2>2, ScriptsIs, CacheType
    <2> QED
      BY <2>1, <2>2
  <1>2. where[c + 1] = q[2] /\ where[c + 2] = q[1] /\ \A i \in 1..c : where[i] = Cache[i]
    BY <1>1, VersionDirIs
  <1>3. ASSUME NEW r \in Plugins, IsPrefix(InstallPath(r), where) PROVE r = q
    <2>1. InstallPath(r) = VersionDir(r, installed[r]) /\ installed[r] \in Versions
      BY DEF InstallPath
    <2>2. /\ InstallPath(r) \in Path /\ Len(InstallPath(r)) = c + 3
          /\ InstallPath(r)[c + 1] = r[2] /\ InstallPath(r)[c + 2] = r[1]
      BY <2>1, VersionDirIs
    <2>3. InstallPath(r)[c + 1] = where[c + 1] /\ InstallPath(r)[c + 2] = where[c + 2]
      BY <1>1, <1>3, <2>2, PrefixByIndex
    <2>4. r[1] = q[1] /\ r[2] = q[2]
      BY <1>2, <2>2, <2>3
    <2> QED
      BY <2>4, PathsAssumption
  <1>4. ByRecord(where) \in {q, None}
    <2> DEFINE around == {r \in Plugins : IsPrefix(InstallPath(r), where)}
    <2>1. around \subseteq {q}
      BY <1>3
    <2>2. CASE around = {}
      BY <2>2 DEF ByRecord
    <2>3. CASE around # {}
      <3>1. around = {q}
        BY <2>1, <2>3
      <3>2. Len(InstallPath(q)) <= Len(InstallPath(q))
        BY VersionDirIs, CacheType DEF InstallPath
      <3>3. ByRecord(where) = CHOOSE r \in {q} : \A u \in {q} :
                                  Len(InstallPath(u)) <= Len(InstallPath(r))
        BY <3>1 DEF ByRecord
      <3> QED
        BY <3>2, <3>3
    <2> QED
      BY <2>2, <2>3
  <1>5. ByLayout(where) = q
    <2>1. IsPrefix(Cache, where)
      BY <1>1, <1>2, CacheType, PrefixByIndex
    <2>2. ByLayout(where) = <<where[c + 2], where[c + 1]>>
      BY <1>1, <2>1 DEF ByLayout
    <2>3. q = <<q[1], q[2]>>
      BY PathsAssumption
    <2> QED
      BY <1>2, <2>2, <2>3
  <1> QED
    BY <1>4, <1>5, NoneAssumption DEF PluginId

-----------------------------------------------------------------------------
(* Types.                                                                  *)

LEMMA SavedOptionsType ==
    ASSUME TypeOK, NEW p \in Procs
    PROVE  SavedOptions(p) \in OptionSets \cup {NoOptions}
  BY DEF TypeOK, SavedOptions

LEMMA FillSavedTypes ==
    ASSUME TypeOK, NEW p \in Procs, env[p] # None, FillSaved(p)
    PROVE  /\ saved' \in [Procs -> OptionSets \cup {NoOptions, None}]
           /\ read' \in [Procs -> SUBSET OptionSets]
  <1>1. Saved(p) \in OptionSets \cup {NoOptions, None}
    BY SavedOptionsType DEF TypeOK, Saved
  <1>2. env[p].plugin \in Plugins \cup {None}
    BY DEF TypeOK, Environments
  <1>3. env[p].plugin # None => settings[env[p].plugin] \in OptionSets
    BY <1>2 DEF TypeOK
  <1> QED
    BY <1>1, <1>3 DEF TypeOK, FillSaved

LEMMA SavedValueType ==
    ASSUME TypeOK, NEW p \in Procs, NEW o \in OptionNames, Saved(p) # None
    PROVE  Saved(p)[o] \in OptionValues
  BY SavedOptionsType, NoOptionsType, PathsAssumption, SMTT(30) DEF TypeOK, Saved

LEMMA SavedIsSome ==
    ASSUME NEW p \in Procs, TypeOK
    PROVE  Saved(p) # None
  BY SavedOptionsType, NoneAssumption DEF Saved

LEMMA InitTypes == Init => TypeOK
  <1> SUFFICES ASSUME Init PROVE TypeOK
    OBVIOUS
  <1>1. installed \in [Plugins -> Versions]
    BY PathsAssumption DEF Init
  <1>2. got \in [Threads -> [OptionNames -> OptionValues]]
    BY NoOptionsType DEF Init
  <1> QED
    BY <1>1, <1>2 DEF Init, TypeOK, Locations

LEMMA StartTypes ==
    ASSUME TypeOK, NEW p \in Procs, NEW e \in Environments, Start(p, e),
           read' \in [Procs -> SUBSET OptionSets]
    PROVE  TypeOK'
  BY DEF TypeOK, Start, world, caches, locals, Locations

\* A process starts with an environment of its kind, in a directory of its plugin.
StartsAs(p, q, e) ==
    /\ Start(p, e) /\ e.plugin = q
    /\ \/ e.where = Clone /\ e.options = NoOptions /\ read' = read /\ q = None
       \/ /\ q # None
          /\ \E v \in Versions :
                 e.where \in {VersionDir(q, v), Append(VersionDir(q, v), "scripts")}
          /\ \/ e.options = settings[q] /\ read' = [read EXCEPT ![p] = {settings[q]}]
             \/ e.options = NoOptions /\ read' = read

LEMMA HookStarts ==
    ASSUME TypeOK, NEW p \in Procs, NEW q \in Plugins, StartHook(p, q)
    PROVE  \E e \in Environments : StartsAs(p, q, e)
  <1>1. installed[q] \in Versions /\ settings[q] \in OptionSets
    BY DEF TypeOK
  <1>2. InstallPath(q) \in Path
    BY <1>1, VersionDirIs DEF InstallPath
  <1>3. PICK data \in Managed, project \in Projects, home \in {Home, None} :
            Start(p, [plugin |-> q, where |-> InstallPath(q), root |-> InstallPath(q),
                      data |-> data, project |-> project, home |-> home,
                      options |-> settings[q]])
    BY DEF StartHook
  <1> DEFINE e == [plugin |-> q, where |-> InstallPath(q), root |-> InstallPath(q),
                   data |-> data, project |-> project, home |-> home,
                   options |-> settings[q]]
  <1>4. project \in Path \cup {None}
    BY PathsAssumption
  <1>5. e \in Environments
    BY <1>1, <1>2, <1>4 DEF Environments
  <1>6. e.plugin = q /\ e.where = VersionDir(q, installed[q]) /\ e.options = settings[q]
    BY DEF InstallPath
  <1>7. read' = [read EXCEPT ![p] = {settings[q]}]
    BY DEF StartHook
  <1>8. Start(p, e)
    BY <1>3
  <1> HIDE DEF e
  <1> QED
    BY <1>1, <1>5, <1>6, <1>7, <1>8, NoneAssumption DEF StartsAs

LEMMA ScriptStarts ==
    ASSUME NEW p \in Procs, NEW q \in Plugins \cup {None}, NEW where \in Path,
           StartScript(p, q, where),
           \/ q = None /\ where = Clone
           \/ q # None /\ \E v \in Versions :
                  where \in {VersionDir(q, v), Append(VersionDir(q, v), "scripts")}
    PROVE  \E e \in Environments : StartsAs(p, q, e)
  <1> DEFINE e == [plugin |-> q, where |-> where, root |-> None, data |-> None,
                   project |-> None, home |-> None, options |-> NoOptions]
  <1>1. e \in Environments
    BY DEF Environments
  <1>2. e.plugin = q /\ e.where = where /\ e.options = NoOptions
    OBVIOUS
  <1>3. Start(p, e) /\ read' = read
    BY DEF StartScript
  <1> HIDE DEF e
  <1> QED
    BY <1>1, <1>2, <1>3 DEF StartsAs

\* What can happen, said once for the proofs below: somebody else's step, the
\* start of a process, or a step of one that has started.
LEMMA Steps ==
    ASSUME TypeOK, StartInv, [Next]_vars
    PROVE  \/ UNCHANGED <<shell, env, caches, locals, history>>
           \/ \E d \in Markable : Mark(d)
           \/ \E p \in Procs, q \in Plugins \cup {None}, e \in Environments :
                  StartsAs(p, q, e)
           \/ \E p \in Procs : OtherOption(p)
           \/ \E t \in Threads : /\ env[ProcOf(t)] # None
                                 /\ GetPaths(t) \/ Acquire(t) \/ Resolve(t)
  <1>1. ASSUME NEW q \in Plugins, EditSettings(q) \/ Upgrade(q)
        PROVE  UNCHANGED <<shell, env, caches, locals, history>>
    BY <1>1 DEF EditSettings, Upgrade, Edit, history
  <1>2. ASSUME NEW p \in Procs, NEW q \in Plugins,
               \/ StartHook(p, q)
               \/ \E v \in Versions :
                      StartScript(p, q, Append(VersionDir(q, v), "scripts"))
        PROVE  \E e \in Environments : StartsAs(p, q, e)
    <2>1. ASSUME NEW v \in Versions, StartScript(p, q, Append(VersionDir(q, v), "scripts"))
          PROVE  \E e \in Environments : StartsAs(p, q, e)
      BY <2>1, ScriptStarts, ScriptsIs, NoneAssumption
    <2> QED
      BY <1>2, <2>1, HookStarts
  <1>3. ASSUME NEW p \in Procs, StartScript(p, None, Clone)
        PROVE  \E e \in Environments : StartsAs(p, None, e)
    BY <1>3, ScriptStarts, PathsAssumption
  <1>4. ASSUME NEW t \in Threads, GetPaths(t) \/ Acquire(t) \/ Resolve(t)
        PROVE  env[ProcOf(t)] # None
    <2>1. CASE GetPaths(t)
      BY <2>1 DEF GetPaths
    <2>2. CASE Acquire(t) \/ Resolve(t)
      <3>1. pc[t] # "idle"
        BY <2>2, OptionNamesAre DEF Acquire, Resolve, AskOption, WalkOn, Publish
      <3> QED
        BY <3>1, ProcessOfThread DEF StartInv, NotStarted
    <2> QED
      BY <1>4, <2>1, <2>2
  <1>5. CASE UNCHANGED vars
    BY <1>5 DEF vars, world
  <1> QED
    BY <1>1, <1>2, <1>3, <1>4, <1>5 DEF Next

LEMMA AskOptionTypes ==
    ASSUME TypeOK, NEW t \in Threads, env[ProcOf(t)] # None, AskOption(t)
    PROVE  TypeOK'
  <1> DEFINE p == ProcOf(t)
             o == pc[t]
             value == IF env[p].options[o] # None THEN env[p].options[o] ELSE Saved(p)[o]
  <1>1. p \in Procs /\ o \in OptionNames /\ env[p] \in Environments
    BY ProcessOfThread DEF AskOption, TypeOK
  <1>2. env[p].options[o] \in OptionValues /\ env[p].project \in Path \cup {None}
    BY <1>1, NoOptionsType, PathsAssumption DEF Environments
  <1>3. value \in OptionValues
    BY <1>1, <1>2, SavedValueType, SavedIsSome
  <1>4. /\ saved' \in [Procs -> OptionSets \cup {NoOptions, None}]
        /\ read' \in [Procs -> SUBSET OptionSets]
    <2>1. CASE env[p].options[o] # None
      BY <2>1 DEF AskOption, TypeOK
    <2>2. CASE env[p].options[o] = None
      BY <1>1, <2>2, FillSavedTypes DEF AskOption
    <2> QED
      BY <2>1, <2>2
  <1>5. After[o] \in Locations
    BY <1>1, OptionNamesAre DEF After, Locations
  <1>6. /\ pc' \in [Threads -> Locations]
        /\ lock' \in [Procs -> Threads \cup {None}]
    BY <1>1, <1>5 DEF AskOption, TypeOK, Goto, AfterRaise, Locations
  <1>7. got' \in [Threads -> [OptionNames -> OptionValues]]
    <2>1. got' = got \/ got' = [got EXCEPT ![t][o] = value]
      BY DEF AskOption
    <2>2. [got EXCEPT ![t][o] = value] \in [Threads -> [OptionNames -> OptionValues]]
      BY <1>1, <1>3 DEF TypeOK
    <2> QED
      BY <2>1, <2>2 DEF TypeOK
  <1>8. /\ dir' \in [Threads -> Path \cup {None}]
        /\ ever' \in [Threads -> SUBSET Markable] /\ always' \in [Threads -> SUBSET Markable]
    <2>1. /\ dir' = dir \/ dir' = [dir EXCEPT ![t] = env[p].project]
          /\ \/ ever' = ever /\ always' = always
             \/ ever' = [ever EXCEPT ![t] = markers] /\ always' = [always EXCEPT ![t] = markers]
      BY DEF AskOption
    <2> QED
      BY <1>2, <2>1 DEF TypeOK
  <1>9. UNCHANGED <<world, env, cached, found, result>>
    BY DEF AskOption
  <1> QED
    BY <1>4, <1>6, <1>7, <1>8, <1>9 DEF TypeOK, world

LEMMA WalkOnTypes ==
    ASSUME TypeOK, NEW t \in Threads, WalkOn(t)
    PROVE  TypeOK'
  <1>1. /\ \/ found' = [found EXCEPT ![t] = None] /\ dir' = dir
           \/ found' = [found EXCEPT ![t] = dir[t]] /\ dir' = dir /\ dir[t] \in markers
           \/ found' = found /\ dir' = [dir EXCEPT ![t] = Front(dir[t])]
              /\ dir[t] # None /\ dir[t] # <<>>
        /\ pc' = pc \/ pc' = [pc EXCEPT ![t] = "data_dir"]
        /\ UNCHANGED <<world, env, caches, got, result, history>>
    BY DEF WalkOn, Goto, WalkEnds
  <1>2. pc' \in [Threads -> Locations]
    BY <1>1, OptionNamesAre DEF TypeOK, Locations
  <1>3. found' \in [Threads -> Markable \cup {None}]
    BY <1>1 DEF TypeOK
  <1>4. dir' \in [Threads -> Path \cup {None}]
    <2>1. ASSUME dir[t] \in Path, dir[t] # <<>> PROVE Front(dir[t]) \in Path
      BY <2>1 DEF Front, Path
    <2> QED
      BY <1>1, <2>1 DEF TypeOK
  <1> QED
    BY <1>1, <1>2, <1>3, <1>4 DEF TypeOK, world, caches, history

LEMMA PublishTypes ==
    ASSUME TypeOK, NEW t \in Threads, Publish(t)
    PROVE  TypeOK'
  <1>1. pc' \in [Threads -> Locations] /\ lock' \in [Procs -> Threads \cup {None}]
    BY DEF TypeOK, Publish, Goto, Locations
  <1> DEFINE value == Resolved(env[ProcOf(t)], got[t], found[t])
  <1>4. /\ cached' = [cached EXCEPT ![ProcOf(t)] = value]
        /\ result' = [result EXCEPT ![t] = cached'[ProcOf(t)]]
    BY DEF Publish, Gives
  <1> HIDE DEF value
  <1>5. cached' = [p \in Procs |-> cached'[p]]
    BY <1>4 DEF TypeOK
  <1>6. result' = [u \in Threads |-> result'[u]]
    <2>1. PICK v : result' = [result EXCEPT ![t] = v]
      BY <1>4
    <2> QED
      BY <2>1 DEF TypeOK
  <1>2. /\ got' \in [Threads -> [OptionNames -> OptionValues]]
        /\ dir' \in [Threads -> Path \cup {None}]
        /\ found' \in [Threads -> Markable \cup {None}]
        /\ ever' \in [Threads -> SUBSET Markable] /\ always' \in [Threads -> SUBSET Markable]
    BY NoOptionsType DEF TypeOK, Publish
  <1>3. UNCHANGED <<world, env, saved, read>>
    BY DEF Publish
  <1> QED
    BY <1>1, <1>2, <1>3, <1>5, <1>6 DEF TypeOK, world

LEMMA Types == ASSUME TypeOK, StartInv, [Next]_vars PROVE TypeOK'
  <1>1. ASSUME UNCHANGED <<shell, env, caches, locals, history>> PROVE TypeOK'
    <2>1. /\ settings' \in [Plugins -> OptionSets] /\ installed' \in [Plugins -> Versions]
          /\ markers' \in SUBSET Markable
      <3>1. /\ settings' = settings
               \/ \E q \in Plugins, o \in OptionSets : settings' = [settings EXCEPT ![q] = o]
            /\ installed' = installed
               \/ \E q \in Plugins, v \in Versions : installed' = [installed EXCEPT ![q] = v]
            /\ markers' \subseteq markers \cup Markable
        BY DEF Next, vars, world, EditSettings, Upgrade, Edit, Mark, StartHook, StartScript,
               Start, OtherOption, GetPaths, Acquire, Resolve, AskOption, WalkOn, Publish
      <3> QED
        BY <3>1 DEF TypeOK
    <2> QED
      BY <1>1, <2>1 DEF TypeOK, caches, locals, history
  <1>2. ASSUME NEW d \in Markable, Mark(d) PROVE TypeOK'
    <2>1. UNCHANGED <<settings, installed, shell, env, caches, locals, read>>
      BY <1>2 DEF Mark, Edit
    <2>2. /\ markers' \in SUBSET Markable /\ ever' \in [Threads -> SUBSET Markable]
          /\ always' \in [Threads -> SUBSET Markable]
      BY <1>2 DEF Mark, TypeOK
    <2> QED
      BY <2>1, <2>2 DEF TypeOK, caches, locals
  <1>3. ASSUME NEW p \in Procs, NEW q \in Plugins \cup {None}, NEW e \in Environments,
               StartsAs(p, q, e)
        PROVE  TypeOK'
    <2>1. \/ read' = read
          \/ q \in Plugins /\ read' = [read EXCEPT ![p] = {settings[q]}]
      BY <1>3 DEF StartsAs
    <2>2. read' \in [Procs -> SUBSET OptionSets]
      BY <2>1 DEF TypeOK
    <2> QED
      BY <1>3, <2>2, StartTypes DEF StartsAs
  <1>4. ASSUME NEW p \in Procs, OtherOption(p) PROVE TypeOK'
    <2>1. env[p] # None /\ FillSaved(p)
          /\ UNCHANGED <<world, env, cached, lock, locals, ever, always>>
      BY <1>4 DEF OtherOption
    <2> QED
      BY <2>1, FillSavedTypes DEF TypeOK, world, locals
  <1>5. ASSUME NEW t \in Threads, GetPaths(t) \/ Acquire(t) PROVE TypeOK'
    <2>1. UNCHANGED <<world, env, saved, cached, dir, found, history>>
      BY <1>5 DEF GetPaths, Acquire, caches
    <2>2. /\ pc' \in [Threads -> Locations] /\ lock' \in [Procs -> Threads \cup {None}]
      BY <1>5, OptionNamesAre, SMTT(30) DEF GetPaths, Acquire, Goto, TypeOK, Locations, caches
    <2>3. got' \in [Threads -> [OptionNames -> OptionValues]]
      BY <1>5, NoOptionsType DEF GetPaths, Acquire, TypeOK
    <2>4. result' = [u \in Threads |-> result'[u]]
      <3>1. result' = result \/ \E v : result' = [result EXCEPT ![t] = v]
        BY <1>5 DEF GetPaths, Acquire, Gives
      <3>2. ASSUME NEW v, result' = [result EXCEPT ![t] = v]
            PROVE  result' = [u \in Threads |-> result'[u]]
        BY <3>2 DEF TypeOK
      <3> QED
        BY <3>1, <3>2 DEF TypeOK
    <2> QED
      BY <2>1, <2>2, <2>3, <2>4 DEF TypeOK, world, history
  <1>6. ASSUME NEW t \in Threads, env[ProcOf(t)] # None, Resolve(t) PROVE TypeOK'
    BY <1>6, AskOptionTypes, WalkOnTypes, PublishTypes DEF Resolve
  <1> QED
    BY <1>1, <1>2, <1>3, <1>4, <1>5, <1>6, Steps

-----------------------------------------------------------------------------
(* One process at a time: the lock and the cache it guards.                *)

\* A step of a process leaves those that have not begun as they are.
LEMMA StartStep == ASSUME TypeOK, StartInv, [Next]_vars PROVE StartInv'
  <1> SUFFICES ASSUME NEW p \in Procs, env'[p] = None PROVE NotStarted(p)'
    BY DEF StartInv
  <1> USE ThreadOfProcess, ProcessOfThread DEF NotStarted
  <1>1. CASE UNCHANGED <<env, caches, locals, read>>
    BY <1>1 DEF StartInv, caches, locals
  <1>2. ASSUME NEW r \in Procs, NEW q, NEW e \in Environments, StartsAs(r, q, e)
        PROVE  NotStarted(p)'
    <2>1. p # r /\ env[p] = None
      BY <1>2, NoneAssumption DEF StartsAs, Start, TypeOK
    <2>2. read'[p] = read[p]
      BY <1>2, <2>1 DEF StartsAs, TypeOK
    <2> QED
      BY <1>2, <2>1, <2>2 DEF StartsAs, Start, caches, locals, StartInv, TypeOK
  <1>3. ASSUME NEW r \in Procs, OtherOption(r) PROVE NotStarted(p)'
    BY <1>3 DEF OtherOption, FillSaved, locals, StartInv, TypeOK
  <1>4. ASSUME NEW t \in Threads, env[ProcOf(t)] # None,
               GetPaths(t) \/ Acquire(t) \/ Resolve(t)
        PROVE  NotStarted(p)'
    <2>1. env[p] = None /\ ProcOf(t) # p /\ NotStarted(p)
      BY <1>4 DEF GetPaths, Acquire, Resolve, AskOption, WalkOn, Publish, StartInv
    <2>2. CASE GetPaths(t) \/ Acquire(t)
      BY <2>1, <2>2 DEF GetPaths, Acquire, Goto, caches, history, TypeOK
    <2>3. CASE AskOption(t)
      BY <2>1, <2>3 DEF AskOption, FillSaved, Goto, TypeOK
    <2>4. CASE WalkOn(t)
      BY <2>1, <2>4 DEF WalkOn, Goto, caches, history, TypeOK
    <2>5. CASE Publish(t)
      BY <2>1, <2>5 DEF Publish, Goto, TypeOK
    <2> QED
      BY <1>4, <2>2, <2>3, <2>4, <2>5 DEF Resolve
  <1>5. ASSUME NEW d \in Markable, Mark(d) PROVE NotStarted(p)'
    BY <1>1, <1>5 DEF Mark, Edit
  <1> QED
    BY <1>1, <1>2, <1>3, <1>4, <1>5, Steps DEF history

\* What LockInv says of one thread.
Locked(p, t) ==
    /\ pc[t] \notin Asking => lock[p] = t /\ cached[p] = None
    /\ result[t] # None => result[t] = cached[p]

LEMMA LockStep == ASSUME TypeOK, StartInv, LockInv, [Next]_vars PROVE LockInv'
  <1> SUFFICES ASSUME NEW p \in Procs, NEW t \in ThreadsOf[p] PROVE Locked(p, t)'
    BY DEF LockInv, Locked
  <1>1. t \in Threads /\ ProcOf(t) = p /\ t # None
    BY ThreadOfProcess
  <1>2. Locked(p, t)
    BY DEF LockInv, Locked
  <1>3. CASE UNCHANGED <<cached, lock, pc, result>>
    BY <1>2, <1>3 DEF Locked
  <1>4. ASSUME NEW u \in Threads, GetPaths(u) \/ Acquire(u) \/ Resolve(u)
        PROVE  Locked(p, t)'
    <2>1. ProcOf(u) \in Procs /\ u \in ThreadsOf[ProcOf(u)] /\ u # None
      BY ProcessOfThread, ThreadOfProcess
    <2>2. Locked(ProcOf(u), u)
      BY <2>1 DEF LockInv, Locked
    <2>3. CASE GetPaths(u)
      BY <1>1, <1>2, <2>1, <2>3
      DEF GetPaths, Gives, Goto, caches, Locked, Asking, TypeOK
    <2>4. CASE Acquire(u)
      BY <1>1, <1>2, <2>1, <2>4
      DEF Acquire, MustResolve, Gives, Goto, Locked, Asking, TypeOK
    <2>5. CASE AskOption(u)
      <3>1. pc[u] \notin Asking
        BY <2>5, OptionNamesAre DEF AskOption, Asking
      <3>2. pc'[t] \notin Asking => pc[t] \notin Asking
        BY <1>1, <2>1, <2>5, <3>1 DEF AskOption, Goto, TypeOK
      <3>3. \/ lock' = lock
            \/ lock' = [lock EXCEPT ![ProcOf(u)] = None] /\ pc' = [pc EXCEPT ![u] = "idle"]
        BY <2>5 DEF AskOption, Goto, AfterRaise
      <3>4. UNCHANGED <<cached, result>>
        BY <2>5 DEF AskOption
      <3> QED
        BY <1>1, <1>2, <2>1, <2>2, <3>1, <3>2, <3>3, <3>4 DEF Locked, Asking, TypeOK
    <2>6. CASE WalkOn(u)
      BY <1>1, <1>2, <2>1, <2>6 DEF WalkOn, Goto, caches, Locked, Asking, TypeOK
    <2>7. CASE Publish(u)
      <3>1. /\ pc[u] = "built" /\ pc' = [pc EXCEPT ![u] = "idle"]
            /\ lock' = [lock EXCEPT ![ProcOf(u)] = None]
            /\ result' = [result EXCEPT ![u] = cached'[ProcOf(u)]]
            /\ \E v : cached' = [cached EXCEPT ![ProcOf(u)] = v]
        BY <2>7 DEF Publish, Gives, Goto
      <3> QED
        BY <1>1, <1>2, <2>1, <2>2, <3>1 DEF Locked, Asking, TypeOK
    <2> QED
      BY <1>4, <2>3, <2>4, <2>5, <2>6, <2>7 DEF Resolve
  <1>5. ASSUME NEW r \in Procs, OtherOption(r) PROVE Locked(p, t)'
    BY <1>2, <1>5 DEF OtherOption, locals, Locked
  <1>6. ASSUME NEW r, NEW q, NEW e, StartsAs(r, q, e) PROVE Locked(p, t)'
    BY <1>3, <1>6 DEF StartsAs, Start, caches, locals
  <1>7. ASSUME NEW d, Mark(d) PROVE Locked(p, t)'
    BY <1>3, <1>7 DEF Mark, Edit, caches, locals
  <1> QED
    BY <1>3, <1>4, <1>5, <1>6, <1>7, Steps DEF caches, locals

-----------------------------------------------------------------------------
(* Where the options of a process come from.                               *)

LEMMA ToldIs ==
    /\ Told("idle") = {} /\ Told("waiting") = {} /\ Told("workspace_dir") = {}
    /\ Told("walk") = Told("data_dir") /\ Told("built") = OptionNames
    /\ \A o \in OptionNames : Told(After[o]) = Told(o) \cup {o}
  BY OptionNamesAre DEF Told, After

LEMMA ResolvedAgain ==
    ASSUME shell' = shell, NEW p \in Procs, env'[p] = env[p], NEW o, NEW m
    PROVE  Resolved(env[p], o, m)' = Resolved(env[p], o, m)
  BY DEF Resolved, DataDir, Configured

\* After a look into the settings the cached options are among those seen.
LEMMA Filled ==
    ASSUME TypeOK, NEW p \in Procs, env[p] # None, env[p].plugin # None,
           OptionsOfPlugin(p), FillSaved(p)
    PROVE  /\ saved'[p] \in read'[p] /\ saved'[p] = Saved(p) /\ read[p] \subseteq read'[p]
           /\ \A r \in Procs : r # p => saved'[r] = saved[r] /\ read'[r] = read[r]
  <1>1. saved' = [saved EXCEPT ![p] = Saved(p)]
    BY DEF FillSaved
  <1>2. CASE saved[p] # None
    BY <1>1, <1>2 DEF FillSaved, Saved, OptionsOfPlugin, TypeOK
  <1>3. CASE saved[p] = None
    <2>1. env[p].plugin \in Plugins
      BY DEF TypeOK, Environments
    <2>2. PluginId(env[p].where) = env[p].plugin
      BY <2>1, PluginIsFound DEF OptionsOfPlugin, TypeOK
    <2>3. Saved(p) = settings[env[p].plugin]
      BY <1>3, <2>1, <2>2 DEF Saved, SavedOptions
    <2>4. read' = [read EXCEPT ![p] = @ \cup {settings[env[p].plugin]}]
      BY <1>3 DEF FillSaved
    <2> QED
      BY <1>1, <2>3, <2>4 DEF TypeOK
  <1> QED
    BY <1>2, <1>3

\* A step that starts no process and publishes nothing: options told anew are
\* among those seen, and what is cached was resolved before.
LEMMA OptionsFrame ==
    ASSUME NEW p \in Procs, OptionsOfPlugin(p), env'[p] = env[p], shell' = shell,
           saved'[p] = saved[p] \/ saved'[p] \in read'[p],
           read[p] \subseteq read'[p], cached'[p] = cached[p],
           \A t \in ThreadsOf[p], n \in OptionNames : n \in Told(pc'[t]) =>
               \/ n \in Told(pc[t]) /\ got'[t][n] = got[t][n]
               \/ \E o \in read'[p] : got'[t][n] = o[n]
    PROVE  OptionsOfPlugin(p)'
  <1> DEFINE q == env[p].plugin
  <1>1. \E v \in Versions :
            env[p].where \in {VersionDir(q, v), Append(VersionDir(q, v), "scripts")}
    BY DEF OptionsOfPlugin
  <1>2. /\ env[p].options = NoOptions \/ env[p].options \in read'[p]
        /\ saved'[p] # None => saved'[p] \in read'[p]
    BY DEF OptionsOfPlugin
  <1>3. \A t \in ThreadsOf[p], n \in OptionNames :
            n \in Told(pc'[t]) => \E o \in read'[p] : got'[t][n] = o[n]
    BY DEF OptionsOfPlugin
  <1>4. ASSUME cached[p] # None
        PROVE  /\ read'[p] # {}
               /\ \A o \in OptionSets : read'[p] = {o} =>
                     \E m \in Markable \cup {None} : cached[p] = Resolved(env[p], o, m)'
    <2>1. read[p] # {}
      BY <1>4 DEF OptionsOfPlugin
    <2>2. ASSUME NEW o \in OptionSets, read'[p] = {o}
          PROVE  \E m \in Markable \cup {None} : cached[p] = Resolved(env[p], o, m)'
      <3>1. read[p] = {o}
        BY <2>1, <2>2
      <3>2. PICK m \in Markable \cup {None} : cached[p] = Resolved(env[p], o, m)
        BY <1>4, <3>1 DEF OptionsOfPlugin
      <3>3. Resolved(env[p], o, m)' = Resolved(env[p], o, m)
        BY ResolvedAgain
      <3> QED
        BY <3>2, <3>3
    <2> QED
      BY <2>1, <2>2
  <1> QED
    BY <1>1, <1>2, <1>3, <1>4 DEF OptionsOfPlugin, VersionDir, Cache, Told

LEMMA OptionsOfNewProcess ==
    ASSUME TypeOK, StartInv, NEW p \in Procs, NEW q \in Plugins, NEW e \in Environments,
           StartsAs(p, q, e)
    PROVE  OptionsOfPlugin(p)'
  <1>1. env'[p] = e /\ e.plugin = q
    BY DEF StartsAs, Start, TypeOK
  <1>2. NotStarted(p) /\ UNCHANGED <<saved, cached, pc>>
    BY DEF StartsAs, Start, StartInv, caches, locals
  <1>3. \E v \in Versions :
            e.where \in {VersionDir(q, v), Append(VersionDir(q, v), "scripts")}
    BY NoneAssumption DEF StartsAs
  <1>4. e.options = NoOptions \/ e.options \in read'[p]
    BY DEF StartsAs, TypeOK
  <1>5. \A t \in ThreadsOf[p] : Told(pc'[t]) = {}
    BY <1>2, ToldIs DEF NotStarted
  <1> QED
    BY <1>1, <1>2, <1>3, <1>4, <1>5 DEF OptionsOfPlugin, NotStarted, VersionDir, Cache, Told

\* A thread that asks for an option, of a process that OptionsInv is about.
LEMMA OptionsAsked ==
    ASSUME TypeOK, NEW t \in Threads, AskOption(t), env[ProcOf(t)] # None,
           env[ProcOf(t)].plugin # None, OptionsOfPlugin(ProcOf(t))
    PROVE  OptionsOfPlugin(ProcOf(t))'
  <1> DEFINE p == ProcOf(t)
             o == pc[t]
             value == IF env[p].options[o] # None THEN env[p].options[o] ELSE Saved(p)[o]
  <1>1. p \in Procs /\ o \in OptionNames /\ t \in ThreadsOf[p]
    BY ProcessOfThread DEF AskOption
  <1>2. /\ saved'[p] = saved[p] \/ saved'[p] \in read'[p]
        /\ read[p] \subseteq read'[p]
        /\ \E seen \in read'[p] : value = seen[o]
    <2>1. CASE env[p].options[o] # None
      <3>1. env[p].options # NoOptions
        BY <1>1, <2>1, OptionNamesAre DEF NoOptions
      <3>2. env[p].options \in read[p]
        BY <3>1 DEF OptionsOfPlugin
      <3>3. saved' = saved /\ read' = read
        BY <2>1 DEF AskOption
      <3> QED
        BY <2>1, <3>2, <3>3
    <2>2. CASE env[p].options[o] = None
      BY <1>1, <2>2, Filled DEF AskOption
    <2> QED
      BY <2>1, <2>2
  <1>3. UNCHANGED <<world, env, cached>>
    BY DEF AskOption
  <1>4. \/ pc' = [pc EXCEPT ![t] = "idle"] /\ got' = got
        \/ pc' = [pc EXCEPT ![t] = After[o]] /\ got' = [got EXCEPT ![t][o] = value]
    BY DEF AskOption, Goto
  <1> HIDE DEF value
  <1>5. ASSUME NEW u \in ThreadsOf[p], NEW n \in OptionNames, n \in Told(pc'[u])
        PROVE  \/ n \in Told(pc[u]) /\ got'[u][n] = got[u][n]
               \/ \E seen \in read'[p] : got'[u][n] = seen[n]
    <2>1. u \in Threads
      BY <1>1, ThreadOfProcess
    <2>2. CASE u # t
      BY <1>4, <1>5, <2>1, <2>2 DEF TypeOK
    <2>3. CASE u = t /\ pc' = [pc EXCEPT ![t] = "idle"]
      BY <1>5, <2>3, ToldIs DEF TypeOK
    <2>4. CASE u = t /\ pc' = [pc EXCEPT ![t] = After[o]]
                     /\ got' = [got EXCEPT ![t][o] = value]
      <3>1. n \in Told(o) \cup {o}
        BY <1>1, <1>5, <2>4, ToldIs DEF TypeOK
      <3>2. got'[t][o] = value /\ (n # o => got'[t][n] = got[t][n])
        BY <1>1, <2>4 DEF TypeOK
      <3> QED
        BY <1>2, <2>4, <3>1, <3>2
    <2> QED
      BY <1>4, <2>2, <2>3, <2>4
  <1> QED
    BY <1>1, <1>2, <1>3, <1>5, OptionsFrame DEF world

\* What is published was resolved from options that were seen.
LEMMA OptionsPublished ==
    ASSUME TypeOK, NEW t \in Threads, Publish(t), OptionsOfPlugin(ProcOf(t))
    PROVE  OptionsOfPlugin(ProcOf(t))'
  <1> DEFINE p == ProcOf(t)
  <1>1. p \in Procs /\ t \in ThreadsOf[p] /\ pc[t] = "built"
    BY ProcessOfThread DEF Publish
  <1>2. /\ cached'[p] = Resolved(env[p], got[t], found[t])
        /\ pc' = [pc EXCEPT ![t] = "idle"] /\ got' = [got EXCEPT ![t] = NoOptions]
        /\ UNCHANGED <<shell, env, saved, read>>
    <2>1. cached' = [cached EXCEPT ![p] = Resolved(env[p], got[t], found[t])]
      BY DEF Publish
    <2> HIDE DEF p
    <2>2. cached'[p] = Resolved(env[p], got[t], found[t])
      BY <1>1, <2>1 DEF TypeOK
    <2> QED
      BY <2>2 DEF Publish, Goto, world, p
  <1>3. \A n \in OptionNames : \E o \in read[p] : got[t][n] = o[n]
    BY <1>1, ToldIs DEF OptionsOfPlugin
  <1>4. read[p] # {}
    BY <1>3, OptionNamesAre
  <1>5. ASSUME NEW o \in OptionSets, read[p] = {o}
        PROVE  \E m \in Markable \cup {None} : cached'[p] = Resolved(env[p], o, m)'
    <2>1. \A n \in OptionNames : got[t][n] = o[n]
      BY <1>3, <1>5
    <2>2. got[t] = o
      BY <2>1, PathsAssumption DEF TypeOK
    <2>3. found[t] \in Markable \cup {None}
      BY DEF TypeOK
    <2>4. PICK m \in Markable \cup {None} : cached'[p] = Resolved(env[p], o, m)
      BY <1>2, <2>2, <2>3
    <2>5. Resolved(env[p], o, m)' = Resolved(env[p], o, m)
      BY <1>1, <1>2, ResolvedAgain
    <2> QED
      BY <2>4, <2>5
  <1>6. \A u \in ThreadsOf[p], n \in OptionNames :
            n \in Told(pc'[u]) => \E o \in read[p] : got'[u][n] = o[n]
    <2> TAKE u \in ThreadsOf[p], n \in OptionNames
    <2>1. u \in Threads
      BY <1>1, ThreadOfProcess
    <2>2. CASE u = t
      BY <1>2, <2>1, <2>2, ToldIs DEF TypeOK
    <2>3. CASE u # t
      BY <1>2, <2>1, <2>3 DEF TypeOK, OptionsOfPlugin
    <2> QED
      BY <2>2, <2>3
  <1> QED
    BY <1>2, <1>4, <1>5, <1>6 DEF OptionsOfPlugin, VersionDir, Cache, Told

LEMMA OptionsStep ==
    ASSUME TypeOK, StartInv, LockInv, OptionsInv, [Next]_vars PROVE OptionsInv'
  <1> SUFFICES ASSUME NEW p \in Procs, env'[p] # None, env'[p].plugin # None
               PROVE  OptionsOfPlugin(p)'
    BY DEF OptionsInv
  <1>1. ASSUME env'[p] = env[p] PROVE OptionsOfPlugin(p)
    BY <1>1 DEF OptionsInv
  <1>2. ASSUME UNCHANGED <<shell, env, caches, locals, read>> PROVE OptionsOfPlugin(p)'
    BY <1>1, <1>2, OptionsFrame DEF caches, locals
  <1>3. ASSUME NEW d \in Markable, Mark(d) PROVE OptionsOfPlugin(p)'
    BY <1>2, <1>3 DEF Mark, Edit
  <1>4. ASSUME NEW r \in Procs, NEW q \in Plugins \cup {None}, NEW e \in Environments,
               StartsAs(r, q, e)
        PROVE  OptionsOfPlugin(p)'
    <2>1. CASE r = p
      <3>1. e.plugin = q /\ env'[p] = e
        BY <1>4, <2>1 DEF StartsAs, Start, TypeOK
      <3> QED
        BY <1>4, <2>1, <3>1, OptionsOfNewProcess
    <2>2. CASE r # p
      <3>1. env'[p] = env[p] /\ UNCHANGED <<shell, caches, locals>>
        BY <1>4, <2>2 DEF StartsAs, Start, world, TypeOK
      <3>2. read'[p] = read[p]
        BY <1>4, <2>2 DEF StartsAs, TypeOK
      <3> QED
        BY <1>1, <3>1, <3>2, OptionsFrame DEF caches, locals
    <2> QED
      BY <2>1, <2>2
  <1>5. ASSUME NEW r \in Procs, OtherOption(r) PROVE OptionsOfPlugin(p)'
    <2>1. UNCHANGED <<shell, env, cached, pc, got>> /\ env[r] # None /\ FillSaved(r)
      BY <1>5 DEF OtherOption, world, locals
    <2>2. /\ saved'[p] = saved[p] \/ saved'[p] \in read'[p]
          /\ read[p] \subseteq read'[p]
      <3>1. CASE r = p
        BY <1>1, <2>1, <3>1, Filled
      <3>2. CASE r # p
        BY <2>1, <3>2 DEF FillSaved, TypeOK
      <3> QED
        BY <3>1, <3>2
    <2> QED
      BY <1>1, <2>1, <2>2, OptionsFrame
  <1>6. ASSUME NEW t \in Threads, env[ProcOf(t)] # None,
               GetPaths(t) \/ Acquire(t) \/ Resolve(t)
        PROVE  OptionsOfPlugin(p)'
    <2> DEFINE r == ProcOf(t)
    <2>1. env' = env /\ shell' = shell /\ OptionsOfPlugin(p)
      BY <1>1, <1>6
      DEF GetPaths, Acquire, Resolve, AskOption, WalkOn, Publish, world
    <2>2. r \in Procs /\ \A u \in ThreadsOf[p] : u \in Threads /\ (u = t => p = r)
      BY ProcessOfThread, ThreadOfProcess
    <2>3. CASE GetPaths(t) \/ Acquire(t)
      <3>1. UNCHANGED <<saved, cached, read>>
        BY <2>3 DEF GetPaths, Acquire, caches, history
      <3>2. \/ pc' = pc /\ got' = got
            \/ /\ \E to \in {"idle", "waiting", "workspace_dir"} : pc' = [pc EXCEPT ![t] = to]
               /\ got' = got \/ got' = [got EXCEPT ![t] = NoOptions]
        BY <2>3 DEF GetPaths, Acquire, Goto
      <3>3. ASSUME NEW u \in ThreadsOf[p], NEW n \in OptionNames, n \in Told(pc'[u])
            PROVE  n \in Told(pc[u]) /\ got'[u][n] = got[u][n]
        BY <2>2, <3>2, <3>3, ToldIs DEF TypeOK
      <3> QED
        BY <2>1, <3>1, <3>3, OptionsFrame
    <2>4. CASE WalkOn(t)
      <3>1. UNCHANGED <<saved, cached, read, got>>
        BY <2>4 DEF WalkOn, caches, history
      <3>2. pc' = pc \/ (pc[t] = "walk" /\ pc' = [pc EXCEPT ![t] = "data_dir"])
        BY <2>4 DEF WalkOn, Goto
      <3>3. ASSUME NEW u \in ThreadsOf[p], NEW n \in OptionNames, n \in Told(pc'[u])
            PROVE  n \in Told(pc[u]) /\ got'[u][n] = got[u][n]
        BY <2>2, <3>1, <3>2, <3>3, ToldIs DEF TypeOK
      <3> QED
        BY <2>1, <3>1, <3>3, OptionsFrame
    <2>5. CASE (AskOption(t) \/ Publish(t)) /\ r = p
      BY <1>6, <2>1, <2>5, OptionsAsked, OptionsPublished
    <2>6. CASE (AskOption(t) \/ Publish(t)) /\ r # p
      <3>1. saved'[p] = saved[p] /\ read'[p] = read[p] /\ cached'[p] = cached[p]
        BY <2>6 DEF AskOption, Publish, FillSaved, TypeOK
      <3>2. \A u \in ThreadsOf[p] : pc'[u] = pc[u] /\ got'[u] = got[u]
        BY <2>2, <2>6 DEF AskOption, Publish, Goto, TypeOK
      <3> QED
        BY <2>1, <3>1, <3>2, OptionsFrame
    <2> QED
      BY <1>6, <2>3, <2>4, <2>5, <2>6 DEF Resolve
  <1> QED
    BY <1>2, <1>3, <1>4, <1>5, <1>6, Steps DEF history

-----------------------------------------------------------------------------
(* The walk.                                                               *)

\* A marker counts when it lies on the project's path, not too far up, and below
\* $HOME if the walk stops there.
LEMMA EligibleIs ==
    ASSUME NEW e, NEW project \in Path, e.project = project, NEW m \in Path
    PROVE  m \in Eligible(e) <=>
               /\ m = SubSeq(project, 1, Len(m)) /\ Len(m) <= Len(project)
               /\ Len(project) - Len(m) < MaxDepth
               /\ StopsAtHome(e) => ~IsPrefix(m, Home)
  <1>1. ASSUME NEW n \in 0..Len(project) PROVE Len(SubSeq(project, 1, n)) = n
    BY <1>1 DEF Path
  <1>2. Len(m) \in Nat /\ Len(project) \in Nat
    BY PathLength
  <1>3. ASSUME m \in Eligible(e)
        PROVE  /\ m = SubSeq(project, 1, Len(m)) /\ Len(m) <= Len(project)
               /\ Len(project) - Len(m) < MaxDepth
               /\ StopsAtHome(e) => ~IsPrefix(m, Home)
    <2>1. PICK n \in 0..Len(project) :
              /\ m = SubSeq(project, 1, n) /\ Len(project) - n < MaxDepth
              /\ StopsAtHome(e) => ~IsPrefix(SubSeq(project, 1, n), Home)
      BY <1>3 DEF Eligible
    <2>2. Len(m) = n
      BY <1>1, <2>1, SMTT(30)
    <2> QED
      BY <1>2, <2>1, <2>2
  <1>4. ASSUME m = SubSeq(project, 1, Len(m)), Len(m) <= Len(project),
               Len(project) - Len(m) < MaxDepth,
               StopsAtHome(e) => ~IsPrefix(m, Home)
        PROVE  m \in Eligible(e)
    <2>1. Len(m) \in 0..Len(project)
      BY <1>2, <1>4
    <2> QED
      BY <1>4, <2>1 DEF Eligible
  <1> QED
    BY <1>3, <1>4

\* Two directories on one path are told apart by their lengths, and $HOME is one
\* when the project lies below it.
LEMMA HomeOnPath ==
    ASSUME NEW project \in Path, IsPrefix(Home, project)
    PROVE  /\ Home = SubSeq(project, 1, Len(Home)) /\ Len(Home) <= Len(project)
           /\ \A m \in Path : m = SubSeq(project, 1, Len(m)) =>
                  (Len(m) <= Len(Home) => IsPrefix(m, Home))
  <1>1. Home \in Path /\ Len(Home) \in Nat /\ Len(project) \in Nat
    BY PathsAssumption, PathLength
  <1>2. SubSeq(Home, 1, Len(Home)) = Home
    BY <1>1 DEF Path
  <1>3. Home = SubSeq(project, 1, Len(Home)) /\ Len(Home) <= Len(project)
    BY <1>2 DEF IsPrefix
  <1>4. ASSUME NEW m \in Path, m = SubSeq(project, 1, Len(m)), Len(m) <= Len(Home)
        PROVE  IsPrefix(m, Home)
    <2>1. Len(m) \in Nat
      BY PathLength
    <2>2. \A i \in 1..Len(Home) : Home[i] = project[i]
      BY <1>1, PrefixByIndex
    <2>3. \A i \in 1..Len(m) : m[i] = project[i]
      <3> TAKE i \in 1..Len(m)
      <3>1. SubSeq(project, 1, Len(m))[i] = project[i]
        BY <1>1, <1>3, <1>4, <2>1 DEF Path
      <3> QED
        BY <1>4, <3>1
    <2> QED
      BY <1>1, <1>4, <2>1, <2>2, <2>3, PrefixByIndex
  <1> QED
    BY <1>3, <1>4

LEMMA PrefixOfPath ==
    ASSUME NEW project \in Path, NEW d \in Path, d = SubSeq(project, 1, Len(d)),
           Len(d) <= Len(project)
    PROVE  IsPrefix(d, project)
  <1>1. SubSeq(d, 1, Len(d)) = d
    BY DEF Path
  <1> QED
    BY <1>1 DEF IsPrefix

LEMMA LongPrefix ==
    ASSUME NEW d \in Path, IsPrefix(d, Home), Len(Home) <= Len(d)
    PROVE  d = Home
  <1>1. Len(d) = Len(Home) /\ SubSeq(d, 1, Len(d)) = SubSeq(Home, 1, Len(d))
    BY PathsAssumption, PathLength DEF IsPrefix
  <1>2. SubSeq(d, 1, Len(d)) = d /\ SubSeq(Home, 1, Len(Home)) = Home
    BY PathsAssumption DEF Path
  <1> QED
    BY <1>1, <1>2

LEMMA ParentOnPath ==
    ASSUME NEW project \in Path, NEW d \in Path, d # <<>>,
           d = SubSeq(project, 1, Len(d)), Len(d) <= Len(project)
    PROVE  /\ Front(d) \in Path /\ Len(Front(d)) = Len(d) - 1 /\ Len(d) > 0
           /\ Front(d) = SubSeq(project, 1, Len(Front(d)))
  <1>1. Len(d) \in Nat /\ Len(project) \in Nat /\ Len(d) > 0
    BY DEF Path
  <1>2. Front(d) \in Path /\ Len(Front(d)) = Len(d) - 1
    BY <1>1 DEF Front, Path
  <1>3. Front(d) = SubSeq(project, 1, Len(d) - 1)
    <2>1. \A i \in 1..(Len(d) - 1) : Front(d)[i] = d[i] /\ d[i] = project[i]
      <3> TAKE i \in 1..(Len(d) - 1)
      <3>1. Front(d)[i] = d[i]
        BY <1>1 DEF Front, Path
      <3>2. SubSeq(project, 1, Len(d))[i] = project[i]
        BY <1>1 DEF Path
      <3> QED
        BY <3>1, <3>2
    <2>2. /\ SubSeq(project, 1, Len(d) - 1) \in Path
          /\ Len(SubSeq(project, 1, Len(d) - 1)) = Len(d) - 1
          /\ \A i \in 1..(Len(d) - 1) : SubSeq(project, 1, Len(d) - 1)[i] = project[i]
      BY <1>1 DEF Path
    <2> QED
      BY <1>2, <2>1, <2>2 DEF Path
  <1> QED
    BY <1>1, <1>2, <1>3

\* One look of the walk: on to the parent, or an end with or without a marker.
LEMMA WalkGoesUp ==
    ASSUME NEW e, NEW project \in Path, e.project = project,
           NEW d \in Path, NEW seen \in SUBSET Path,
           WalkAt(e, d, seen), ~WalkEnds(e, d), d \notin seen, d # <<>>
    PROVE  WalkAt(e, Front(d), seen)
  <1>1. /\ d = SubSeq(project, 1, Len(d)) /\ Len(d) <= Len(project)
        /\ StopsAtHome(e) => Len(Home) <= Len(d)
        /\ \A m \in seen \cap Eligible(e) : Len(m) <= Len(d)
    BY NoneAssumption, SMTT(30) DEF WalkAt
  <1>2. /\ Front(d) \in Path /\ Len(Front(d)) = Len(d) - 1 /\ Len(d) > 0
        /\ Front(d) = SubSeq(project, 1, Len(Front(d)))
    BY <1>1, ParentOnPath
  <1>3. Len(d) \in Nat /\ Len(project) \in Nat /\ Len(Home) \in Nat
    BY PathLength, PathsAssumption
  <1>4. StopsAtHome(e) => Len(Home) <= Len(Front(d))
    <2>1. ASSUME StopsAtHome(e) PROVE d # Home /\ IsPrefix(Home, project)
      BY <2>1 DEF WalkEnds, StopsAtHome
    <2>2. ASSUME StopsAtHome(e) PROVE Len(Home) # Len(d)
      BY <1>1, <2>1, <2>2, HomeOnPath, SMTT(30)
    <2> QED
      BY <1>1, <1>2, <1>3, <2>2
  <1>5. ASSUME NEW m \in seen \cap Eligible(e) PROVE Len(m) <= Len(Front(d))
    <2>1. m = SubSeq(project, 1, Len(m)) /\ Len(m) \in Nat
      BY EligibleIs, PathLength
    <2>2. Len(m) # Len(d) /\ Len(m) <= Len(d)
      BY <1>1, <2>1
    <2>3. Len(m) <= Len(d) - 1
      BY <1>3, <2>1, <2>2
    <2> QED
      BY <1>2, <2>3
  <1> QED
    BY <1>2, <1>3, <1>1, <1>4, <1>5, NoneAssumption DEF WalkAt

LEMMA WalkStops ==
    ASSUME NEW e, NEW project \in Path \cup {None}, e.project = project,
           e.home \in {Home, None}, NEW d \in Path \cup {None},
           NEW some, NEW seen \in SUBSET Path, WalkAt(e, d, seen),
           WalkEnds(e, d) \/ (d = <<>> /\ d \notin seen)
    PROVE  WalkEnded(e, None, some, seen)
  <1>1. CASE project = None
    BY <1>1 DEF WalkEnded
  <1>2. CASE project # None
    <2>1. /\ d = SubSeq(project, 1, Len(d)) /\ Len(d) <= Len(project)
          /\ StopsAtHome(e) => Len(Home) <= Len(d)
          /\ \A m \in seen \cap Eligible(e) : Len(m) <= Len(d)
          /\ d \in Path /\ project \in Path
      BY <1>2 DEF WalkAt
    <2>2. Len(d) \in Nat /\ Len(project) \in Nat
      BY <2>1, PathLength
    <2>3. ASSUME NEW m \in seen \cap Eligible(e) PROVE FALSE
      <3>1. /\ m = SubSeq(project, 1, Len(m)) /\ Len(m) <= Len(project)
            /\ Len(project) - Len(m) < MaxDepth
            /\ StopsAtHome(e) => ~IsPrefix(m, Home)
            /\ Len(m) <= Len(d) /\ Len(m) \in Nat /\ m \in Path
        BY <2>1, EligibleIs, PathLength
      <3>2. CASE d = e.home
        <4>1. d = Home /\ IsPrefix(Home, project) /\ StopsAtHome(e)
          BY <2>1, <3>2, PrefixOfPath, NoneAssumption DEF StopsAtHome
        <4> QED
          BY <2>1, <3>1, <3>2, <4>1, HomeOnPath
      <3>3. CASE Len(project) - Len(d) >= MaxDepth
        BY <2>2, <3>1, <3>3, PathsAssumption
      <3>4. CASE d = <<>> /\ d \notin seen
        BY <3>1, <3>4 DEF Path
      <3> QED
        BY <1>2, <3>2, <3>3, <3>4 DEF WalkEnds, WalkAt
    <2> QED
      BY <1>2, <2>3 DEF WalkEnded
  <1> QED
    BY <1>1, <1>2

LEMMA WalkFinds ==
    ASSUME NEW e, NEW project \in Path \cup {None}, e.project = project,
           e.home \in {Home, None}, NEW d \in Path, NEW some \in SUBSET Path,
           NEW seen \in SUBSET Path, WalkAt(e, d, seen), ~WalkEnds(e, d),
           d \in some
    PROVE  WalkEnded(e, d, some, seen)
  <1>1. /\ d = SubSeq(project, 1, Len(d)) /\ Len(d) <= Len(project)
        /\ StopsAtHome(e) => Len(Home) <= Len(d)
        /\ \A m \in seen \cap Eligible(e) : Len(m) <= Len(d)
        /\ project \in Path
    BY NoneAssumption DEF WalkAt
  <1>2. d # e.home /\ Len(project) - Len(d) < MaxDepth
    BY <1>1, PathLength, PathsAssumption DEF WalkEnds
  <1>3. StopsAtHome(e) => ~IsPrefix(d, Home)
    BY <1>1, <1>2, LongPrefix DEF StopsAtHome
  <1>4. d \in Eligible(e)
    BY <1>1, <1>2, <1>3, EligibleIs
  <1> QED
    BY <1>1, <1>4, NoneAssumption DEF WalkEnded

\* A marker that comes or goes.
LEMMA WalkDisturbed ==
    ASSUME TypeOK, NEW d \in Markable, Mark(d), NEW t \in Threads, Walking(t)
    PROVE  Walking(t)'
  <1>1. /\ UNCHANGED <<env, pc, dir, found>>
        /\ always'[t] = always[t] \ {d}
        /\ ever'[t] = IF pc[t] = "walk" THEN ever[t] \cup {d} ELSE ever[t]
        /\ markers' = IF d \in markers THEN markers \ {d} ELSE markers \cup {d}
    BY DEF Mark, Edit, locals, TypeOK
  <1>2. CASE pc[t] = "walk"
    <2>1. always'[t] \subseteq markers' /\ markers' \subseteq ever'[t]
      BY <1>1, <1>2 DEF Walking
    <2>2. WalkAt(env[ProcOf(t)], dir[t], always'[t])
      BY <1>1, <1>2 DEF Walking, WalkAt
    <2> QED
      BY <1>1, <1>2, <2>1, <2>2 DEF Walking, WalkAt, Walked, Eligible, StopsAtHome
  <1>3. CASE pc[t] \in Walked
    <2>1. WalkEnded(env[ProcOf(t)], found[t], ever'[t], always'[t])
      BY <1>1, <1>3 DEF Walking, WalkEnded, Walked
    <2> QED
      BY <1>1, <1>3, <2>1 DEF Walking, WalkEnded, Walked, Eligible, StopsAtHome
  <1> QED
    BY <1>1, <1>2, <1>3 DEF Walking

\* A thread keeps its walk while its place, its process and the markers stay.
LEMMA WalkingNext ==
    ASSUME NEW t \in Threads
    PROVE  LET e == env'[ProcOf(t)]
           IN Walking(t)' <=>
                /\ pc'[t] = "walk" =>
                      /\ always'[t] \subseteq markers' /\ markers' \subseteq ever'[t]
                      /\ WalkAt(e, dir'[t], always'[t])
                /\ pc'[t] \in Walked => WalkEnded(e, found'[t], ever'[t], always'[t])
  BY DEF Walking, WalkAt, WalkEnded, Walked, Eligible, StopsAtHome, ProcOf

LEMMA WalkFrame ==
    ASSUME NEW t \in Threads, Walking(t),
           markers' = markers, env'[ProcOf(t)] = env[ProcOf(t)], pc'[t] = pc[t],
           dir'[t] = dir[t], found'[t] = found[t], ever'[t] = ever[t], always'[t] = always[t]
    PROVE  Walking(t)'
  BY WalkingNext DEF Walking

\* The walk of the thread that makes a step.
LEMMA WalkOfThread ==
    ASSUME TypeOK, NEW t \in Threads, env[ProcOf(t)] # None, Walking(t),
           GetPaths(t) \/ Acquire(t) \/ Resolve(t)
    PROVE  Walking(t)'
  <1> DEFINE e == env[ProcOf(t)]
             project == e.project
  <1>1. /\ project \in Path \cup {None} /\ dir[t] \in Path \cup {None}
        /\ e.home \in {Home, None}
        /\ ever[t] \in SUBSET Path /\ always[t] \in SUBSET Path /\ markers \in SUBSET Path
    BY ProcessOfThread, PathsAssumption DEF TypeOK, Environments
  <1>2. env' = env /\ markers' = markers
    BY DEF GetPaths, Acquire, Resolve, AskOption, WalkOn, Publish, world
  <1>3. CASE GetPaths(t) \/ Acquire(t) \/ Publish(t)
    <2>1. pc'[t] \in {"idle", "waiting", "workspace_dir"}
      BY <1>3 DEF GetPaths, Acquire, Publish, Goto, TypeOK
    <2> QED
      BY <2>1, WalkingNext DEF Walked
  <1>4. CASE AskOption(t)
    <2>1. pc[t] \in OptionNames /\ UNCHANGED found
      BY <1>4 DEF AskOption
    <2>2. CASE pc'[t] = "idle"
      BY <2>2, WalkingNext DEF Walked
    <2>3. CASE pc[t] = "workspace_dir" /\ pc'[t] # "idle"
      <3>1. /\ pc'[t] = "walk" /\ dir'[t] = project
            /\ ever'[t] = markers /\ always'[t] = markers
        BY <1>4, <2>3 DEF AskOption, Goto, After, TypeOK
      <3>2. WalkAt(e, project, markers)
        <4>1. ASSUME project \in Path
              PROVE  /\ project = SubSeq(project, 1, Len(project)) /\ Len(project) \in Nat
                     /\ StopsAtHome(e) => Len(Home) <= Len(project)
          BY <4>1 DEF Path, IsPrefix, StopsAtHome
        <4>2. ASSUME project \in Path, NEW m \in markers \cap Eligible(e)
              PROVE  Len(m) <= Len(project)
          BY <1>1, <4>2, EligibleIs
        <4> QED
          BY <1>1, <4>1, <4>2 DEF WalkAt
      <3> QED
        BY <1>2, <3>1, <3>2, WalkingNext DEF Walking, Walked
    <2>4. CASE pc[t] # "workspace_dir" /\ pc'[t] # "idle"
      <3>1. pc[t] \in Walked /\ pc'[t] \in Walked
        BY <1>4, <2>4, OptionNamesAre DEF AskOption, Goto, After, Walked, TypeOK
      <3>2. UNCHANGED <<ever, always>>
        BY <1>4, <2>4 DEF AskOption, Goto, TypeOK
      <3> QED
        BY <1>2, <2>1, <3>1, <3>2, WalkingNext DEF Walking, Walked
    <2> QED
      BY <2>2, <2>3, <2>4
  <1>5. CASE WalkOn(t)
    <2>1. /\ pc[t] = "walk" /\ UNCHANGED <<ever, always>>
          /\ always[t] \subseteq markers /\ markers \subseteq ever[t]
          /\ WalkAt(e, dir[t], always[t])
      BY <1>5 DEF WalkOn, history, Walking
    <2>2. \/ /\ WalkEnds(e, dir[t]) \/ (dir[t] = <<>> /\ dir[t] \notin markers)
             /\ pc'[t] = "data_dir" /\ found'[t] = None
          \/ /\ ~WalkEnds(e, dir[t]) /\ dir[t] \in markers
             /\ pc'[t] = "data_dir" /\ found'[t] = dir[t]
          \/ /\ ~WalkEnds(e, dir[t]) /\ dir[t] \notin markers /\ dir[t] # <<>>
             /\ pc'[t] = "walk" /\ dir'[t] = Front(dir[t])
      BY <1>5 DEF WalkOn, Goto, TypeOK
    <2>3. CASE /\ WalkEnds(e, dir[t]) \/ (dir[t] = <<>> /\ dir[t] \notin markers)
               /\ pc'[t] = "data_dir" /\ found'[t] = None
      <3>1. WalkEnded(e, None, ever[t], always[t])
        BY <1>1, <2>1, <2>3, WalkStops
      <3> QED
        BY <1>2, <2>1, <2>3, <3>1, WalkingNext DEF Walking, Walked
    <2>4. CASE /\ ~WalkEnds(e, dir[t]) /\ dir[t] \in markers
               /\ pc'[t] = "data_dir" /\ found'[t] = dir[t]
      <3>1. WalkEnded(e, dir[t], ever[t], always[t])
        BY <1>1, <2>1, <2>4, WalkFinds
      <3> QED
        BY <1>2, <2>1, <2>4, <3>1, WalkingNext DEF Walking, Walked
    <2>5. CASE /\ ~WalkEnds(e, dir[t]) /\ dir[t] \notin markers /\ dir[t] # <<>>
               /\ pc'[t] = "walk" /\ dir'[t] = Front(dir[t])
      <3>1. project \in Path /\ dir[t] \in Path
        BY <1>1, <2>1, <2>5 DEF WalkEnds, WalkAt
      <3>2. WalkAt(e, Front(dir[t]), always[t])
        BY <1>1, <2>1, <2>5, <3>1, WalkGoesUp
      <3> QED
        BY <1>2, <2>1, <2>5, <3>2, WalkingNext DEF Walking, Walked
    <2> QED
      BY <2>2, <2>3, <2>4, <2>5
  <1> QED
    BY <1>3, <1>4, <1>5 DEF Resolve

LEMMA WalkStep ==
    ASSUME TypeOK, StartInv, WalkInv, [Next]_vars
    PROVE  WalkInv'
  <1> SUFFICES ASSUME NEW t \in Threads PROVE Walking(t)'
    BY DEF WalkInv
  <1>1. Walking(t) /\ ProcOf(t) \in Procs
    BY ProcessOfThread DEF WalkInv
  <1>2. ASSUME NEW d \in Markable, Mark(d) PROVE Walking(t)'
    BY <1>1, <1>2, WalkDisturbed
  <1>3. ASSUME UNCHANGED <<shell, env, caches, locals, history>>
        PROVE  Walking(t)' \/ \E d \in Markable : Mark(d)
    <2>1. markers' = markers \/ \E d \in Markable : Mark(d)
      BY DEF Next, vars, world, EditSettings, Upgrade, StartHook, StartScript,
             Start, OtherOption, GetPaths, Acquire, Resolve, AskOption, WalkOn, Publish
    <2> QED
      BY <1>1, <1>3, <2>1, WalkFrame DEF locals, history
  <1>4. ASSUME NEW p \in Procs, NEW q, NEW e, StartsAs(p, q, e) PROVE Walking(t)'
    <2>1. UNCHANGED <<markers, locals, ever, always>>
      BY <1>4 DEF StartsAs, Start, world
    <2>2. CASE ProcOf(t) = p
      <3>1. pc'[t] = "idle"
        BY <1>1, <1>4, <2>1, <2>2, ProcessOfThread
        DEF StartsAs, Start, StartInv, NotStarted, locals
      <3> QED
        BY <3>1, WalkingNext DEF Walked
    <2>3. CASE ProcOf(t) # p
      BY <1>1, <1>4, <2>1, <2>3, WalkFrame DEF StartsAs, Start, locals, TypeOK
    <2> QED
      BY <2>2, <2>3
  <1>5. ASSUME NEW p, OtherOption(p) PROVE Walking(t)'
    BY <1>1, <1>5, WalkFrame DEF OtherOption, world, locals
  <1>6. ASSUME NEW u \in Threads, env[ProcOf(u)] # None,
               GetPaths(u) \/ Acquire(u) \/ Resolve(u)
        PROVE  Walking(t)'
    <2>1. CASE u = t
      BY <1>1, <1>6, <2>1, WalkOfThread
    <2>2. CASE u # t
      <3>1. /\ markers' = markers /\ env' = env /\ pc'[t] = pc[t] /\ dir'[t] = dir[t]
            /\ found'[t] = found[t] /\ ever'[t] = ever[t] /\ always'[t] = always[t]
        BY <1>6, <2>2
        DEF GetPaths, Acquire, Resolve, AskOption, WalkOn, Publish, Goto, world, caches,
            history, TypeOK
      <3> QED
        BY <1>1, <3>1, WalkFrame
    <2> QED
      BY <2>1, <2>2
  <1> QED
    BY <1>2, <1>3, <1>4, <1>5, <1>6, Steps

-----------------------------------------------------------------------------
(* The theorems.                                                           *)

LEMMA InitEstablishes == Init => IInv
  <1> SUFFICES ASSUME Init PROVE IInv
    OBVIOUS
  <1>1. TypeOK
    BY InitTypes
  <1>2. StartInv /\ LockInv /\ OptionsInv
    BY ThreadOfProcess
    DEF Init, StartInv, NotStarted, LockInv, Asking, OptionsInv
  <1>3. WalkInv
    BY DEF Init, WalkInv, Walking, Walked
  <1> QED
    BY <1>1, <1>2, <1>3 DEF IInv

LEMMA Inductive == IInv /\ [Next]_vars => IInv'
  BY Types, StartStep, LockStep, OptionsStep, WalkStep DEF IInv

LEMMA Invariant == Spec => []IInv
  BY InitEstablishes, Inductive, PTL DEF Spec

\* The types of Paths.
THEOREM TypeCorrect == Spec => []TypeOK
  <1>1. IInv => TypeOK
    BY DEF IInv
  <1> QED
    BY <1>1, Invariant, PTL

\* OnePathsPerProcess: whatever changes meanwhile and however the threads of a
\* process interleave, get_paths gives all of them the same paths.
THEOREM PathsAreResolvedOnce == Spec => []OnePathsPerProcess
  <1>1. IInv => OnePathsPerProcess
    BY DEF IInv, LockInv, OnePathsPerProcess
  <1> QED
    BY <1>1, Invariant, PTL

\* With a workspace configured nothing but the options decides, and with a
\* managed directory no marker decides where the data is.
LEMMA OptionsDecide ==
    ASSUME NEW o, NEW e, NEW f, NEW m, NEW n
    PROVE  /\ Configured(o) # None =>
                 [Resolved(e, o, m) EXCEPT !.plugin_root = None]
                     = [Resolved(f, o, n) EXCEPT !.plugin_root = None]
           /\ e.data = f.data /\ e.data # None =>
                 Resolved(e, o, m).data_dir = Resolved(f, o, n).data_dir
  <1>1. ASSUME Configured(o) # None
        PROVE  \E base, data : \A x, y :
                   [Resolved(x, o, y) EXCEPT !.plugin_root = None] =
                       [plugin_root |-> None, data_dir |-> data,
                        memory_dir |-> Or(o.memory_dir, Append(base, "memory")),
                        diary_dir |-> Or(o.diary_dir, Append(base, "diary")),
                        now_dir |-> Append(Front(Or(o.diary_dir, Append(base, "diary"))), "now")]
    <2> DEFINE base == Append(Configured(o), ".multiplai")
               data == IF o.data_dir # None THEN o.data_dir
                       ELSE Configured(o) \o <<".multiplai", "data">>
    <2>1. \A x, y : DataDir(x, o, y) = data
      BY <1>1 DEF DataDir
    <2>2. \A y : Or(Configured(o), y) = Configured(o)
      BY <1>1 DEF Or
    <2> SUFFICES \A x, y :
                   [Resolved(x, o, y) EXCEPT !.plugin_root = None] =
                       [plugin_root |-> None, data_dir |-> data,
                        memory_dir |-> Or(o.memory_dir, Append(base, "memory")),
                        diary_dir |-> Or(o.diary_dir, Append(base, "diary")),
                        now_dir |-> Append(Front(Or(o.diary_dir, Append(base, "diary"))), "now")]
      OBVIOUS
    <2> HIDE DEF data
    <2> QED
      BY <1>1, <2>1, <2>2 DEF Resolved
  <1>2. ASSUME e.data = f.data, e.data # None PROVE DataDir(e, o, m) = DataDir(f, o, n)
    BY <1>2 DEF DataDir
  <1>3. \A x, y : Resolved(x, o, y).data_dir = DataDir(x, o, y)
    BY DEF Resolved
  <1>4. ASSUME Configured(o) # None
        PROVE  [Resolved(e, o, m) EXCEPT !.plugin_root = None]
                   = [Resolved(f, o, n) EXCEPT !.plugin_root = None]
    <2> HIDE DEF Resolved
    <2> QED
      BY <1>1, <1>4, Zenon
  <1> QED
    <2>1. ASSUME e.data = f.data, e.data # None
          PROVE  Resolved(e, o, m).data_dir = Resolved(f, o, n).data_dir
      BY <1>2, <1>3, <2>1
    <2> QED
      BY <1>4, <2>1

\* ProcessesAgree: processes of one plugin that saw the same settings keep their
\* files in the same places, whichever version each belongs to and whether its
\* options came from its environment or from settings.json.
THEOREM PluginKeepsItsPlaces == Spec => []ProcessesAgree
  <1>1. ASSUME IInv PROVE ProcessesAgree
    <2> SUFFICES ASSUME NEW p \in Procs, NEW q \in Procs,
                        cached[p] # None, cached[q] # None,
                        env[p].plugin = env[q].plugin, env[p].plugin # None,
                        NEW o \in OptionSets, read[p] = {o}, read[q] = {o}
                 PROVE  /\ Configured(o) # None =>
                             [cached[p] EXCEPT !.plugin_root = None]
                                 = [cached[q] EXCEPT !.plugin_root = None]
                        /\ env[p].data = env[q].data /\ env[p].data # None =>
                             cached[p].data_dir = cached[q].data_dir
      BY DEF ProcessesAgree
    <2>1. env[p] # None /\ env[q] # None
      BY <1>1 DEF IInv, StartInv, NotStarted
    <2>2. OptionsOfPlugin(p) /\ OptionsOfPlugin(q)
      BY <1>1, <2>1 DEF IInv, OptionsInv
    <2>3. PICK m : cached[p] = Resolved(env[p], o, m)
      BY <2>2 DEF OptionsOfPlugin
    <2>4. PICK n : cached[q] = Resolved(env[q], o, n)
      BY <2>2 DEF OptionsOfPlugin
    <2> QED
      BY <2>3, <2>4, OptionsDecide
  <1> QED
    BY <1>1, Invariant, PTL

\* DiscoveryIsNearest: the walk ends at the nearest marker of the project that
\* counts, while markers come and go under it.  $HOME and what lies above it count
\* but for a project below a $HOME that is no symlink.
THEOREM WalkFindsNearest == Spec => []DiscoveryIsNearest
  <1>1. ASSUME IInv PROVE DiscoveryIsNearest
    <2>1. ASSUME NEW S, NEW e
          PROVE  {d \in S : d \in Eligible(e)} = S \cap Eligible(e)
      OBVIOUS
    <2>2. \A t \in Threads : Walking(t)
      BY <1>1 DEF IInv, WalkInv
    <2> QED
      BY <2>1, <2>2 DEF DiscoveryIsNearest, Walking, Walked, WalkEnded
  <1> QED
    BY <1>1, Invariant, PTL

-----------------------------------------------------------------------------
(***************************************************************************)
(* Second part: the model and effort of a step, SessionModel.              *)
(*                                                                         *)
(* A lookup reads a transcript backwards: the bytes behind pos are read,   *)
(* those up to cut are a piece of one line that is kept for the next       *)
(* chunk, and no line that starts behind cut has a model (ReadingAt).      *)
(***************************************************************************)
\* A set of numbers has a least one.
LEMMA NatMin ==
    ASSUME NEW T, T \subseteq Nat, T # {}
    PROVE  \E x \in T : \A y \in T : x <= y
  <1>1. \E x \in T : \A y \in T : ~ (<<y, x>> \in OpToRel(<, Nat))
    BY NatLessThanWellFounded, WFMin, Zenon
  <1>2. PICK x \in T : \A y \in T : ~ (<<y, x>> \in OpToRel(<, Nat))
    BY <1>1
  <1>3. ASSUME NEW y \in T PROVE x <= y
    <2>1. x \in Nat /\ y \in Nat /\ <<y, x>> \in Nat \X Nat
      OBVIOUS
    <2>2. ~(y < x)
      BY <1>2, <2>1 DEF OpToRel
    <2> QED
      BY <2>1, <2>2
  <1> QED
    BY <1>3

-----------------------------------------------------------------------------
(* The lines of a piece of a file.                                         *)

LEMMA LineIs ==
    ASSUME NEW f, NEW lo \in Nat, NEW hi \in Nat, NEW a, NEW b
    PROVE  <<a, b>> \in Lines(f, lo, hi) <=>
               /\ a \in lo..(hi + 1) /\ b \in (lo - 1)..hi /\ a <= b + 1
               /\ a = lo \/ f[a - 1] = Newline
               /\ b = hi \/ f[b + 1] = Newline
               /\ \A i \in a..b : f[i] # Newline
  BY DEF Lines, Newline

LEMMA LineIsPair ==
    ASSUME NEW f, NEW lo \in Nat, NEW hi \in Nat, NEW l \in Lines(f, lo, hi)
    PROVE  l = <<l[1], l[2]>>
  BY DEF Lines

LEMMA LineHas ==
    ASSUME NEW f, NEW lo \in Nat, NEW hi \in Nat, NEW l \in Lines(f, lo, hi)
    PROVE  /\ l[1] \in lo..(hi + 1) /\ l[2] \in (lo - 1)..hi /\ l[1] <= l[2] + 1
           /\ l[1] = lo \/ f[l[1] - 1] = Newline
           /\ l[2] = hi \/ f[l[2] + 1] = Newline
           /\ \A i \in l[1]..l[2] : f[i] # Newline
  BY DEF Lines, Newline

\* A line is known by its start.
LEMMA LineIsUnique ==
    ASSUME NEW f, NEW lo \in Nat, NEW hi \in Nat,
           NEW k \in Lines(f, lo, hi), NEW l \in Lines(f, lo, hi), k[1] = l[1]
    PROVE  k = l
  <1>1. /\ k[1] \in Nat /\ k[2] \in (lo - 1)..hi
        /\ k[1] <= k[2] + 1 /\ (k[2] = hi \/ f[k[2] + 1] = Newline)
        /\ \A i \in k[1]..k[2] : f[i] # Newline
    BY LineHas, SMTT(30)
  <1>2. /\ l[1] \in Nat /\ l[2] \in (lo - 1)..hi
        /\ l[1] <= l[2] + 1 /\ (l[2] = hi \/ f[l[2] + 1] = Newline)
        /\ \A i \in l[1]..l[2] : f[i] # Newline
    BY LineHas
  <1>3. k = <<k[1], k[2]>> /\ l = <<l[1], l[2]>>
    BY LineIsPair
  <1>4. ~(k[2] < l[2])
    <2> SUFFICES ASSUME k[2] < l[2] PROVE FALSE
      OBVIOUS
    <2>1. k[2] + 1 \in l[1]..l[2] /\ k[2] # hi
      BY <1>1, <1>2
    <2> QED
      BY <1>1, <1>2, <2>1
  <1>5. ~(l[2] < k[2])
    <2> SUFFICES ASSUME l[2] < k[2] PROVE FALSE
      OBVIOUS
    <2>1. l[2] + 1 \in k[1]..k[2] /\ l[2] # hi
      BY <1>1, <1>2
    <2> QED
      BY <1>1, <1>2, <2>1
  <1> QED
    <2>1. k[2] = l[2]
      BY <1>1, <1>2, <1>4, <1>5
    <2> QED
      BY <1>3, <2>1

\* A line starts where the piece does.
LEMMA FirstLine ==
    ASSUME NEW f, NEW lo \in Nat \ {0}, NEW hi \in Nat, lo <= hi + 1
    PROVE  \E n \in (lo - 1)..hi : <<lo, n>> \in Lines(f, lo, hi)
  <1> DEFINE Stops == {i \in lo..hi : f[i] = Newline} \cup {hi + 1}
  <1>1. Stops \subseteq Nat /\ Stops # {}
    OBVIOUS
  <1>2. PICK e \in Stops : \A y \in Stops : e <= y
    BY <1>1, NatMin
  <1>3. e \in lo..(hi + 1) /\ (e = hi + 1 \/ f[e] = Newline)
    OBVIOUS
  <1>4. \A i \in lo..(e - 1) : f[i] # Newline
    <2> SUFFICES ASSUME NEW i \in lo..(e - 1), f[i] = Newline PROVE FALSE
      OBVIOUS
    <2>1. i \in Stops /\ i < e
      BY <1>3
    <2> QED
      BY <1>2, <1>3, <2>1
  <1> HIDE DEF Stops
  <1>5. /\ e - 1 \in (lo - 1)..hi /\ lo \in lo..(hi + 1) /\ lo <= (e - 1) + 1
        /\ e - 1 = hi \/ f[(e - 1) + 1] = Newline
    BY <1>3
  <1>6. <<lo, e - 1>> \in Lines(f, lo, hi)
    BY <1>4, <1>5, LineIs
  <1> QED
    BY <1>5, <1>6

\* An empty line has no model.
LEMMA EmptyLine ==
    ASSUME NEW f, NEW a \in Int, NEW b \in Int, b < a
    PROVE  ModelAt(f, <<a, b>>) = Unset
  <1>1. SubSeq(f, a, b) = <<>>
    BY SubSeqEmpty
  <1> QED
    BY <1>1 DEF ModelAt, ModelInLine

\* The model of a line is one of a byte.
LEMMA ModelIs ==
    ASSUME NEW f \in Seq(Bytes), NEW a \in Nat \ {0}, NEW b \in Int, b <= Len(f)
    PROVE  ModelAt(f, <<a, b>>) \in Models \cup {Unset}
  <1>1. CASE b < a
    BY <1>1, EmptyLine
  <1>2. CASE a <= b
    <2> DEFINE s == SubSeq(f, a, b)
    <2>1. a \in Int /\ \A i \in a..b : f[i] \in Bytes
      <3>1. \A i \in a..b : i \in 1..Len(f)
        OBVIOUS
      <3> QED
        BY <3>1
    <2>2. s \in Seq(Bytes) /\ Len(s) = b - a + 1
      BY <1>2, <2>1, SubSeqProperties
    <2>3. s[1] \in Bytes
      BY <1>2, <2>2
    <2>4. s[1].model \in Models \cup {Unset}
      <3> HIDE DEF s
      <3> QED
        BY <2>3 DEF Bytes, Newline
    <2> HIDE DEF s
    <2>5. ModelAt(f, <<a, b>>) \in {s[1].model, Unset}
      BY DEF ModelAt, ModelInLine, s
    <2> QED
      BY <2>4, <2>5
  <1> QED
    BY <1>1, <1>2

\* Appending changes no line that was there, nor what it says.
LEMMA LinesStay ==
    ASSUME NEW f \in Seq(Bytes), NEW b \in Bytes, NEW hi \in 0..Len(f)
    PROVE  /\ Lines(Append(f, b), 1, hi) = Lines(f, 1, hi)
           /\ \A l \in Lines(f, 1, hi) :
                  ModelAt(Append(f, b), l) = ModelAt(f, l)
  <1> DEFINE g == Append(f, b)
  <1>1. g \in Seq(Bytes) /\ Len(f) \in Nat /\ \A i \in 1..Len(f) : g[i] = f[i]
    OBVIOUS
  <1> HIDE DEF g
  <1>2. hi \in Nat /\ hi <= Len(f)
    BY <1>1
  <1>3. ASSUME NEW u, NEW v
        PROVE  <<u, v>> \in Lines(g, 1, hi) <=> <<u, v>> \in Lines(f, 1, hi)
    <2>1. ASSUME u \in 1..(hi + 1), v \in 0..hi
          PROVE  /\ u = 1 \/ g[u - 1] = f[u - 1]
                 /\ v = hi \/ g[v + 1] = f[v + 1]
                 /\ \A i \in u..v : g[i] = f[i]
      <3>1. \A i \in u..v : i \in 1..Len(f)
        BY <1>1, <1>2, <2>1
      <3>2. u = 1 \/ u - 1 \in 1..Len(f)
        BY <1>1, <1>2, <2>1
      <3>3. v = hi \/ v + 1 \in 1..Len(f)
        BY <1>1, <1>2, <2>1
      <3> QED
        BY <1>1, <3>1, <3>2, <3>3
    <2>2. /\ <<u, v>> \in Lines(g, 1, hi) <=>
               /\ u \in 1..(hi + 1) /\ v \in 0..hi /\ u <= v + 1
               /\ u = 1 \/ g[u - 1] = Newline
               /\ v = hi \/ g[v + 1] = Newline
               /\ \A i \in u..v : g[i] # Newline
          /\ <<u, v>> \in Lines(f, 1, hi) <=>
               /\ u \in 1..(hi + 1) /\ v \in 0..hi /\ u <= v + 1
               /\ u = 1 \/ f[u - 1] = Newline
               /\ v = hi \/ f[v + 1] = Newline
               /\ \A i \in u..v : f[i] # Newline
      BY DEF Lines, Newline
    <2> QED
      BY <2>1, <2>2
  <1>4. Lines(g, 1, hi) = Lines(f, 1, hi)
    <2>1. \A l \in Lines(g, 1, hi) : l \in Lines(f, 1, hi)
      <3> SUFFICES ASSUME NEW l \in Lines(g, 1, hi) PROVE l \in Lines(f, 1, hi)
        OBVIOUS
      <3>1. l = <<l[1], l[2]>>
        BY <1>2, LineIsPair
      <3> QED
        BY <1>3, <3>1
    <2>2. \A l \in Lines(f, 1, hi) : l \in Lines(g, 1, hi)
      <3> SUFFICES ASSUME NEW l \in Lines(f, 1, hi) PROVE l \in Lines(g, 1, hi)
        OBVIOUS
      <3>1. l = <<l[1], l[2]>>
        BY <1>2, LineIsPair
      <3> QED
        BY <1>3, <3>1
    <2> QED
      BY <2>1, <2>2
  <1>5. ASSUME NEW l \in Lines(f, 1, hi)
        PROVE  ModelAt(g, l) = ModelAt(f, l)
    <2> DEFINE u == l[1]
               v == l[2]
    <2>1. l = <<u, v>> /\ u \in 1..(hi + 1) /\ v \in 0..hi
      <3>1. l = <<l[1], l[2]>>
        BY <1>2, LineIsPair
      <3>2. l[1] \in 1..(hi + 1) /\ l[2] \in 0..hi
        BY <1>2, LineHas
      <3> QED
        BY <3>1, <3>2
    <2> HIDE DEF u, v
    <2>2. u \in Int /\ v \in Int /\ \A i \in u..v : i \in 1..Len(f) /\ g[i] = f[i]
      BY <1>1, <1>2, <2>1
    <2>3. \A i \in u..v : f[i] \in Bytes /\ g[i] \in Bytes
      BY <2>2
    <2>4. SubSeq(g, u, v) = SubSeq(f, u, v)
      <3>1. /\ SubSeq(f, u, v) \in Seq(Bytes) /\ SubSeq(g, u, v) \in Seq(Bytes)
            /\ Len(SubSeq(f, u, v)) = IF u <= v THEN v - u + 1 ELSE 0
            /\ Len(SubSeq(g, u, v)) = IF u <= v THEN v - u + 1 ELSE 0
            /\ \A i \in 1..(v - u + 1) : SubSeq(f, u, v)[i] = f[u + i - 1]
            /\ \A i \in 1..(v - u + 1) : SubSeq(g, u, v)[i] = g[u + i - 1]
        BY <2>2, <2>3, SubSeqProperties
      <3>2. \A i \in 1..(v - u + 1) : u + i - 1 \in u..v
        BY <2>2
      <3> QED
        BY <2>2, <3>1, <3>2
    <2> QED
      BY <2>1, <2>4 DEF ModelAt
  <1> QED
    BY <1>4, <1>5 DEF g

Turns(f, lines) == {l \in lines : ModelAt(f, l) # Unset}
IsLast(l, turns) == l \in turns /\ \A k \in turns : k[1] <= l[1]

\* LastModel is that of the turn that starts last.
LEMMA LastModelIs ==
    ASSUME NEW f, NEW lo \in Nat, NEW hi \in Nat,
           NEW lines, lines \subseteq Lines(f, lo, hi)
    PROVE  /\ Turns(f, lines) = {} => LastModel(f, lines) = Unset
           /\ Turns(f, lines) # {} =>
                  \E l : IsLast(l, Turns(f, lines))
                         /\ LastModel(f, lines) = ModelAt(f, l)
  <1> DEFINE turns == Turns(f, lines)
             Best == CHOOSE l \in turns : \A k \in turns : k[1] <= l[1]
             Back == {hi + 1 - l[1] : l \in turns}
  <1>1. LastModel(f, lines) = IF turns = {} THEN Unset ELSE ModelAt(f, Best)
    BY DEF LastModel, Turns
  <1>2. \A l \in turns : l[1] \in lo..(hi + 1)
    BY DEF Turns, Lines
  <1> HIDE DEF turns
  <1>3. ASSUME turns # {} PROVE \E l \in turns : \A k \in turns : k[1] <= l[1]
    <2>1. Back \subseteq Nat /\ Back # {}
      BY <1>2, <1>3
    <2>2. PICK b \in Back : \A y \in Back : b <= y
      BY <2>1, NatMin
    <2>3. PICK l \in turns : b = hi + 1 - l[1]
      BY <2>2
    <2>4. ASSUME NEW k \in turns PROVE k[1] <= l[1]
      <3>1. hi + 1 - k[1] \in Back
        OBVIOUS
      <3>2. hi + 1 - l[1] <= hi + 1 - k[1]
        BY <2>2, <2>3, <3>1
      <3> QED
        BY <1>2, <3>2
    <2> QED
      BY <2>4
  <1>4. turns # {} => Best \in turns /\ \A k \in turns : k[1] <= Best[1]
    BY <1>3
  <1> QED
    BY <1>1, <1>4 DEF turns, IsLast

-----------------------------------------------------------------------------
(* One chunk.                                                              *)

\* Of f[1..size] the bytes after pos are read; those up to cut are the kept
\* tail, a piece of one line, and no line that starts after it has a model.
ReadingAt(f, size, pos, cut) ==
    /\ size \in Nat /\ size <= Len(f) /\ pos \in Nat /\ cut \in Nat /\ pos <= cut /\ cut <= size
    /\ cut = size \/ f[cut + 1] = Newline
    /\ \A i \in (pos + 1)..cut : f[i] # Newline
    /\ \A l \in Lines(f, 1, size) :
           l[1] > cut \/ pos = 0 => ModelAt(f, l) = Unset

\* Before anything is read.
LEMMA ReadingBegins ==
    ASSUME NEW f \in Seq(Bytes)
    PROVE  ReadingAt(f, Len(f), Len(f), Len(f))
  <1>1. Len(f) \in Nat
    OBVIOUS
  <1>2. ASSUME NEW l \in Lines(f, 1, Len(f)), l[1] > Len(f) \/ Len(f) = 0
        PROVE  ModelAt(f, l) = Unset
    <2>1. /\ l[1] \in 1..(Len(f) + 1) /\ l[2] \in 0..Len(f)
          /\ \A i \in l[1]..l[2] : f[i] # Newline
      BY <1>1, LineHas
    <2>2. l = <<l[1], l[2]>>
      BY <1>1, LineIsPair
    <2>3. l[2] < l[1] /\ l[1] \in Int /\ l[2] \in Int
      BY <1>1, <1>2, <2>1
    <2> QED
      BY <2>2, <2>3, EmptyLine
  <1> QED
    BY <1>1, <1>2 DEF ReadingAt

\* The lines of a piece that ends where a line does are those of the file that
\* start in it, but for the first.
LEMMA PieceHas ==
    ASSUME NEW f, NEW lo \in Nat \ {0}, NEW cut \in Nat, NEW size \in Nat,
           cut <= size, cut = size \/ f[cut + 1] = Newline
    PROVE  /\ \A l \in Lines(f, lo, cut) :
                  l[1] # lo \/ lo = 1 => l \in Lines(f, 1, size)
           /\ \A l \in Lines(f, 1, size) :
                  lo <= l[1] /\ l[1] <= cut => l \in Lines(f, lo, cut)
  <1>1. ASSUME NEW l \in Lines(f, lo, cut), l[1] # lo \/ lo = 1
        PROVE  l \in Lines(f, 1, size)
    <2> DEFINE a == l[1]
               b == l[2]
    <2>1. /\ a \in lo..(cut + 1) /\ b \in (lo - 1)..cut /\ a <= b + 1
          /\ a = lo \/ f[a - 1] = Newline
          /\ b = cut \/ f[b + 1] = Newline
          /\ \A i \in a..b : f[i] # Newline
      BY LineHas, SMTT(30)
    <2>2. l = <<a, b>>
      BY LineIsPair
    <2> HIDE DEF a, b
    <2>3. /\ a \in 1..(size + 1) /\ b \in (1 - 1)..size
          /\ a = 1 \/ f[a - 1] = Newline
          /\ b = size \/ f[b + 1] = Newline
      BY <1>1, <2>1 DEF a
    <2>4. 1 \in Nat
      OBVIOUS
    <2>5. <<a, b>> \in Lines(f, 1, size)
      BY <2>1, <2>3, <2>4, LineIs
    <2> QED
      BY <2>2, <2>5
  <1>2. ASSUME NEW l \in Lines(f, 1, size), lo <= l[1], l[1] <= cut
        PROVE  l \in Lines(f, lo, cut)
    <2> DEFINE a == l[1]
               b == l[2]
    <2>1. /\ a \in 1..(size + 1) /\ b \in (1 - 1)..size /\ a <= b + 1
          /\ a = 1 \/ f[a - 1] = Newline
          /\ b = size \/ f[b + 1] = Newline
          /\ \A i \in a..b : f[i] # Newline
      BY LineHas
    <2>2. l = <<a, b>>
      BY LineIsPair
    <2>3. lo <= a /\ a <= cut
      BY <1>2
    <2> HIDE DEF a, b
    <2>4. b <= cut
      <3> SUFFICES ASSUME cut < b PROVE FALSE
        BY <2>1
      <3>1. cut + 1 \in a..b /\ cut # size
        BY <2>1, <2>3
      <3> QED
        BY <2>1, <3>1
    <2>5. /\ a \in lo..(cut + 1) /\ b \in (lo - 1)..cut
          /\ a = lo \/ f[a - 1] = Newline
          /\ b = cut \/ f[b + 1] = Newline
      BY <2>1, <2>3, <2>4
    <2>6. <<a, b>> \in Lines(f, lo, cut)
      BY <2>1, <2>5, LineIs
    <2> QED
      BY <2>2, <2>6
  <1> QED
    BY <1>1, <1>2

\* A turn of the file that starts in a piece is one of its complete lines; so
\* if they have turns the last of them is the last of the file.
LEMMA ChunkDecides ==
    ASSUME NEW f, NEW size, NEW pos, NEW cut, ReadingAt(f, size, pos, cut),
           NEW lo \in Nat \ {0}, lo <= pos,
           NEW lines, lines = {l \in Lines(f, lo, cut) : l[1] # lo \/ lo = 1}
    PROVE  LET whole == Lines(f, 1, size)
               model == LastModel(f, lines)
           IN /\ model # Unset => model = LastModel(f, whole)
              /\ model = Unset =>
                     \A l \in whole : l[1] > lo \/ lo = 1 => ModelAt(f, l) = Unset
  <1> DEFINE whole == Lines(f, 1, size)
             model == LastModel(f, lines)
  <1>1. /\ size \in Nat /\ cut \in Nat /\ cut <= size /\ pos \in Nat /\ pos # 0
        /\ cut = size \/ f[cut + 1] = Newline
        /\ \A l \in whole : l[1] > cut => ModelAt(f, l) = Unset
    BY DEF ReadingAt
  <1>2. lines \subseteq whole
    BY <1>1, PieceHas
  <1>3. \A l \in whole : l[1] \in Nat \ {0}
    <2> SUFFICES ASSUME NEW l \in whole PROVE l[1] \in Nat \ {0}
      OBVIOUS
    <2>1. l[1] \in 1..(size + 1)
      BY <1>1, LineHas
    <2> QED
      BY <1>1, <2>1
  <1>4. ASSUME NEW l \in Turns(f, whole), l[1] > lo \/ lo = 1
        PROVE  l \in Turns(f, lines)
    <2>1. l \in whole /\ ModelAt(f, l) # Unset
      BY DEF Turns
    <2>2. l[1] <= cut /\ lo <= l[1]
      BY <1>1, <1>3, <1>4, <2>1
    <2>3. l \in Lines(f, lo, cut)
      BY <1>1, <2>1, <2>2, PieceHas
    <2>4. l \in lines
      BY <1>3, <1>4, <2>1, <2>3
    <2> QED
      BY <2>1, <2>4 DEF Turns
  <1>5. Turns(f, lines) \subseteq Turns(f, whole)
    BY <1>2 DEF Turns
  <1>6. lines \subseteq Lines(f, lo, cut) /\ \A l \in lines : lo <= l[1]
    <2> SUFFICES ASSUME NEW l \in lines PROVE l \in Lines(f, lo, cut) /\ lo <= l[1]
      OBVIOUS
    <2>1. l \in Lines(f, lo, cut)
      OBVIOUS
    <2>2. l[1] \in lo..(cut + 1)
      BY <1>1, <2>1, LineHas
    <2> QED
      BY <2>1, <2>2
  <1>7. /\ Turns(f, lines) = {} => model = Unset
        /\ Turns(f, lines) # {} =>
               \E l : IsLast(l, Turns(f, lines)) /\ model = ModelAt(f, l)
    BY <1>1, <1>6, LastModelIs
  <1>8. ASSUME Turns(f, lines) # {}
        PROVE  model # Unset /\ model = LastModel(f, whole)
    <2>1. PICK k : IsLast(k, Turns(f, lines)) /\ model = ModelAt(f, k)
      BY <1>7, <1>8
    <2>2. /\ k \in lines /\ k \in whole /\ k \in Turns(f, whole) /\ ModelAt(f, k) # Unset
      BY <1>2, <1>5, <2>1 DEF IsLast, Turns
    <2>3. \A l \in Turns(f, whole) : l[1] <= k[1]
      <3> SUFFICES ASSUME NEW l \in Turns(f, whole) PROVE l[1] <= k[1]
        OBVIOUS
      <3>1. l[1] \in Nat /\ k[1] \in Nat /\ lo <= k[1]
        BY <1>3, <1>6, <2>2 DEF Turns
      <3>2. CASE l[1] > lo \/ lo = 1
        BY <1>4, <2>1, <3>2 DEF IsLast
      <3>3. CASE ~(l[1] > lo)
        BY <3>1, <3>3
      <3> QED
        BY <3>2, <3>3
    <2>4. PICK l : IsLast(l, Turns(f, whole)) /\ LastModel(f, whole) = ModelAt(f, l)
      <3>1. 1 \in Nat
        OBVIOUS
      <3> QED
        BY <1>1, <2>2, <3>1, LastModelIs
    <2>5. l \in whole /\ l[1] <= k[1] /\ k[1] <= l[1]
      BY <2>2, <2>3, <2>4 DEF IsLast, Turns
    <2>6. l[1] = k[1]
      BY <1>3, <2>2, <2>5
    <2>7. l = k
      <3>1. 1 \in Nat
        OBVIOUS
      <3> QED
        BY <1>1, <2>2, <2>5, <2>6, <3>1, LineIsUnique
    <2> QED
      BY <2>1, <2>2, <2>4, <2>7
  <1>9. ASSUME model = Unset, NEW l \in whole, l[1] > lo \/ lo = 1
        PROVE  ModelAt(f, l) = Unset
    <2>1. Turns(f, lines) = {}
      BY <1>8, <1>9
    <2> QED
      BY <1>4, <1>9, <2>1 DEF Turns
  <1> QED
    BY <1>7, <1>8, <1>9

\* The bytes of a chunk tell the model of the file, or reading goes on.
LEMMA ChunkRead ==
    ASSUME NEW f \in Seq(Bytes), NEW s,
           ReadingAt(f, s.size, s.pos, s.cut), s.pos > 0, ConstantsAreSound
    PROVE  LET model == LastModel(f, Complete(f, s))
           IN /\ model \in Models \cup {Unset}
              /\ ChunkStart(s) \in Nat /\ TailEnd(f, s) \in Nat
              /\ model # Unset => model = LastModel(f, Lines(f, 1, s.size))
              /\ model = Unset =>
                     ReadingAt(f, s.size, ChunkStart(s), TailEnd(f, s))
  <1> DEFINE size == s.size
             pos == s.pos
             cut == s.cut
             start == ChunkStart(s)
             lo == start + 1
             end == TailEnd(f, s)
             lines == Complete(f, s)
             whole == Lines(f, 1, size)
             model == LastModel(f, lines)
  <1>1. /\ size \in Nat /\ size <= Len(f) /\ pos \in Nat /\ cut \in Nat /\ pos <= cut
        /\ cut <= size
        /\ cut = size \/ f[cut + 1] = Newline
        /\ \A i \in (pos + 1)..cut : f[i] # Newline
        /\ \A l \in whole : l[1] > cut => ModelAt(f, l) = Unset
        /\ pos > 0 /\ Len(f) \in Nat
    BY DEF ReadingAt
  <1>2. start \in Nat /\ start < pos
    BY <1>1 DEF ChunkStart, ConstantsAreSound
  <1>3. lo \in Nat \ {0} /\ lo <= pos /\ (lo = 1 <=> start = 0)
    BY <1>1, <1>2
  <1>4. /\ lines = {l \in Lines(f, lo, cut) : l[1] # lo \/ lo = 1}
        /\ end = CHOOSE n \in (lo - 1)..cut : <<lo, n>> \in Lines(f, lo, cut)
    BY <1>3 DEF Complete, TailEnd, BufferEnd
  <1> HIDE DEF size, pos, cut, start, lo, end, lines, whole
  <1>5. \E n \in (lo - 1)..cut : <<lo, n>> \in Lines(f, lo, cut)
    <2>1. lo <= cut + 1
      BY <1>1, <1>3
    <2> QED
      BY <1>1, <1>3, <2>1, FirstLine
  <1>6. end \in (lo - 1)..cut /\ <<lo, end>> \in Lines(f, lo, cut)
    BY <1>4, <1>5
  <1>7. end \in Nat /\ start <= end /\ end <= cut
    BY <1>1, <1>2, <1>6 DEF lo
  <1>8. (end = cut \/ f[end + 1] = Newline) /\ \A i \in lo..end : f[i] # Newline
    <2>1. lo \in Nat
      BY <1>3
    <2> QED
      BY <1>1, <1>6, <2>1, LineIs, SMTT(30)
  <1>9. model \in Models \cup {Unset}
    <2>1. CASE Turns(f, lines) = {}
      <3>1. lines \subseteq Lines(f, lo, cut)
        BY <1>4
      <3> QED
        BY <1>1, <1>3, <2>1, <3>1, LastModelIs
    <2>2. CASE Turns(f, lines) # {}
      <3>1. lines \subseteq Lines(f, lo, cut)
        BY <1>4
      <3>2. PICK l : IsLast(l, Turns(f, lines)) /\ model = ModelAt(f, l)
        BY <1>1, <1>3, <2>2, <3>1, LastModelIs
      <3>3. l \in Lines(f, lo, cut)
        BY <3>1, <3>2 DEF IsLast, Turns
      <3>4. l[1] \in lo..(cut + 1) /\ l[2] \in (lo - 1)..cut
        BY <1>1, <1>3, <3>3, LineHas
      <3>5. l = <<l[1], l[2]>>
        BY <1>1, <1>3, <3>3, LineIsPair
      <3>6. l[1] \in Nat \ {0} /\ l[2] \in Int /\ l[2] <= Len(f)
        BY <1>1, <1>3, <3>4
      <3> HIDE DEF model
      <3>7. ModelAt(f, <<l[1], l[2]>>) \in Models \cup {Unset}
        BY <3>6, ModelIs
      <3> QED
        BY <3>2, <3>5, <3>7
    <2> QED
      BY <2>1, <2>2
  <1>10. /\ model # Unset => model = LastModel(f, whole)
         /\ model = Unset => \A l \in whole : l[1] > lo \/ lo = 1 => ModelAt(f, l) = Unset
    <2>1. ReadingAt(f, size, pos, cut)
      BY DEF size, pos, cut
    <2> QED
      BY <1>3, <1>4, <2>1, ChunkDecides DEF whole
  <1>11. ASSUME model = Unset PROVE ReadingAt(f, size, start, end)
    <2>1. end = size \/ f[end + 1] = Newline
      BY <1>1, <1>8, <1>7
    <2>2. ASSUME NEW l \in whole, l[1] > end \/ start = 0
          PROVE  ModelAt(f, l) = Unset
      <3>1. /\ l[1] \in 1..(size + 1) /\ l[2] \in 0..size
            /\ \A i \in l[1]..l[2] : f[i] # Newline
        BY <1>1, LineHas DEF whole
      <3>2. l = <<l[1], l[2]>>
        BY <1>1, LineIsPair DEF whole
      <3>3. CASE l[1] > lo \/ lo = 1
        BY <1>10, <1>11, <3>3
      <3>4. CASE ~(l[1] > lo) /\ lo # 1
        <4>1. l[1] = lo /\ end = start /\ lo = end + 1
          BY <1>2, <1>3, <1>7, <2>2, <3>1, <3>4 DEF lo
        <4>2. f[lo] = Newline
          BY <1>1, <1>2, <1>3, <1>7, <1>8, <4>1
        <4>3. l[2] < l[1]
          BY <1>1, <1>3, <3>1, <4>1, <4>2
        <4> QED
          BY <1>1, <3>1, <3>2, <4>3, EmptyLine
      <3> QED
        BY <3>3, <3>4
    <2>3. size \in Nat /\ size <= Len(f) /\ start \in Nat /\ end <= size
      BY <1>1, <1>2, <1>7
    <2>4. \A i \in (start + 1)..end : f[i] # Newline
      BY <1>8 DEF lo
    <2> QED
      BY <1>7, <2>1, <2>2, <2>3, <2>4 DEF ReadingAt, whole
  <1> QED
    BY <1>2, <1>7, <1>9, <1>10, <1>11 DEF size, start, end, lines, whole

-----------------------------------------------------------------------------
(* The invariants of a lookup and of a pin.                                *)

Places == {"absent", "idle", "looking", "reading", "read", "effort", "run"}
Scans == [todo : SUBSET Files, file : Files \cup {Unset}, size : Nat, pos : Nat,
          cut : Nat, found : Models \cup {Unset}]
StepRecords == [model : Models \cup {Unset}, from : {"config", "pin", "transcript", "nothing"},
          effort : KnownEfforts \cup {Unset}]
Promises == [model : Models \cup {Unset}, effort : KnownEfforts \cup {Unset}]

SessionTypes ==
    /\ transcript \in [Files -> Seq(Bytes)] /\ conf \in Confs
    /\ environ = [p \in Workers |-> environ[p]]
    /\ \A p \in Workers : IsEnvironment(environ[p])
    /\ at \in [Workers -> Places] /\ pinning \in BOOLEAN
    /\ scan \in [Workers -> Scans] /\ step \in [Workers -> StepRecords]
    /\ promise \in [Workers -> Promises]

\* What a process that looks has read of the file, and what that tells it.
WholeFile(p) == Lines(transcript[scan[p].file], 1, scan[p].size)
ScanOf(p) ==
    /\ at[p] \in {"reading", "read"} => scan[p].file \in Files
    /\ at[p] = "reading" =>
          /\ scan[p].found = Unset
          /\ ReadingAt(transcript[scan[p].file], scan[p].size, scan[p].pos, scan[p].cut)
    /\ at[p] = "read" =>
          /\ scan[p].size <= Len(transcript[scan[p].file])
          /\ scan[p].found = LastModel(transcript[scan[p].file], WholeFile(p))

\* The environment says what a process was promised, so one that looks was
\* promised no model; a step goes by it.
Looking == {"looking", "reading", "read"}
PinOf(p) ==
    /\ promise[p].model # Unset => environ[p].sessionModel = promise[p].model
    /\ promise[p].effort # Unset => environ[p].sessionEffort = promise[p].effort
    /\ at[p] = "absent" => promise[p] = NoPromise
    /\ at[p] \in Looking => environ[p].sessionModel = Unset
    /\ at[p] = "effort" /\ promise[p].model # Unset =>
          step[p].from = "config" \/ step[p].model = promise[p].model

ScanInv == \A p \in Workers : ScanOf(p)
PinInv == \A p \in Workers : PinOf(p)
SessionInv == SessionTypes /\ ScanInv /\ PinInv

-----------------------------------------------------------------------------
(* Every step keeps them.                                                  *)

\* What has been read of a transcript stays read while it grows.
LEMMA GrowthKeeps ==
    ASSUME NEW f \in Seq(Bytes), NEW b \in Bytes
    PROVE  /\ \A size, pos, cut :
                  ReadingAt(f, size, pos, cut) => ReadingAt(Append(f, b), size, pos, cut)
           /\ \A size \in 0..Len(f) :
                  LastModel(Append(f, b), Lines(Append(f, b), 1, size))
                      = LastModel(f, Lines(f, 1, size))
  <1> DEFINE g == Append(f, b)
  <1>1. Len(f) \in Nat /\ Len(g) = Len(f) + 1 /\ \A i \in 1..Len(f) : g[i] = f[i]
    OBVIOUS
  <1>2. ASSUME NEW size \in 0..Len(f)
        PROVE  /\ Lines(g, 1, size) = Lines(f, 1, size)
               /\ \A l \in Lines(f, 1, size) : ModelAt(g, l) = ModelAt(f, l)
    BY LinesStay
  <1> HIDE DEF g
  <1>3. ASSUME NEW size, NEW pos, NEW cut, ReadingAt(f, size, pos, cut)
        PROVE  ReadingAt(g, size, pos, cut)
    <2>1. /\ size \in Nat /\ size <= Len(f) /\ pos \in Nat /\ cut \in Nat
          /\ pos <= cut /\ cut <= size
          /\ cut = size \/ f[cut + 1] = Newline
          /\ \A i \in (pos + 1)..cut : f[i] # Newline
          /\ \A l \in Lines(f, 1, size) :
                 l[1] > cut \/ pos = 0 => ModelAt(f, l) = Unset
      BY <1>3 DEF ReadingAt
    <2>2. size \in 0..Len(f) /\ size <= Len(g)
      BY <1>1, <2>1
    <2>3. cut = size \/ g[cut + 1] = Newline
      BY <1>1, <2>1
    <2>4. \A i \in (pos + 1)..cut : g[i] # Newline
      BY <1>1, <2>1
    <2>5. \A l \in Lines(g, 1, size) :
              l[1] > cut \/ pos = 0 => ModelAt(g, l) = Unset
      BY <1>2, <2>1, <2>2
    <2> QED
      BY <2>1, <2>2, <2>3, <2>4, <2>5 DEF ReadingAt
  <1>4. ASSUME NEW size \in 0..Len(f)
        PROVE  LastModel(g, Lines(g, 1, size))
                   = LastModel(f, Lines(f, 1, size))
    <2> DEFINE whole == Lines(f, 1, size)
    <2>1. Lines(g, 1, size) = whole
      BY <1>2
    <2>2. Turns(g, whole) = Turns(f, whole)
      BY <1>2 DEF Turns
    <2>3. size \in Nat /\ 1 \in Nat
      BY <1>1
    <2>4. CASE Turns(f, whole) = {}
      BY <2>1, <2>2, <2>3, <2>4, LastModelIs
    <2>5. CASE Turns(f, whole) # {}
      <3>1. PICK k : /\ IsLast(k, Turns(f, whole))
                     /\ LastModel(f, whole) = ModelAt(f, k)
        BY <2>3, <2>5, LastModelIs
      <3>2. PICK l : /\ IsLast(l, Turns(f, whole))
                     /\ LastModel(g, whole) = ModelAt(g, l)
        BY <2>1, <2>2, <2>3, <2>5, LastModelIs
      <3>3. k \in whole /\ l \in whole /\ k[1] <= l[1] /\ l[1] <= k[1]
        BY <3>1, <3>2 DEF IsLast, Turns
      <3>4. k[1] \in 1..(size + 1) /\ l[1] \in 1..(size + 1)
        BY <2>3, <3>3, LineHas
      <3>5. k[1] = l[1]
        BY <2>3, <3>3, <3>4
      <3>6. k = l
        BY <2>3, <3>3, <3>5, LineIsUnique
      <3> QED
        BY <1>2, <2>1, <3>1, <3>2, <3>3, <3>6
    <2> QED
      BY <2>4, <2>5
  <1> QED
    BY <1>3, <1>4 DEF g

LEMMA WriteKeeps ==
    ASSUME SessionInv, NEW f \in Files, NEW b \in Bytes, SessionWrites(f, b)
    PROVE  SessionInv'
  <1>1. /\ transcript' = [transcript EXCEPT ![f] = Append(@, b)]
        /\ UNCHANGED <<conf, environ, at, pinning, scan, step, promise>>
    BY DEF SessionWrites
  <1>2. /\ transcript \in [Files -> Seq(Bytes)] /\ transcript[f] \in Seq(Bytes)
        /\ transcript' \in [Files -> Seq(Bytes)]
        /\ transcript'[f] = Append(transcript[f], b)
        /\ \A g \in Files \ {f} : transcript'[g] = transcript[g]
    BY <1>1 DEF SessionInv, SessionTypes
  <1>3. SessionTypes' /\ PinInv'
    BY <1>1, <1>2 DEF SessionInv, SessionTypes, PinInv, PinOf
  <1>4. ASSUME NEW g \in Files
        PROVE  /\ Len(transcript[g]) \in Nat /\ Len(transcript[g]) <= Len(transcript'[g])
               /\ \A size, pos, cut : ReadingAt(transcript[g], size, pos, cut)
                                          => ReadingAt(transcript'[g], size, pos, cut)
               /\ \A size \in 0..Len(transcript[g]) :
                      LastModel(transcript'[g], Lines(transcript'[g], 1, size))
                          = LastModel(transcript[g], Lines(transcript[g], 1, size))
    <2>1. CASE g = f
      <3>1. Len(transcript'[f]) = Len(transcript[f]) + 1 /\ Len(transcript[f]) \in Nat
        BY <1>2
      <3> QED
        <4> DEFINE old == transcript[f]
                   new == transcript'[f]
        <4>1. /\ \A size, pos, cut :
                     ReadingAt(old, size, pos, cut) => ReadingAt(new, size, pos, cut)
              /\ \A size \in 0..Len(old) :
                     LastModel(new, Lines(new, 1, size))
                         = LastModel(old, Lines(old, 1, size))
          BY <1>2, GrowthKeeps
        <4>2. Len(old) \in Nat /\ Len(old) <= Len(new)
          BY <3>1
        <4> QED
          BY <2>1, <4>1, <4>2
    <2>2. CASE g # f
      <3>1. transcript'[g] = transcript[g] /\ Len(transcript[g]) \in Nat
        BY <1>2, <2>2
      <3>2. Len(transcript[g]) <= Len(transcript'[g])
        BY <3>1
      <3> QED
        BY <3>1, <3>2
    <2> QED
      BY <2>1, <2>2
  <1>5. ScanInv'
    <2> SUFFICES ASSUME NEW p \in Workers
                 PROVE  /\ at[p] \in {"reading", "read"} => scan[p].file \in Files
                        /\ at[p] = "reading" =>
                              /\ scan[p].found = Unset
                              /\ ReadingAt(transcript'[scan[p].file], scan[p].size,
                                           scan[p].pos, scan[p].cut)
                        /\ at[p] = "read" =>
                              /\ scan[p].size <= Len(transcript'[scan[p].file])
                              /\ scan[p].found = LastModel(transcript'[scan[p].file],
                                     Lines(transcript'[scan[p].file], 1, scan[p].size))
      BY <1>1 DEF ScanInv, ScanOf, WholeFile
    <2>1. at[p] \in {"reading", "read"} => scan[p].file \in Files
      BY DEF SessionInv, ScanInv, ScanOf
    <2>2. ASSUME at[p] = "reading"
          PROVE  /\ scan[p].found = Unset
                 /\ ReadingAt(transcript'[scan[p].file], scan[p].size, scan[p].pos, scan[p].cut)
      BY <1>4, <2>1, <2>2 DEF SessionInv, ScanInv, ScanOf
    <2>3. ASSUME at[p] = "read"
          PROVE  /\ scan[p].size <= Len(transcript'[scan[p].file])
                 /\ scan[p].found = LastModel(transcript'[scan[p].file],
                        Lines(transcript'[scan[p].file], 1, scan[p].size))
      <3>1. /\ scan[p].size <= Len(transcript[scan[p].file])
            /\ scan[p].found = LastModel(transcript[scan[p].file],
                   Lines(transcript[scan[p].file], 1, scan[p].size))
        BY <2>3 DEF SessionInv, ScanInv, ScanOf, WholeFile
      <3>2. scan[p].size \in Nat
        BY DEF SessionInv, SessionTypes, Scans
      <3>3. /\ Len(transcript[scan[p].file]) \in Nat /\ Len(transcript'[scan[p].file]) \in Nat
            /\ Len(transcript[scan[p].file]) <= Len(transcript'[scan[p].file])
        BY <1>2, <1>4, <2>1, <2>3
      <3>4. scan[p].size \in 0..Len(transcript[scan[p].file])
        BY <3>1, <3>2, <3>3
      <3> QED
        BY <1>4, <2>1, <2>3, <3>1, <3>2, <3>3, <3>4
    <2> QED
      BY <2>1, <2>2, <2>3
  <1> QED
    BY <1>3, <1>5 DEF SessionInv

\* The other steps are of one process, or of multiplai.conf.
LEMMA ProcessMoves ==
    ASSUME SessionInv, NEW p \in Workers, UNCHANGED <<transcript, conf>>, pinning' \in BOOLEAN,
           environ' = [q \in Workers |-> environ'[q]], IsEnvironment(environ'[p]),
           at' \in [Workers -> Places], scan' \in [Workers -> Scans],
           step' \in [Workers -> StepRecords], promise' \in [Workers -> Promises],
           \A q \in Workers \ {p} :
               /\ environ'[q] = environ[q] /\ at'[q] = at[q] /\ scan'[q] = scan[q]
               /\ step'[q] = step[q] /\ promise'[q] = promise[q],
           ScanOf(p)', PinOf(p)'
    PROVE  SessionInv'
  <1>1. ASSUME NEW q \in Workers
        PROVE  IsEnvironment(environ'[q]) /\ ScanOf(q)' /\ PinOf(q)'
    <2>1. CASE q = p
      BY <2>1
    <2>2. CASE q # p
      <3>1. /\ environ'[q] = environ[q] /\ at'[q] = at[q] /\ scan'[q] = scan[q]
            /\ step'[q] = step[q] /\ promise'[q] = promise[q]
        BY <2>2
      <3>2. IsEnvironment(environ[q]) /\ ScanOf(q) /\ PinOf(q)
        BY DEF SessionInv, SessionTypes, ScanInv, PinInv
      <3>3. ScanOf(q)'
        BY <3>1, <3>2 DEF ScanOf, WholeFile
      <3>4. PinOf(q)'
        BY <3>1, <3>2 DEF PinOf
      <3> QED
        BY <3>1, <3>2, <3>3, <3>4
    <2> QED
      BY <2>1, <2>2
  <1>2. \A q \in Workers : IsEnvironment(environ[q])'
    BY <1>1 DEF IsEnvironment, Family
  <1>3. transcript' = transcript /\ conf' = conf
    OBVIOUS
  <1>4. SessionTypes'
    BY <1>1, <1>3 DEF SessionInv, SessionTypes
  <1> QED
    BY <1>1, <1>4 DEF SessionInv, ScanInv, PinInv

LEMMA SessionStarts ==
    ASSUME ConstantsAreSound
    PROVE  SessionInit => SessionInv
  <1> SUFFICES ASSUME SessionInit PROVE SessionInv
    OBVIOUS
  <1>1. /\ transcript \in [Files -> Seq(Bytes)] /\ conf \in Confs
        /\ pinning \in BOOLEAN
        /\ at \in [Workers -> {"idle", "absent"}]
        /\ scan = [p \in Workers |-> NoScan]
        /\ step = [p \in Workers |-> NoStep]
        /\ promise = [p \in Workers |-> NoPromise]
    <2>1. <<>> \in Seq(Bytes)
      OBVIOUS
    <2> QED
      BY <2>1 DEF SessionInit
  <1>2. /\ NoScan \in Scans /\ NoStep \in StepRecords
        /\ NoPromise \in Promises
        /\ NoPromise.model = Unset /\ NoPromise.effort = Unset
    BY DEF NoScan, NoStep, NoPromise, Scans, StepRecords, Promises
  <1>3. environ = [p \in Workers |-> environ[p]] /\ \A p \in Workers : IsEnvironment(environ[p])
    <2>1. PICK e \in Envs : environ = [p \in Workers |-> e]
      BY DEF SessionInit
    <2>2. IsEnvironment(e)
      BY DEF ConstantsAreSound
    <2> QED
      BY <2>1, <2>2
  <1>4. SessionTypes
    BY <1>1, <1>2, <1>3 DEF SessionTypes, Places
  <1>5. \A p \in Workers : ScanOf(p) /\ PinOf(p)
    BY <1>1, <1>2 DEF ScanOf, PinOf, Looking
  <1> QED
    BY <1>4, <1>5 DEF SessionInv, ScanInv, PinInv

LEMMA EditKeeps ==
    ASSUME SessionInv, EditConf
    PROVE  SessionInv'
  <1>1. conf' \in Confs /\ UNCHANGED <<transcript, environ, at, pinning, scan, step, promise>>
    BY DEF EditConf
  <1>2. SessionTypes'
    BY <1>1 DEF SessionInv, SessionTypes
  <1>3. \A p \in Workers : ScanOf(p)' /\ PinOf(p)'
    BY <1>1 DEF SessionInv, ScanInv, PinInv, ScanOf, PinOf, WholeFile
  <1> QED
    BY <1>2, <1>3 DEF SessionInv, ScanInv, PinInv

\* The lookup of a process leaves its environment, its promise and its step.
LookUpOf(p, to, s) ==
    /\ at' = [at EXCEPT ![p] = to] /\ scan' = [scan EXCEPT ![p] = s]
    /\ UNCHANGED <<transcript, conf, environ, step, promise>> /\ pinning' \in BOOLEAN

LEMMA LookUpKeeps ==
    ASSUME SessionInv, NEW p \in Workers, NEW to \in Looking, NEW s \in Scans, LookUpOf(p, to, s),
           environ[p].sessionModel = Unset, at[p] # "absent",
           to # "looking" => s.file \in Files,
           to = "reading" => /\ s.found = Unset
                             /\ ReadingAt(transcript[s.file], s.size, s.pos, s.cut),
           to = "read" => /\ s.size <= Len(transcript[s.file])
                          /\ s.found = LastModel(transcript[s.file],
                                           Lines(transcript[s.file], 1, s.size))
    PROVE  SessionInv'
  <1>1. /\ at \in [Workers -> Places] /\ scan \in [Workers -> Scans]
        /\ step \in [Workers -> StepRecords] /\ promise \in [Workers -> Promises]
        /\ environ = [q \in Workers |-> environ[q]] /\ IsEnvironment(environ[p])
        /\ PinOf(p)
    BY DEF SessionInv, SessionTypes, PinInv
  <1>2. /\ at' = [at EXCEPT ![p] = to] /\ scan' = [scan EXCEPT ![p] = s]
        /\ UNCHANGED <<transcript, conf, environ, step, promise>> /\ pinning' \in BOOLEAN
    BY DEF LookUpOf
  <1>3. at'[p] = to /\ scan'[p] = s /\ to \in Places
    BY <1>1, <1>2 DEF Looking, Places
  <1>4. /\ at' \in [Workers -> Places] /\ scan' \in [Workers -> Scans]
        /\ \A q \in Workers \ {p} : at'[q] = at[q] /\ scan'[q] = scan[q]
    BY <1>1, <1>2, <1>3
  <1>5. ScanOf(p)'
    BY <1>2, <1>3 DEF ScanOf, WholeFile, Looking
  <1>6. PinOf(p)'
    BY <1>1, <1>2, <1>3 DEF PinOf, Looking
  <1> QED
    BY <1>1, <1>2, <1>4, <1>5, <1>6, ProcessMoves

\* What the invariant says of one that looks.
LEMMA LookingHas ==
    ASSUME SessionInv, NEW p \in Workers, at[p] \in Looking
    PROVE  /\ environ[p].sessionModel = Unset /\ at[p] # "absent" /\ scan[p] \in Scans
           /\ at[p] # "looking" =>
                  scan[p].file \in Files /\ transcript[scan[p].file] \in Seq(Bytes)
           /\ ScanOf(p)
  <1>1. ScanOf(p) /\ PinOf(p) /\ scan[p] \in Scans /\ transcript \in [Files -> Seq(Bytes)]
    BY DEF SessionInv, SessionTypes, ScanInv, PinInv
  <1> QED
    BY <1>1 DEF ScanOf, PinOf, Looking

LEMMA OpenKeeps ==
    ASSUME SessionInv, NEW p \in Workers, NEW f \in Files, OpenFile(p, f)
    PROVE  SessionInv'
  <1> DEFINE n == Len(transcript[f])
             s == [todo |-> scan[p].todo \ {f}, file |-> f, size |-> n, pos |-> n, cut |-> n,
                   found |-> Unset]
  <1>1. at[p] = "looking" /\ LookUpOf(p, "reading", s)
    BY DEF OpenFile, MoveTo, LookUpOf, SessionInv, SessionTypes
  <1>2. transcript[f] \in Seq(Bytes) /\ n \in Nat
    BY DEF SessionInv, SessionTypes
  <1>3. environ[p].sessionModel = Unset /\ scan[p] \in Scans
    BY <1>1, LookingHas DEF Looking
  <1>4. s \in Scans
    BY <1>2, <1>3 DEF Scans
  <1>5. ReadingAt(transcript[f], n, n, n)
    BY <1>2, ReadingBegins
  <1> QED
    BY <1>1, <1>3, <1>4, <1>5, LookUpKeeps DEF Looking

LEMMA OpenFailsKeeps ==
    ASSUME SessionInv, NEW p \in Workers, NEW f \in Files, OpenFails(p, f)
    PROVE  SessionInv'
  <1> DEFINE s == [scan[p] EXCEPT !.todo = @ \ {f}]
  <1>1. at[p] = "looking"
    BY DEF OpenFails
  <1>2. environ[p].sessionModel = Unset /\ scan[p] \in Scans
    BY <1>1, LookingHas DEF Looking
  <1>3. s \in Scans
    BY <1>2 DEF Scans
  <1>4. at' = [at EXCEPT ![p] = "looking"]
    BY <1>1 DEF OpenFails, SessionInv, SessionTypes
  <1>5. LookUpOf(p, "looking", s)
    BY <1>4 DEF OpenFails, LookUpOf, SessionInv, SessionTypes
  <1> QED
    BY <1>1, <1>2, <1>3, <1>5, LookUpKeeps DEF Looking

LEMMA ReadKeeps ==
    ASSUME SessionInv, ConstantsAreSound, NEW p \in Workers, ReadChunk(p)
    PROVE  SessionInv'
  <1> DEFINE f == transcript[scan[p].file]
             model == LastModel(f, Complete(f, scan[p]))
             s == [scan[p] EXCEPT !.pos = ChunkStart(scan[p]), !.found = model,
                                  !.cut = TailEnd(f, scan[p])]
             to == IF model # Unset THEN "read" ELSE "reading"
  <1>1. at[p] = "reading" /\ scan[p].pos > 0 /\ scan' = [scan EXCEPT ![p] = s]
        /\ UNCHANGED <<transcript, conf, environ, pinning, step, promise>>
        /\ IF model # Unset THEN at' = [at EXCEPT ![p] = "read"] ELSE at' = at
    BY DEF ReadChunk, MoveTo
  <1>2. /\ environ[p].sessionModel = Unset /\ scan[p] \in Scans /\ scan[p].file \in Files
        /\ f \in Seq(Bytes) /\ ReadingAt(f, scan[p].size, scan[p].pos, scan[p].cut)
    BY <1>1, LookingHas DEF Looking, ScanOf
  <1>3. /\ model \in Models \cup {Unset}
        /\ ChunkStart(scan[p]) \in Nat /\ TailEnd(f, scan[p]) \in Nat
        /\ model # Unset => model = LastModel(f, Lines(f, 1, scan[p].size))
        /\ model = Unset => ReadingAt(f, scan[p].size, ChunkStart(scan[p]),
                                     TailEnd(f, scan[p]))
    BY <1>1, <1>2, ChunkRead
  <1>4. scan[p].size <= Len(f)
    BY <1>2 DEF ReadingAt
  <1> HIDE DEF f, model
  <1>5. /\ s \in Scans /\ s.file = scan[p].file /\ s.size = scan[p].size
        /\ s.pos = ChunkStart(scan[p]) /\ s.cut = TailEnd(f, scan[p])
        /\ s.found = model
    BY <1>2, <1>3 DEF Scans
  <1>6. LookUpOf(p, to, s)
    BY <1>1 DEF LookUpOf, SessionInv, SessionTypes
  <1> HIDE DEF s
  <1>7. to \in Looking /\ (to = "read" <=> model # Unset) /\ (to = "reading" <=> model = Unset)
    BY DEF Looking
  <1> HIDE DEF to
  <1>8. to = "reading" => /\ s.found = Unset
                          /\ ReadingAt(transcript[s.file], s.size, s.pos, s.cut)
    BY <1>3, <1>5, <1>7 DEF f
  <1>9. to = "read" => /\ s.size <= Len(transcript[s.file])
                       /\ s.found = LastModel(transcript[s.file],
                                        Lines(transcript[s.file], 1, s.size))
    BY <1>3, <1>4, <1>5, <1>7 DEF f
  <1> QED
    BY <1>1, <1>2, <1>5, <1>6, <1>7, <1>8, <1>9, LookUpKeeps

LEMMA ReadStartKeeps ==
    ASSUME SessionInv, NEW p \in Workers, ReadStart(p)
    PROVE  SessionInv'
  <1> DEFINE f == transcript[scan[p].file]
             whole == Lines(f, 1, scan[p].size)
  <1>1. /\ at[p] = "reading" /\ scan[p].pos = 0 /\ at' = [at EXCEPT ![p] = "read"]
        /\ UNCHANGED <<transcript, conf, environ, pinning, scan, step, promise>>
    BY DEF ReadStart, MoveTo
  <1>2. /\ environ[p].sessionModel = Unset /\ scan[p] \in Scans /\ scan[p].file \in Files
        /\ scan[p].found = Unset /\ ReadingAt(f, scan[p].size, scan[p].pos, scan[p].cut)
    BY <1>1, LookingHas DEF Looking, ScanOf
  <1>3. /\ scan[p].size \in Nat /\ scan[p].size <= Len(f)
        /\ \A l \in whole : ModelAt(f, l) = Unset
    BY <1>1, <1>2 DEF ReadingAt
  <1>4. Turns(f, whole) = {}
    BY <1>3 DEF Turns
  <1>5. LastModel(f, whole) = Unset
    <2>1. 1 \in Nat
      OBVIOUS
    <2> QED
      BY <1>3, <1>4, <2>1, LastModelIs
  <1>6. LookUpOf(p, "read", scan[p])
    BY <1>1 DEF LookUpOf, SessionInv, SessionTypes
  <1> QED
    BY <1>1, <1>2, <1>3, <1>5, <1>6, LookUpKeeps DEF Looking

LEMMA NextFileKeeps ==
    ASSUME SessionInv, NEW p \in Workers, NextFile(p)
    PROVE  SessionInv'
  <1>1. /\ at[p] = "read" /\ at' = [at EXCEPT ![p] = "looking"]
        /\ UNCHANGED <<transcript, conf, environ, pinning, scan, step, promise>>
    BY DEF NextFile, MoveTo
  <1>2. environ[p].sessionModel = Unset /\ scan[p] \in Scans
    BY <1>1, LookingHas DEF Looking
  <1>3. LookUpOf(p, "looking", scan[p])
    BY <1>1 DEF LookUpOf, SessionInv, SessionTypes
  <1> QED
    BY <1>1, <1>2, <1>3, LookUpKeeps DEF Looking

\* A process that begins a lookup has not found anything.
LEMMA LookUpBegins ==
    ASSUME SessionInv, NEW p \in Workers, at[p] = "idle", environ[p].sessionModel = Unset,
           LookUp(p), UNCHANGED <<transcript, conf, environ, step, promise>>,
           pinning' \in BOOLEAN
    PROVE  SessionInv'
  <1> DEFINE s == [NoScan EXCEPT !.todo = {f \in Files : transcript[f] # <<>>}]
  <1>1. s \in Scans
    BY DEF NoScan, Scans
  <1>2. LookUpOf(p, "looking", s)
    BY DEF LookUp, MoveTo, LookUpOf
  <1> QED
    BY <1>1, <1>2, LookUpKeeps DEF Looking

\* A step of a process that looks for nothing.
LEMMA StepKeeps ==
    ASSUME SessionInv, NEW p \in Workers, NEW to \in {"idle", "effort", "run"}, NEW s \in StepRecords,
           UNCHANGED <<transcript, conf, environ, pinning, promise>>,
           at' = [at EXCEPT ![p] = to], step' = [step EXCEPT ![p] = s],
           scan' = scan \/ scan' = [scan EXCEPT ![p] = NoScan],
           to = "effort" /\ promise[p].model # Unset =>
               s.from = "config" \/ s.model = promise[p].model
    PROVE  SessionInv'
  <1>1. /\ at \in [Workers -> Places] /\ scan \in [Workers -> Scans] /\ pinning \in BOOLEAN
        /\ step \in [Workers -> StepRecords] /\ promise \in [Workers -> Promises]
        /\ environ = [q \in Workers |-> environ[q]] /\ IsEnvironment(environ[p])
        /\ PinOf(p)
    BY DEF SessionInv, SessionTypes, PinInv
  <1>2. NoScan \in Scans
    BY DEF NoScan, Scans
  <1>3. at'[p] = to /\ step'[p] = s /\ to \in Places
    BY <1>1 DEF Places
  <1>4. /\ at' \in [Workers -> Places] /\ scan' \in [Workers -> Scans]
        /\ step' \in [Workers -> StepRecords]
        /\ \A q \in Workers \ {p} : at'[q] = at[q] /\ scan'[q] = scan[q] /\ step'[q] = step[q]
    BY <1>1, <1>2, <1>3
  <1>5. ScanOf(p)'
    BY <1>3 DEF ScanOf
  <1>6. PinOf(p)'
    BY <1>1, <1>3 DEF PinOf, Looking
  <1> QED
    BY <1>1, <1>4, <1>5, <1>6, ProcessMoves

LEMMA BeginStepKeeps ==
    ASSUME SessionInv, ConstantsAreSound, NEW p \in Workers, BeginStep(p)
    PROVE  SessionInv'
  <1> DEFINE value == ConfiguredModel(environ[p].model, conf.model)
  <1>1. /\ at[p] = "idle" /\ UNCHANGED <<transcript, conf, environ, pinning, promise>>
        /\ \/ /\ value # Unset
              /\ Runs(p, ExpandFamily(value), "config") /\ UNCHANGED scan
           \/ /\ value = Unset /\ Pinned(environ[p]) # Unset
              /\ Runs(p, Pinned(environ[p]), "pin") /\ UNCHANGED scan
           \/ /\ value = Unset /\ Pinned(environ[p]) = Unset
              /\ LookUp(p) /\ UNCHANGED step
    BY DEF BeginStep
  <1>2. /\ conf \in Confs /\ IsEnvironment(environ[p]) /\ PinOf(p) /\ pinning \in BOOLEAN
    BY DEF SessionInv, SessionTypes, PinInv
  <1>3. environ[p].model \in Models \cup Family \cup {Unset}
    BY <1>2 DEF IsEnvironment
  <1>4. environ[p].sessionModel \in Models \cup {Unset}
    BY <1>2 DEF IsEnvironment
  <1>5. CASE /\ value # Unset /\ Runs(p, ExpandFamily(value), "config")
             /\ UNCHANGED scan
    <2>1. value \in Models \cup Family
      BY <1>2, <1>3, <1>5 DEF ConfiguredModel, ConstantsAreSound
    <2>2. ExpandFamily(value) \in Models
      BY <2>1 DEF ExpandFamily, ConstantsAreSound
    <2> DEFINE s == [model |-> ExpandFamily(value), from |-> "config", effort |-> Unset]
    <2>3. s \in StepRecords /\ s.from = "config"
      BY <2>2 DEF StepRecords
    <2>4. at' = [at EXCEPT ![p] = "effort"] /\ step' = [step EXCEPT ![p] = s] /\ scan' = scan
      BY <1>5 DEF Runs, MoveTo
    <2> QED
      BY <1>1, <2>3, <2>4, StepKeeps
  <1>6. CASE /\ value = Unset /\ Pinned(environ[p]) # Unset
             /\ Runs(p, Pinned(environ[p]), "pin") /\ UNCHANGED scan
    <2> DEFINE s == [model |-> environ[p].sessionModel, from |-> "pin", effort |-> Unset]
    <2>1. s \in StepRecords /\ s.model = environ[p].sessionModel
      BY <1>4 DEF StepRecords
    <2>2. at' = [at EXCEPT ![p] = "effort"] /\ step' = [step EXCEPT ![p] = s] /\ scan' = scan
      BY <1>6 DEF Runs, MoveTo, Pinned
    <2>3. promise[p].model # Unset => s.model = promise[p].model
      BY <1>2, <2>1 DEF PinOf
    <2> HIDE DEF s
    <2> QED
      BY <1>1, <2>1, <2>2, <2>3, StepKeeps
  <1>7. CASE /\ value = Unset /\ Pinned(environ[p]) = Unset
             /\ LookUp(p) /\ UNCHANGED step
    BY <1>1, <1>2, <1>7, LookUpBegins DEF Pinned
  <1> QED
    BY <1>1, <1>5, <1>6, <1>7

LEMMA ConcludesLooking ==
    ASSUME NEW p \in Workers, Concludes(p)
    PROVE  at[p] \in Looking
  BY DEF Concludes, Looking

LEMMA EndLookUpKeeps ==
    ASSUME SessionInv, NEW p \in Workers, EndLookUp(p)
    PROVE  SessionInv'
  <1> DEFINE from == IF scan[p].found # Unset THEN "transcript" ELSE "nothing"
             s == [model |-> scan[p].found, from |-> from, effort |-> Unset]
  <1>1. /\ at' = [at EXCEPT ![p] = "effort"] /\ step' = [step EXCEPT ![p] = s]
        /\ scan' = [scan EXCEPT ![p] = NoScan]
        /\ UNCHANGED <<transcript, conf, environ, pinning, promise>> /\ at[p] \in Looking
    BY ConcludesLooking DEF EndLookUp, Runs, MoveTo
  <1>2. environ[p].sessionModel = Unset /\ scan[p] \in Scans
    BY <1>1, LookingHas
  <1>3. s \in StepRecords
    BY <1>2 DEF StepRecords, Scans
  <1>4. promise[p].model = Unset
    BY <1>2 DEF SessionInv, PinInv, PinOf
  <1> QED
    BY <1>1, <1>3, <1>4, StepKeeps

LEMMA EffortIs ==
    ASSUME NEW e, NEW c, ConstantsAreSound
    PROVE  /\ DefaultEffort(e, c) \in KnownEfforts \cup {Unset}
           /\ e.sessionEffort \in KnownEfforts =>
                  /\ SessionEffort(e) = e.sessionEffort
                  /\ DefaultEffort(e, c)
                         \in {e.sessionEffort, ConfiguredModel(e.effort, c.effort)}
           /\ SessionEffort(e) \in KnownEfforts \cup {Unset}
  BY DEF DefaultEffort, SessionEffort

LEMMA EndStepKeeps ==
    ASSUME SessionInv, ConstantsAreSound, NEW p \in Workers, EndStep(p)
    PROVE  SessionInv'
  <1> DEFINE s == [step[p] EXCEPT !.effort = DefaultEffort(environ[p], conf)]
  <1>1. /\ at' = [at EXCEPT ![p] = "run"]
        /\ UNCHANGED <<transcript, conf, environ, pinning, scan, promise>>
    BY DEF EndStep, MoveTo
  <1>2. step' = [step EXCEPT ![p] = s]
    BY DEF EndStep
  <1>3. step[p] \in StepRecords
    BY DEF SessionInv, SessionTypes
  <1>4. s \in StepRecords
    BY <1>3, EffortIs DEF StepRecords
  <1> QED
    BY <1>1, <1>2, <1>4, StepKeeps

LEMMA RunKeeps ==
    ASSUME SessionInv, NEW p \in Workers, RunStep(p)
    PROVE  SessionInv'
  <1>1. /\ at' = [at EXCEPT ![p] = "idle"] /\ step' = [step EXCEPT ![p] = NoStep]
        /\ UNCHANGED <<transcript, conf, environ, pinning, scan, promise>>
    BY DEF RunStep, MoveTo
  <1>2. NoStep \in StepRecords
    BY DEF NoStep, StepRecords
  <1> QED
    BY <1>1, <1>2, StepKeeps

\* A child gets the environment and the promise of its parent.
LEMMA SpawnKeeps ==
    ASSUME SessionInv, ConstantsAreSound, NEW p \in Workers, Spawn(p)
    PROVE  SessionInv'
  <1>1. /\ at[p] = "absent" /\ at[Main] = "idle" /\ at' = [at EXCEPT ![p] = "idle"]
        /\ environ' = [environ EXCEPT ![p] = environ[Main]]
        /\ promise' = [promise EXCEPT ![p] = promise[Main]]
        /\ UNCHANGED <<transcript, conf, pinning, scan, step>>
    BY DEF Spawn, MoveTo
  <1>2. Main \in Workers /\ PinOf(Main)
    BY DEF SessionInv, PinInv, ConstantsAreSound
  <1>3. /\ at \in [Workers -> Places] /\ scan \in [Workers -> Scans] /\ pinning \in BOOLEAN
        /\ step \in [Workers -> StepRecords] /\ promise \in [Workers -> Promises]
        /\ environ = [q \in Workers |-> environ[q]] /\ IsEnvironment(environ[Main])
    BY <1>2 DEF SessionInv, SessionTypes
  <1>4. /\ at'[p] = "idle" /\ environ'[p] = environ[Main] /\ promise'[p] = promise[Main]
        /\ at' \in [Workers -> Places] /\ promise' \in [Workers -> Promises]
        /\ environ' = [q \in Workers |-> environ'[q]]
        /\ \A q \in Workers \ {p} :
               environ'[q] = environ[q] /\ at'[q] = at[q] /\ promise'[q] = promise[q]
    BY <1>1, <1>2, <1>3 DEF Places
  <1>5. ScanOf(p)'
    BY <1>4 DEF ScanOf
  <1>6. PinOf(p)'
    BY <1>2, <1>4 DEF PinOf, Looking
  <1>7. IsEnvironment(environ'[p])
    BY <1>3, <1>4
  <1> QED
    BY <1>1, <1>3, <1>4, <1>5, <1>6, <1>7, ProcessMoves

\* A pin repeated keeps what was promised first, and exports it again.
LEMMA PinToIs ==
    ASSUME SessionInv, ConstantsAreSound, NEW m \in Models \cup {Unset}, PinTo(m),
           environ[Main].sessionModel \in {m, Unset}
    PROVE  /\ environ' = [q \in Workers |-> environ'[q]] /\ IsEnvironment(environ'[Main])
           /\ promise' \in [Workers -> Promises]
           /\ \A q \in Workers \ {Main} : environ'[q] = environ[q] /\ promise'[q] = promise[q]
           /\ promise'[Main].model # Unset => environ'[Main].sessionModel = promise'[Main].model
           /\ promise'[Main].effort # Unset =>
                  environ'[Main].sessionEffort = promise'[Main].effort
           /\ promise[Main].model # Unset => promise'[Main].model = promise[Main].model
           /\ promise[Main].effort # Unset => promise'[Main].effort = promise[Main].effort
  <1> DEFINE old == environ[Main]
             effort == SessionEffort(old)
             sm == OrElse(m, old.sessionModel)
             se == OrElse(effort, old.sessionEffort)
             pm == OrElse(promise[Main].model, m)
             pe == OrElse(promise[Main].effort, effort)
             pr == [promise[Main] EXCEPT !.model = pm, !.effort = pe]
  <1>1. /\ Main \in Workers /\ Unset \notin KnownEfforts
        /\ environ = [q \in Workers |-> environ[q]] /\ IsEnvironment(old)
        /\ promise \in [Workers -> Promises] /\ promise[Main] \in Promises /\ PinOf(Main)
    BY DEF SessionInv, SessionTypes, PinInv, ConstantsAreSound
  <1>2. /\ environ' = [environ EXCEPT ![Main] =
                           [environ[Main] EXCEPT !.sessionModel = sm, !.sessionEffort = se]]
        /\ promise' = [promise EXCEPT ![Main] = pr]
    <2>1. /\ environ' = [environ EXCEPT ![Main].sessionModel = OrElse(m, @),
                                        ![Main].sessionEffort = OrElse(effort, @)]
          /\ promise' = [promise EXCEPT ![Main].model = OrElse(@, m),
                                        ![Main].effort = OrElse(@, effort)]
      BY DEF PinTo
    <2>2. old \in [model : Models \cup Family \cup {Unset},
                   sessionModel : Models \cup {Unset},
                   effort : {old.effort}, sessionEffort : {old.sessionEffort},
                   claudeEffort : {old.claudeEffort}]
      BY <1>1 DEF IsEnvironment
    <2> HIDE DEF effort
    <2>3. /\ environ' = [environ EXCEPT ![Main] =
                  [environ[Main] EXCEPT !.sessionModel = sm, !.sessionEffort = se]]
      BY <1>1, <2>1, <2>2
    <2>4. promise' = [promise EXCEPT ![Main] = pr]
      BY <1>1, <2>1 DEF Promises
    <2> QED
      BY <2>3, <2>4
  <1>3. old.sessionModel \in Models \cup {Unset}
    BY <1>1 DEF IsEnvironment
  <1>4. sm \in Models \cup {Unset} /\ sm = m
    BY <1>3 DEF OrElse
  <1>5. effort \in KnownEfforts \cup {Unset}
    BY EffortIs
  <1>6. /\ environ'[Main] = [old EXCEPT !.sessionModel = sm, !.sessionEffort = se]
        /\ environ' = [q \in Workers |-> environ'[q]]
        /\ \A q \in Workers \ {Main} : environ'[q] = environ[q]
    BY <1>1, <1>2
  <1>7. /\ IsEnvironment(environ'[Main])
        /\ environ'[Main].sessionModel = m /\ environ'[Main].sessionEffort = se
    <2> DEFINE new == environ'[Main]
    <2>1. new = [old EXCEPT !.sessionModel = m, !.sessionEffort = se] /\ IsEnvironment(old)
      BY <1>1, <1>4, <1>6
    <2> HIDE DEF new, old, se
    <2>2. old \in [model : Models \cup Family \cup {Unset},
                   sessionModel : Models \cup {Unset},
                   effort : {old.effort}, sessionEffort : {old.sessionEffort},
                   claudeEffort : {old.claudeEffort}]
      BY <2>1 DEF IsEnvironment
    <2>3. /\ new.sessionModel = m /\ new.sessionEffort = se /\ new.effort = old.effort
          /\ new.claudeEffort = old.claudeEffort /\ new.model = old.model
      BY <2>1, <2>2
    <2>4. new \in [model : Models \cup Family \cup {Unset},
                   sessionModel : Models \cup {Unset},
                   effort : {new.effort}, sessionEffort : {new.sessionEffort},
                   claudeEffort : {new.claudeEffort}]
      BY <2>1, <2>2, <2>3
    <2> QED
      BY <2>3, <2>4 DEF new, IsEnvironment
  <1>8. pm \in Models \cup {Unset} /\ pe \in KnownEfforts \cup {Unset}
    BY <1>1, <1>5 DEF OrElse, Promises
  <1>9. pr \in Promises /\ pr.model = pm /\ pr.effort = pe
    BY <1>1, <1>8 DEF Promises
  <1>10. /\ promise' \in [Workers -> Promises] /\ promise'[Main] = pr
         /\ \A q \in Workers \ {Main} : promise'[q] = promise[q]
    BY <1>1, <1>2, <1>9
  <1>11. /\ promise[Main].model # Unset => old.sessionModel = promise[Main].model
         /\ promise[Main].effort # Unset => /\ old.sessionEffort = promise[Main].effort
                                            /\ promise[Main].effort \in KnownEfforts
    BY <1>1 DEF PinOf, Promises
  <1>12. promise[Main].effort # Unset => effort = promise[Main].effort
    BY <1>11, EffortIs
  <1> HIDE DEF effort, pr
  <1>13. /\ pm # Unset => m = pm
         /\ promise[Main].model # Unset => pm = promise[Main].model
    BY <1>11 DEF OrElse
  <1>14. /\ pe # Unset => se = pe
         /\ promise[Main].effort # Unset => pe = promise[Main].effort
    BY <1>11, <1>12 DEF OrElse
  <1> QED
    BY <1>6, <1>7, <1>9, <1>10, <1>13, <1>14

LEMMA BeginPinKeeps ==
    ASSUME SessionInv, ConstantsAreSound, BeginPin
    PROVE  SessionInv'
  <1>1. /\ at[Main] = "idle" /\ UNCHANGED <<transcript, conf, step>>
        /\ \/ /\ environ[Main].sessionModel # Unset /\ PinTo(environ[Main].sessionModel)
              /\ UNCHANGED <<at, pinning, scan>>
           \/ /\ environ[Main].sessionModel = Unset /\ LookUp(Main) /\ pinning' = TRUE
              /\ UNCHANGED <<environ, promise>>
    BY DEF BeginPin, Pinned
  <1>2. /\ Main \in Workers /\ at \in [Workers -> Places] /\ scan \in [Workers -> Scans]
        /\ step \in [Workers -> StepRecords] /\ pinning \in BOOLEAN /\ ScanOf(Main) /\ PinOf(Main)
        /\ IsEnvironment(environ[Main])
    BY DEF SessionInv, SessionTypes, ScanInv, PinInv, ConstantsAreSound
  <1>3. CASE /\ environ[Main].sessionModel # Unset
             /\ PinTo(environ[Main].sessionModel) /\ UNCHANGED <<at, pinning, scan>>
    <2>1. environ[Main].sessionModel \in Models \cup {Unset}
      BY <1>2 DEF IsEnvironment
    <2>2. /\ environ' = [q \in Workers |-> environ'[q]] /\ IsEnvironment(environ'[Main])
          /\ promise' \in [Workers -> Promises]
          /\ \A q \in Workers \ {Main} : environ'[q] = environ[q] /\ promise'[q] = promise[q]
          /\ promise'[Main].model # Unset => environ'[Main].sessionModel = promise'[Main].model
          /\ promise'[Main].effort # Unset =>
                 environ'[Main].sessionEffort = promise'[Main].effort
      BY <1>3, <2>1, PinToIs
    <2>3. ScanOf(Main)' /\ PinOf(Main)'
      BY <1>1, <1>2, <1>3, <2>2 DEF ScanOf, PinOf, Looking
    <2> QED
      BY <1>1, <1>2, <1>3, <2>2, <2>3, ProcessMoves
  <1>4. CASE /\ environ[Main].sessionModel = Unset /\ LookUp(Main) /\ pinning' = TRUE
             /\ UNCHANGED <<environ, promise>>
    BY <1>1, <1>2, <1>4, LookUpBegins
  <1> QED
    BY <1>1, <1>3, <1>4

LEMMA EndPinKeeps ==
    ASSUME SessionInv, ConstantsAreSound, EndPin
    PROVE  SessionInv'
  <1>1. /\ PinTo(scan[Main].found) /\ at' = [at EXCEPT ![Main] = "idle"]
        /\ pinning' = FALSE /\ scan' = [scan EXCEPT ![Main] = NoScan]
        /\ UNCHANGED <<transcript, conf, step>> /\ Concludes(Main)
    BY DEF EndPin, MoveTo
  <1>2. /\ Main \in Workers /\ at \in [Workers -> Places] /\ scan \in [Workers -> Scans]
        /\ step \in [Workers -> StepRecords]
    BY DEF SessionInv, SessionTypes, ConstantsAreSound
  <1>3. environ[Main].sessionModel = Unset /\ scan[Main].found \in Models \cup {Unset}
    BY <1>1, <1>2, ConcludesLooking, LookingHas DEF Scans
  <1>4. /\ environ' = [q \in Workers |-> environ'[q]] /\ IsEnvironment(environ'[Main])
        /\ promise' \in [Workers -> Promises]
        /\ \A q \in Workers \ {Main} : environ'[q] = environ[q] /\ promise'[q] = promise[q]
        /\ promise'[Main].model # Unset => environ'[Main].sessionModel = promise'[Main].model
        /\ promise'[Main].effort # Unset => environ'[Main].sessionEffort = promise'[Main].effort
    BY <1>1, <1>3, PinToIs
  <1>5. NoScan \in Scans
    BY DEF NoScan, Scans
  <1>6. /\ at'[Main] = "idle" /\ at' \in [Workers -> Places] /\ scan' \in [Workers -> Scans]
        /\ \A q \in Workers \ {Main} : at'[q] = at[q] /\ scan'[q] = scan[q]
    BY <1>1, <1>2, <1>5 DEF Places
  <1>7. ScanOf(Main)' /\ PinOf(Main)'
    BY <1>4, <1>6 DEF ScanOf, PinOf, Looking
  <1> QED
    BY <1>1, <1>2, <1>4, <1>6, <1>7, ProcessMoves

LEMMA ProcessKeeps ==
    ASSUME SessionInv, ConstantsAreSound, NEW p \in Workers,
           BeginStep(p) \/ Spawn(p) \/ Proceed(p)
    PROVE  SessionInv'
  <1>1. CASE \E f \in Files : OpenFile(p, f) \/ OpenFails(p, f)
    BY <1>1, OpenKeeps, OpenFailsKeeps
  <1>2. CASE ReadChunk(p) \/ ReadStart(p) \/ NextFile(p)
    BY <1>2, ReadKeeps, ReadStartKeeps, NextFileKeeps
  <1>3. CASE EndLookUp(p) \/ EndStep(p) \/ RunStep(p)
    BY <1>3, EndLookUpKeeps, EndStepKeeps, RunKeeps
  <1>4. CASE p = Main /\ EndPin
    BY <1>4, EndPinKeeps
  <1>5. CASE BeginStep(p) \/ Spawn(p)
    BY <1>5, BeginStepKeeps, SpawnKeeps
  <1> QED
    BY <1>1, <1>2, <1>3, <1>4, <1>5 DEF Proceed

LEMMA SessionStepKeeps ==
    ASSUME SessionInv, ConstantsAreSound, [SessionNext]_sessionVars
    PROVE  SessionInv'
  <1>1. CASE \E f \in Files, b \in Bytes : SessionWrites(f, b)
    BY <1>1, WriteKeeps
  <1>2. CASE EditConf \/ BeginPin
    BY <1>2, EditKeeps, BeginPinKeeps
  <1>3. CASE \E p \in Workers : BeginStep(p) \/ Spawn(p) \/ Proceed(p)
    BY <1>3, ProcessKeeps
  <1>4. CASE UNCHANGED sessionVars
    <2>1. UNCHANGED <<transcript, conf, environ, at, pinning, scan, step, promise>>
      BY <1>4 DEF sessionVars
    <2>2. SessionTypes'
      BY <2>1 DEF SessionInv, SessionTypes
    <2>3. \A p \in Workers : ScanOf(p)' /\ PinOf(p)'
      BY <2>1 DEF SessionInv, ScanInv, PinInv, ScanOf, PinOf, WholeFile
    <2> QED
      BY <2>2, <2>3 DEF SessionInv, ScanInv, PinInv
  <1> QED
    BY <1>1, <1>2, <1>3, <1>4 DEF SessionNext

LEMMA SessionInvariant == SessionSpec => []SessionInv
  <1>1. SessionInit => SessionInv
    BY SessionAssumption, SessionStarts
  <1>2. SessionInv /\ [SessionNext]_sessionVars => SessionInv'
    BY SessionAssumption, SessionStepKeeps
  <1> QED
    BY <1>1, <1>2, PTL DEF SessionSpec

\* The files, bytes, lookups and steps stay what session.py takes them to be,
\* and an effort is one that Claude Code knows.
THEOREM SessionTypeCorrect == SessionSpec => []SessionTypeOK
  <1>1. SessionInv => SessionTypeOK
    BY DEF SessionInv, SessionTypes, ScanInv, ScanOf, SessionTypeOK, Places, Scans, StepRecords
  <1> QED
    BY <1>1, SessionInvariant, PTL

\* _last_model_in finds what reading the whole file would, whatever the size of
\* a chunk and of a line, and whatever is appended meanwhile: ScanFindsLast.
THEOREM LastModelIsFound == SessionSpec => []ScanFindsLast
  <1>1. SessionInv => ScanFindsLast
    BY DEF SessionInv, ScanInv, ScanOf, WholeFile, ScanFindsLast
  <1> QED
    BY <1>1, SessionInvariant, PTL

-----------------------------------------------------------------------------
(* What a pin promises.                                                    *)

\* A promise once made is kept, by whatever step.
LEMMA PromiseStays ==
    ASSUME SessionInv, ConstantsAreSound, [SessionNext]_sessionVars, NEW p \in Workers
    PROVE  /\ promise[p].model # Unset => promise'[p].model = promise[p].model
           /\ promise[p].effort # Unset => promise'[p].effort = promise[p].effort
  <1>1. CASE UNCHANGED promise
    BY <1>1
  <1>2. ASSUME NEW q \in Workers, Spawn(q)
        PROVE  /\ promise[p].model # Unset => promise'[p].model = promise[p].model
               /\ promise[p].effort # Unset => promise'[p].effort = promise[p].effort
    <2>1. at[q] = "absent" /\ promise' = [promise EXCEPT ![q] = promise[Main]]
      BY <1>2 DEF Spawn
    <2>2. promise \in [Workers -> Promises] /\ PinOf(q)
      BY DEF SessionInv, SessionTypes, PinInv
    <2>3. CASE p = q
      <3>1. promise[p].model = Unset /\ promise[p].effort = Unset
        BY <2>1, <2>2, <2>3 DEF PinOf, NoPromise
      <3> QED
        BY <3>1
    <2>4. CASE p # q
      BY <2>1, <2>2, <2>4
    <2> QED
      BY <2>3, <2>4
  <1>3. ASSUME NEW m \in Models \cup {Unset}, PinTo(m),
               environ[Main].sessionModel \in {m, Unset}
        PROVE  /\ promise[p].model # Unset => promise'[p].model = promise[p].model
               /\ promise[p].effort # Unset => promise'[p].effort = promise[p].effort
    <2>1. CASE p = Main
      BY <1>3, <2>1, PinToIs
    <2>2. CASE p # Main
      <3>1. promise'[p] = promise[p]
        BY <1>3, <2>2, PinToIs
      <3> QED
        BY <3>1
    <2> QED
      BY <2>1, <2>2
  <1>4. Main \in Workers /\ IsEnvironment(environ[Main]) /\ scan[Main] \in Scans
    BY DEF SessionInv, SessionTypes, ConstantsAreSound
  <1>5. CASE BeginPin
    <2>1. CASE PinTo(environ[Main].sessionModel)
      <3>1. environ[Main].sessionModel \in Models \cup {Unset}
        BY <1>4 DEF IsEnvironment
      <3> QED
        BY <1>3, <2>1, <3>1
    <2> QED
      BY <1>1, <1>5, <2>1 DEF BeginPin, Pinned
  <1>6. CASE EndPin
    <2>1. PinTo(scan[Main].found) /\ at[Main] \in Looking
      BY <1>4, <1>6, ConcludesLooking DEF EndPin
    <2>2. environ[Main].sessionModel = Unset /\ scan[Main].found \in Models \cup {Unset}
      BY <1>4, <2>1, LookingHas, SMTT(30) DEF Scans
    <2> QED
      BY <1>3, <2>1, <2>2
  <1>7. \/ UNCHANGED promise \/ BeginPin \/ EndPin
        \/ \E q \in Workers : Spawn(q)
    BY DEF SessionNext, sessionVars, SessionWrites, EditConf, BeginStep,
           Proceed, OpenFile, OpenFails, ReadChunk,
           ReadStart, NextFile, EndLookUp, EndStep,
           RunStep
  <1> QED
    BY <1>1, <1>2, <1>5, <1>6, <1>7

\* Only EndStep takes a process from its effort to its run.
LEMMA RunsAfterEndStep ==
    ASSUME SessionInv, ConstantsAreSound, [SessionNext]_sessionVars, NEW p \in Workers,
           at[p] = "effort", at'[p] = "run"
    PROVE  EndStep(p)
  <1>1. at \in [Workers -> Places] /\ Main \in Workers
    BY DEF SessionInv, SessionTypes, ConstantsAreSound
  <1>2. at' # at
    OBVIOUS
  <1>3. \/ BeginPin
        \/ \E q \in Workers : BeginStep(q) \/ Spawn(q) \/ Proceed(q)
    BY <1>2 DEF SessionNext, sessionVars, SessionWrites, EditConf
  <1>4. ASSUME NEW q \in Workers, NEW to, at' = [at EXCEPT ![q] = to], to # "run"
        PROVE  FALSE
    BY <1>1, <1>4
  <1>5. ~BeginPin
    BY <1>1, <1>2, <1>4 DEF BeginPin, LookUp, MoveTo
  <1>6. PICK q \in Workers : BeginStep(q) \/ Spawn(q) \/ Proceed(q)
    BY <1>3, <1>5
  <1>7. ~BeginStep(q) /\ ~Spawn(q)
    BY <1>4 DEF BeginStep, LookUp, Runs, Spawn, MoveTo
  <1>8. /\ \A f \in Files : ~OpenFile(q, f) /\ ~OpenFails(q, f)
        /\ ~ReadChunk(q) /\ ~ReadStart(q) /\ ~NextFile(q)
    BY <1>2, <1>4 DEF OpenFile, OpenFails, ReadChunk, ReadStart,
                      NextFile, MoveTo
  <1>9. ~(q = Main /\ EndPin) /\ ~EndLookUp(q) /\ ~RunStep(q)
    BY <1>4 DEF EndPin, EndLookUp, RunStep, Runs, MoveTo
  <1>10. EndStep(q)
    BY <1>6, <1>7, <1>8, <1>9 DEF Proceed
  <1>11. at' = [at EXCEPT ![q] = "run"]
    BY <1>10 DEF EndStep, MoveTo
  <1>12. q = p
    BY <1>1, <1>11
  <1> QED
    BY <1>10, <1>12

\* A pinned run and its children run with what was pinned: PinHolds, for any
\* processes, transcripts, edits of multiplai.conf and repeated pins.
THEOREM PinIsKept == SessionSpec => PinHolds
  <1> USE SessionAssumption
  <1> DEFINE Kept ==
        \A p \in Workers :
            /\ promise[p].model # Unset =>
                  /\ environ'[p].sessionModel = promise[p].model
                  /\ at'[p] = "effort" => \/ step'[p].from = "config"
                                          \/ step'[p].model = promise[p].model
            /\ promise[p].effort # Unset /\ at[p] = "effort" /\ at'[p] = "run" =>
                  step'[p].effort
                      \in {promise[p].effort, ConfiguredModel(environ[p].effort, conf.effort)}
  <1>1. ASSUME SessionInv, SessionInv', [SessionNext]_sessionVars
        PROVE  Kept
    <2> SUFFICES ASSUME NEW p \in Workers
                 PROVE  /\ promise[p].model # Unset =>
                              /\ environ'[p].sessionModel = promise[p].model
                              /\ at'[p] = "effort" => \/ step'[p].from = "config"
                                                      \/ step'[p].model = promise[p].model
                        /\ promise[p].effort # Unset /\ at[p] = "effort" /\ at'[p] = "run" =>
                              step'[p].effort \in {promise[p].effort,
                                  ConfiguredModel(environ[p].effort, conf.effort)}
      OBVIOUS
    <2>1. PinOf(p) /\ PinOf(p)'
      BY <1>1 DEF SessionInv, PinInv
    <2>2. promise[p].model # Unset => promise'[p].model = promise[p].model
      BY <1>1, PromiseStays
    <2>3. ASSUME promise[p].effort # Unset, at[p] = "effort", at'[p] = "run"
          PROVE  step'[p].effort
                     \in {promise[p].effort, ConfiguredModel(environ[p].effort, conf.effort)}
      <3>1. EndStep(p)
        BY <1>1, <2>3, RunsAfterEndStep
      <3>2. step \in [Workers -> StepRecords] /\ promise[p] \in Promises
        BY <1>1 DEF SessionInv, SessionTypes
      <3>3. step'[p].effort = DefaultEffort(environ[p], conf)
        BY <3>1, <3>2 DEF EndStep, StepRecords
      <3>4. /\ environ[p].sessionEffort = promise[p].effort
            /\ environ[p].sessionEffort \in KnownEfforts
        BY <2>1, <2>3, <3>2 DEF PinOf, Promises
      <3> QED
        BY <3>3, <3>4, EffortIs
    <2> QED
      BY <2>1, <2>2, <2>3 DEF PinOf
  <1>2. ASSUME SessionInv, SessionInv', [SessionNext]_sessionVars
        PROVE  [Kept]_sessionVars
    BY <1>1, <1>2
  <1>3. SessionSpec => [][Kept]_sessionVars
    BY <1>2, SessionInvariant, PTL DEF SessionSpec
  <1> QED
    BY <1>3 DEF PinHolds
=============================================================================

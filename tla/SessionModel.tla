------------------------------ MODULE SessionModel ------------------------------
(***************************************************************************)
(* The model and effort of a step that no configuration names (session.py, *)
(* with load_multiplai_conf and expand_family of env.py).                  *)
(*                                                                         *)
(* Claude Code appends turns to the transcript of a session while          *)
(* processes read it backwards, chunk by chunk, for the last model.  A     *)
(* pipeline may pin what it found in its environment, which its children   *)
(* inherit; multiplai.conf may be edited at any time.  A byte is a part of *)
(* a line, or the newline.  Logging and the parsing of the conf are left   *)
(* out; MULTIPLAI_SESSION_MODEL and CLAUDE_EFFORT are as Claude Code or a  *)
(* parent exported them.                                                   *)
(***************************************************************************)
EXTENDS Integers, Sequences, FiniteSets

CONSTANTS
    Workers, Main,   \* the pipeline and its children
    Files,         \* <session id>.jsonl in one project directory or another
    Models,
    CurrentModel,  \* CURRENT_MODEL: [family alias -> model]
    KnownEfforts,  \* KNOWN_EFFORTS
    Unset,          \* unset, blank, or not found
    Chunk,         \* _CHUNK, in bytes
    MaxBytes,      \* bound: bytes of all transcripts
    MaxTears,      \* bound: lines of a transcript left unfinished
    Confs,         \* bound: contents multiplai.conf may have
    Envs           \* bound: environments the pipeline may be started in

\* A value somebody typed is a model or an alias, an effort may be misspelt.
Family == DOMAIN CurrentModel
IsEnvironment(e) ==
    e \in [model : Models \cup Family \cup {Unset}, sessionModel : Models \cup {Unset},
          effort : {e.effort}, sessionEffort : {e.sessionEffort},
          claudeEffort : {e.claudeEffort}]
ConstantsAreSound ==
    /\ Main \in Workers /\ Chunk \in Nat \ {0} /\ MaxBytes \in Nat /\ MaxTears \in Nat
    /\ CurrentModel \in [Family -> Models]
    /\ Unset \notin Models \cup Family \cup KnownEfforts \cup Files
    /\ \A c \in Confs : c.model \in Models \cup Family \cup {Unset}
    /\ \A e \in Envs : IsEnvironment(e)
ASSUME SessionAssumption == ConstantsAreSound

VARIABLES
    transcript,  \* [file -> its bytes]; no bytes: no file
    conf,        \* MULTIPLAI_MODEL and MULTIPLAI_EFFORT of multiplai.conf
    environ,         \* [process -> its environment], Unset before it is started
    at,          \* "absent", "idle", "looking", "reading", "read", "effort", "run"
    pinning,     \* the pipeline looks for a model to pin, not for a step
    scan,        \* [process -> the lookup that is under way]
    step,        \* [process -> what the step at hand is to run with]
    promise      \* history: [process -> what its run was pinned to]

sessionVars == <<transcript, conf, environ, at, pinning, scan, step, promise>>

-----------------------------------------------------------------------------
(* The transcript.                                                         *)

Newline == [part |-> "newline", model |-> Unset]
\* A line of a tool result, a user, a sidechain or <synthetic> has no model.
Bytes == [part : {"head", "body", "end"}, model : Models \cup {Unset}] \cup {Newline}

Begins(f, i) == i > 1 => f[i - 1] = Newline
Tears(f) == {i \in 1..Len(f) : f[i].part = "head" /\ ~Begins(f, i)}

\* Bytes come in order; after a kill of Claude Code a new line may begin anywhere.
MayFollow(f, b) ==
    \/ /\ b.part = "head"
       /\ Begins(f, Len(f) + 1) \/ Cardinality(Tears(f)) < MaxTears
    \/ /\ f # <<>>
       /\ LET last == f[Len(f)] IN
            \/ /\ b.part \in {"body", "end"} /\ last.part \in {"head", "body"}
               /\ b.model = last.model
            \/ b.part = "newline" /\ last.part = "end"

\* _model_in_line: a stub, or a stub with a line behind it, does not parse.
ModelInLine(s) ==
    IF /\ Len(s) > 1 /\ s[1].part = "head" /\ s[Len(s)].part = "end"
       /\ \A i \in 2..(Len(s) - 1) : s[i].part = "body"
    THEN s[1].model ELSE Unset

\* The lines of f[lo..hi], each as its first and last byte; buf.split(b"\n").
Lines(f, lo, hi) ==
    {l \in (lo..(hi + 1)) \X ((lo - 1)..hi) :
        /\ l[1] <= l[2] + 1
        /\ l[1] = lo \/ f[l[1] - 1] = Newline
        /\ l[2] = hi \/ f[l[2] + 1] = Newline
        /\ \A i \in l[1]..l[2] : f[i] # Newline}
ModelAt(f, l) == ModelInLine(SubSeq(f, l[1], l[2]))

\* The first line with a model that reversed(lines) meets.
LastModel(f, lines) ==
    LET turns == {l \in lines : ModelAt(f, l) # Unset}
    IN IF turns = {} THEN Unset
       ELSE ModelAt(f, CHOOSE l \in turns : \A k \in turns : k[1] <= l[1])

-----------------------------------------------------------------------------
(* What is configured, and what the session says.                          *)

ExpandFamily(v) == IF v \in Family THEN CurrentModel[v] ELSE v

\* _configured: the environment, then multiplai.conf as it is now.
ConfiguredModel(inEnv, inConf) == IF inEnv # Unset THEN inEnv ELSE inConf

\* Mistake: a pinned model is not looked at.
PinnedMutant(e) == Unset
Pinned(e) == e.sessionModel

\* session_effort
SessionEffort(e) ==
    IF e.sessionEffort \in KnownEfforts THEN e.sessionEffort
    ELSE IF e.claudeEffort \in KnownEfforts THEN e.claudeEffort ELSE Unset

\* default_effort_source
DefaultEffort(e, c) ==
    IF ConfiguredModel(e.effort, c.effort) \in KnownEfforts
    THEN ConfiguredModel(e.effort, c.effort) ELSE SessionEffort(e)

NoScan == [todo |-> {}, file |-> Unset, size |-> 0, pos |-> 0, cut |-> 0, found |-> Unset]
NoStep == [model |-> Unset, from |-> "nothing", effort |-> Unset]
NoPromise == [model |-> Unset, effort |-> Unset]

SessionTypeOK ==
    /\ transcript \in [Files -> Seq(Bytes)]
    /\ conf \in Confs
    /\ at \in [Workers -> {"absent", "idle", "looking", "reading", "read", "effort", "run"}]
    /\ pinning \in BOOLEAN
    /\ scan \in [Workers -> [todo : SUBSET Files, file : Files \cup {Unset}, size : Nat,
                           pos : Nat, cut : Nat, found : Models \cup {Unset}]]
    /\ \A p \in Workers :
         /\ at[p] \in {"reading", "read"} => scan[p].file \in Files
         /\ step[p].model \in Models \cup {Unset}
         /\ step[p].effort \in KnownEfforts \cup {Unset}
         /\ step[p].from \in {"config", "pin", "transcript", "nothing"}

SessionInit ==
    /\ transcript = [f \in Files |-> <<>>]
    /\ conf \in Confs
    /\ environ \in {[p \in Workers |-> e] : e \in Envs}
    /\ at = [p \in Workers |-> IF p = Main THEN "idle" ELSE "absent"]
    /\ pinning = FALSE
    /\ scan = [p \in Workers |-> NoScan]
    /\ step = [p \in Workers |-> NoStep]
    /\ promise = [p \in Workers |-> NoPromise]

-----------------------------------------------------------------------------
(* Claude Code and the user.                                               *)

SessionWrites(f, b) ==
    /\ Cardinality(UNION {{g} \X DOMAIN transcript[g] : g \in Files}) < MaxBytes
    /\ MayFollow(transcript[f], b)
    /\ transcript' = [transcript EXCEPT ![f] = Append(@, b)]
    /\ UNCHANGED <<conf, environ, at, pinning, scan, step, promise>>

EditConf ==
    /\ conf' \in Confs \ {conf}
    /\ UNCHANGED <<transcript, environ, at, pinning, scan, step, promise>>

-----------------------------------------------------------------------------
(* The lookup of a model.  Between two system calls others may act.        *)

MoveTo(p, to) == at' = [at EXCEPT ![p] = to]

\* glob: the transcripts that are there now.
LookUp(p) ==
    /\ MoveTo(p, "looking")
    /\ scan' = [scan EXCEPT ![p] = [NoScan EXCEPT !.todo = {f \in Files : transcript[f] # <<>>}]]

\* path.open and fh.seek(0, SEEK_END), of any of them: glob has no order.
OpenFile(p, f) ==
    /\ at[p] = "looking" /\ f \in scan[p].todo
    /\ MoveTo(p, "reading")
    /\ LET n == Len(transcript[f])
       IN scan' = [scan EXCEPT ![p] = [todo |-> @.todo \ {f}, file |-> f, size |-> n,
                                       pos |-> n, cut |-> n, found |-> Unset]]
    /\ UNCHANGED <<transcript, conf, environ, pinning, step, promise>>

\* OSError: the file counts as one without a model.
OpenFails(p, f) ==
    /\ at[p] = "looking" /\ f \in scan[p].todo
    /\ scan' = [scan EXCEPT ![p].todo = @ \ {f}]
    /\ UNCHANGED <<transcript, conf, environ, at, pinning, step, promise>>

\* Mistake: the tail kept from the last chunk counts against the next one.
ChunkStartMutant(s) == IF s.cut - s.pos >= Chunk THEN s.pos
                       ELSE IF s.pos <= Chunk - (s.cut - s.pos) THEN 0
                       ELSE s.pos - (Chunk - (s.cut - s.pos))
\* min(_CHUNK, pos) bytes further to the front.
ChunkStart(s) == IF s.pos <= Chunk THEN 0 ELSE s.pos - Chunk

\* Mistake: the kept tail is not read together with the bytes before it.
BufferEndMutant(s) == s.pos
\* buf ends where the tail kept from the last chunk ends.
BufferEnd(s) == s.cut

\* The first piece is kept for the next round unless the file starts with it.
Complete(f, s) ==
    LET lo == ChunkStart(s) + 1
        all == Lines(f, lo, BufferEnd(s))
    IN IF lo > 1 THEN {l \in all : l[1] # lo} ELSE all
\* Where the first piece ends.
TailEnd(f, s) ==
    LET lo == ChunkStart(s) + 1
    IN CHOOSE n \in (lo - 1)..BufferEnd(s) : <<lo, n>> \in Lines(f, lo, BufferEnd(s))

ReadChunk(p) ==
    LET s == scan[p]
        f == transcript[s.file]
        model == LastModel(f, Complete(f, s))
    IN /\ at[p] = "reading" /\ s.pos > 0
       /\ scan' = [scan EXCEPT ![p] = [s EXCEPT !.pos = ChunkStart(s), !.found = model,
                                                !.cut = TailEnd(f, s)]]
       /\ IF model # Unset THEN MoveTo(p, "read") ELSE UNCHANGED at
       /\ UNCHANGED <<transcript, conf, environ, pinning, step, promise>>

\* The start of the file, and nothing found.
ReadStart(p) ==
    /\ at[p] = "reading" /\ scan[p].pos = 0
    /\ MoveTo(p, "read")
    /\ UNCHANGED <<transcript, conf, environ, pinning, scan, step, promise>>

\* Nothing in this file: session_model goes on to the next.
NextFile(p) ==
    /\ at[p] = "read" /\ scan[p].found = Unset
    /\ MoveTo(p, "looking")
    /\ UNCHANGED <<transcript, conf, environ, pinning, scan, step, promise>>

\* session_model is about to return, with scan[p].found.
Concludes(p) ==
    \/ at[p] = "read" /\ scan[p].found # Unset
    \/ at[p] = "looking" /\ scan[p].todo = {}

-----------------------------------------------------------------------------
(* pin_session_settings                                                    *)

OrElse(value, otherwise) == IF value # Unset THEN value ELSE otherwise

\* What was found goes into the environment; what was not is left as it is.
PinTo(model) ==
    LET effort == SessionEffort(environ[Main])
    IN /\ environ' = [environ EXCEPT ![Main].sessionModel = OrElse(model, @),
                             ![Main].sessionEffort = OrElse(effort, @)]
       /\ promise' = [promise EXCEPT ![Main].model = OrElse(@, model),
                                     ![Main].effort = OrElse(@, effort)]

BeginPin ==
    /\ at[Main] = "idle"
    /\ \/ /\ Pinned(environ[Main]) # Unset
          /\ PinTo(Pinned(environ[Main])) /\ UNCHANGED <<at, pinning, scan>>
       \/ /\ Pinned(environ[Main]) = Unset
          /\ LookUp(Main) /\ pinning' = TRUE
          /\ UNCHANGED <<environ, promise>>
    /\ UNCHANGED <<transcript, conf, step>>

EndPin ==
    /\ Concludes(Main) /\ pinning
    /\ PinTo(scan[Main].found)
    /\ MoveTo(Main, "idle")
    /\ pinning' = FALSE
    /\ scan' = [scan EXCEPT ![Main] = NoScan]
    /\ UNCHANGED <<transcript, conf, step>>

-----------------------------------------------------------------------------
(* A step: default_model, then default_effort.                             *)

Runs(p, model, from) ==
    /\ step' = [step EXCEPT ![p] = [model |-> model, from |-> from, effort |-> Unset]]
    /\ MoveTo(p, "effort")

BeginStep(p) ==
    LET value == ConfiguredModel(environ[p].model, conf.model)
    IN /\ at[p] = "idle"
       /\ \/ /\ value # Unset
             /\ Runs(p, ExpandFamily(value), "config") /\ UNCHANGED scan
          \/ /\ value = Unset /\ Pinned(environ[p]) # Unset
             /\ Runs(p, Pinned(environ[p]), "pin") /\ UNCHANGED scan
          \/ /\ value = Unset /\ Pinned(environ[p]) = Unset
             /\ LookUp(p) /\ UNCHANGED step
       /\ UNCHANGED <<transcript, conf, environ, pinning, promise>>

EndLookUp(p) ==
    /\ Concludes(p) /\ ~(p = Main /\ pinning)
    /\ Runs(p, scan[p].found, IF scan[p].found # Unset THEN "transcript" ELSE "nothing")
    /\ scan' = [scan EXCEPT ![p] = NoScan]
    /\ UNCHANGED <<transcript, conf, environ, pinning, promise>>

\* multiplai.conf is read again for the effort.
EndStep(p) ==
    /\ at[p] = "effort"
    /\ step' = [step EXCEPT ![p].effort = DefaultEffort(environ[p], conf)]
    /\ MoveTo(p, "run")
    /\ UNCHANGED <<transcript, conf, environ, pinning, scan, promise>>

\* The step runs, and another one may begin.
RunStep(p) ==
    /\ at[p] = "run"
    /\ step' = [step EXCEPT ![p] = NoStep]
    /\ MoveTo(p, "idle")
    /\ UNCHANGED <<transcript, conf, environ, pinning, scan, promise>>

\* A child starts with a copy of the environment its parent has by then.
Spawn(p) ==
    /\ at[p] = "absent" /\ at[Main] = "idle"
    /\ MoveTo(p, "idle")
    /\ environ' = [environ EXCEPT ![p] = environ[Main]]
    /\ promise' = [promise EXCEPT ![p] = promise[Main]]
    /\ UNCHANGED <<transcript, conf, pinning, scan, step>>

Proceed(p) ==
    \/ \E f \in Files : OpenFile(p, f) \/ OpenFails(p, f)
    \/ ReadChunk(p) \/ ReadStart(p) \/ NextFile(p)
    \/ p = Main /\ EndPin
    \/ EndLookUp(p) \/ EndStep(p) \/ RunStep(p)

SessionNext ==
    \/ \E f \in Files, b \in Bytes : SessionWrites(f, b)
    \/ EditConf \/ BeginPin
    \/ \E p \in Workers : BeginStep(p) \/ Spawn(p) \/ Proceed(p)

SessionSpec == SessionInit /\ [][SessionNext]_sessionVars
\* A process that has begun a lookup is scheduled; nobody else need be.
SessionFairSpec == SessionSpec /\ \A p \in Workers : WF_sessionVars(Proceed(p))

-----------------------------------------------------------------------------
(* Properties.                                                             *)

\* Reading backwards by chunks finds what reading the whole file would: the
\* last model of the transcript as it was when it was opened, wherever lines
\* and chunks begin, and whatever is appended meanwhile (_last_model_in).
ScanFindsLast ==
    \A p \in Workers : at[p] = "read" =>
        scan[p].found = LastModel(transcript[scan[p].file],
                                  Lines(transcript[scan[p].file], 1, scan[p].size))

\* A pinned run, its children included, keeps the model and the effort it
\* was pinned to, though the session switches model and the pin is repeated;
\* only a configured value may take their place (pin_session_settings).
PinHolds ==
    [][\A p \in Workers :
        /\ promise[p].model # Unset =>
              /\ environ'[p].sessionModel = promise[p].model
              /\ at'[p] = "effort" => \/ step'[p].from = "config"
                                      \/ step'[p].model = promise[p].model
        /\ promise[p].effort # Unset /\ at[p] = "effort" /\ at'[p] = "run" =>
              step'[p].effort \in {promise[p].effort, ConfiguredModel(environ[p].effort, conf.effort)}
      ]_sessionVars

\* A lookup ends, though the session goes on writing the transcript.
LookUpReturns ==
    \A p \in Workers : []<>(at[p] \notin {"looking", "reading", "read"})
=============================================================================

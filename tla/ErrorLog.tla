------------------------------ MODULE ErrorLog ------------------------------
(***************************************************************************)
(* The log files of one component and the error log that all components    *)
(* share (log_utils.py).  A process that sets up logging opens the file of *)
(* the day of its component, rotates hook-errors.log when its last line is *)
(* of an earlier UTC day, opens it, and sweeps the directory: a file with  *)
(* a name of an old release is migrated, and old dated files are deleted.  *)
(* An error goes to both logs; shell hooks append to hook-errors.log.  The *)
(* processes of other components share hook-errors.log and sweep as well.  *)
(*                                                                         *)
(* A file is an inode: link, unlink and rename change names, and a handler *)
(* goes on writing to the file it has opened.  Each file system call of    *)
(* the rotation and of the sweep is an action of its own, since processes  *)
(* share nothing but the directory.  Times are days.                       *)
(***************************************************************************)
EXTENDS Integers, Sequences, FiniteSets

CONSTANTS
    Loggers,    \* processes that call setup_logging
    Retentions, \* what retention_days() may be; 0 keeps every file
    Leftovers,  \* whether an old release may have left a file
    NoFile,     \* a name that names no file
    MaxDay,     \* bound: the last day
    MaxLines    \* bound: lines written

ASSUME ErrorLogAssumption ==
    /\ Retentions \subseteq Nat /\ MaxDay \in Nat /\ MaxLines \in Nat
    /\ Leftovers \subseteq BOOLEAN /\ NoFile \notin Nat

VARIABLES
    retention, \* retention_days(), of every process
    owners,    \* the processes of the component whose log this is
    today,
    mtime,   \* [log -> the day each of its files was last written]
    current, \* the file named hook-errors.log
    dated,   \* [log -> the files named <log>-<day>.log]
    legacy,  \* the file named <component>.log.<day>, of day 0
    step,    \* where each process is
    chosen,  \* the log and day it rotates or migrates to, or deletes
    looked,  \* the file its sweep found under that name (history)
    handle,  \* [process -> log -> the file its handler has open]
    written,   \* every line: its number, log, day and file, and whether a
               \* sweep had decided by then to delete that file (history)
    heldUp,    \* how many files the shared log had had when midnight first
               \* came while a process rotated; NoFile until then (history)
    replaced   \* the files that another component's process has renamed the
               \* file of the old release over (history)

world == <<retention, owners, today, heldUp>>
diskVars == <<mtime, current, dated, legacy, written, replaced>>
logVars == <<world, diskVars, step, chosen, looked, handle>>

Logs == {"errors", "component"}
Days == 0..MaxDay
FilesOf(log) == DOMAIN mtime[log] \cup {NoFile}
Steps == {"starting", "linking", "unlinking", "opening", "migrating",
          "merging", "removing", "renaming", "sweeping", "deleting", "logging"}

LogTypeOK ==
    /\ retention \in Retentions /\ owners \in SUBSET Loggers /\ today \in Days
    /\ heldUp \in FilesOf("errors") \cup {0} /\ replaced \subseteq DOMAIN mtime["component"]
    /\ mtime \in [Logs -> Seq(Days)]
    /\ current \in FilesOf("errors") /\ legacy \in FilesOf("component")
    /\ \A l \in Logs : dated[l] \in [Days -> FilesOf(l)]
    /\ step \in [Loggers -> Steps]
    /\ chosen \in [Loggers -> Logs \X Days]
    /\ \A p \in Loggers : looked[p] \in FilesOf(chosen[p][1])
    /\ \A p \in Loggers, l \in Logs : handle[p][l] \in FilesOf(l)
    /\ \A p \in Loggers : step[p] = "logging" => handle[p]["errors"] # NoFile
    /\ \A l \in written : l \in [id : 0..MaxLines, log : Logs, day : Days,
                                file : DOMAIN mtime[l.log], doomed : BOOLEAN]

LineIn(id, log, file, doomed) ==
    [id |-> id, log |-> log, day |-> today, file |-> file, doomed |-> doomed]

Nothing == <<"errors", 0>>

\* An old release has left a file, with a line, or has not.
LogInit ==
    /\ retention \in Retentions /\ owners \in SUBSET Loggers
    /\ today = 0 /\ current = NoFile
    /\ heldUp = NoFile /\ replaced = {}
    /\ \/ /\ FALSE \in Leftovers /\ legacy = NoFile /\ written = {}
          /\ mtime = [errors |-> <<>>, component |-> <<>>]
       \/ /\ TRUE \in Leftovers /\ legacy = 1 /\ written = {LineIn(0, "component", 1, FALSE)}
          /\ mtime = [errors |-> <<>>, component |-> <<0>>]
    /\ dated = [l \in Logs |-> [d \in Days |-> NoFile]]
    /\ step = [p \in Loggers |-> "starting"]
    /\ chosen = [p \in Loggers |-> Nothing]
    /\ looked = [p \in Loggers |-> NoFile]
    /\ handle = [p \in Loggers |-> [l \in Logs |-> NoFile]]

StepTo(p, s) == step' = [step EXCEPT ![p] = s]
Chooses(p, name) == chosen' = [chosen EXCEPT ![p] = name]
Names(p, file) == [dated EXCEPT ![chosen[p][1]][chosen[p][2]] = file]
Chosen(p) == dated[chosen[p][1]][chosen[p][2]]

\* Opening for appending creates a file that is not there.
Created(log) == Len(mtime[log]) + 1
Opened(log, file) == IF file = NoFile THEN Created(log) ELSE file
LastWritten(log, file) ==
    IF file = Created(log) THEN Append(mtime[log], today)
                           ELSE [mtime[log] EXCEPT ![file] = today]

\* A sweep has decided to delete the file.
Doomed(log, file) ==
    \E p \in Loggers : step[p] = "deleting" /\ chosen[p][1] = log /\ looked[p] = file

-----------------------------------------------------------------------------
(* _DatedRotatingFileHandler: today's file is opened when the handler is   *)
(* made, and when a line is the first of another day.  Nothing is written  *)
(* to the old one after midnight: it counts as closed then.                *)

IsOpen(p) == handle[p]["component"] # NoFile
OwnFile(p) == IF IsOpen(p) THEN handle[p]["component"]
              ELSE Opened("component", dated["component"][today])
OpensOwn(p) ==
    IF p \in owners
    THEN /\ dated' = IF IsOpen(p) THEN dated
                     ELSE [dated EXCEPT !["component"][today] = OwnFile(p)]
         /\ handle' = [handle EXCEPT ![p]["component"] = OwnFile(p)]
    ELSE UNCHANGED <<dated, handle>>

\* The logs that an error of the process goes to, of these two.
LogsOf(p) == IF p \in owners THEN Logs ELSE {"errors"}

-----------------------------------------------------------------------------
(* The handlers are made, with _rotate_shared_error_log between them: stat,*)
(* link, unlink; any OSError ends it.                                      *)

\* The file is of an earlier day.
OfEarlierDay(day) == day < today

\* The component's handler, and the look at hook-errors.log.
Stat(p) ==
    /\ step[p] = "starting"
    /\ OpensOwn(p)
    /\ mtime' = IF p \in owners /\ OwnFile(p) = Created("component")
                THEN [mtime EXCEPT !["component"] = LastWritten("component", OwnFile(p))]
                ELSE mtime
    /\ IF current # NoFile /\ OfEarlierDay(mtime["errors"][current])
       THEN StepTo(p, "linking") /\ Chooses(p, <<"errors", mtime["errors"][current]>>)
       ELSE StepTo(p, "opening") /\ UNCHANGED chosen
    /\ UNCHANGED <<world, current, legacy, written, replaced, looked>>

\* os.link refuses a name that is taken.
CanLink(p) == current # NoFile /\ Chosen(p) = NoFile

\* The process that could not link leaves the file alone.
AfterFailedLinkMutant == "unlinking"
AfterFailedLink == "opening"

Link(p) ==
    /\ step[p] = "linking"
    /\ IF CanLink(p)
       THEN dated' = Names(p, current) /\ StepTo(p, "unlinking")
       ELSE StepTo(p, AfterFailedLink) /\ UNCHANGED dated
    /\ Chooses(p, Nothing)
    /\ UNCHANGED <<world, mtime, current, legacy, written, replaced, looked, handle>>

Unlink(p) ==
    /\ step[p] = "unlinking"
    /\ current' = NoFile
    /\ StepTo(p, "opening")
    /\ UNCHANGED <<world, mtime, dated, legacy, written, replaced, chosen, looked, handle>>

AfterMigration == IF retention > 0 THEN "sweeping" ELSE "logging"

\* The error handler opens hook-errors.log; the sweep lists the old names.
OpenErrorLog(p) ==
    /\ step[p] = "opening"
    /\ current' = Opened("errors", current)
    /\ mtime' = IF current = NoFile THEN [mtime EXCEPT !["errors"] = LastWritten("errors", current')]
                                    ELSE mtime
    /\ handle' = [handle EXCEPT ![p]["errors"] = current']
    /\ StepTo(p, IF legacy # NoFile THEN "migrating" ELSE AfterMigration)
    /\ UNCHANGED <<world, dated, legacy, written, replaced, chosen, looked>>

-----------------------------------------------------------------------------
(* The sweep: it migrates, then deletes.                                   *)

\* _merge_or_rename looks whether the dated name is taken.
MigrationFinds(p) ==
    /\ step[p] = "migrating"
    /\ StepTo(p, IF dated["component"][0] # NoFile THEN "merging" ELSE "renaming")
    /\ UNCHANGED <<world, diskVars, chosen, looked, handle>>

\* copyfileobj to the end of the dated file, unless the old one has gone.
Copied(target) ==
    written \cup {[l EXCEPT !.file = target, !.doomed = Doomed("component", target)] :
                    l \in {m \in written : m.log = "component" /\ m.file = legacy}}
Merge(p) ==
    LET target == Opened("component", dated["component"][0])
    IN /\ step[p] = "merging"
       /\ IF legacy # NoFile
          THEN /\ dated' = [dated EXCEPT !["component"][0] = target]
               /\ mtime' = [mtime EXCEPT !["component"] = LastWritten("component", target)]
               /\ written' = Copied(target)
               /\ StepTo(p, "removing")
          ELSE StepTo(p, AfterMigration) /\ UNCHANGED <<dated, mtime, written>>
       /\ UNCHANGED <<world, current, legacy, replaced, chosen, looked, handle>>

RemoveLegacy(p) ==
    /\ step[p] = "removing"
    /\ legacy' = NoFile
    /\ StepTo(p, AfterMigration)
    /\ UNCHANGED <<world, mtime, current, dated, written, replaced, chosen, looked, handle>>

\* rename replaces a file that has come to that name meanwhile.
Rename(p) ==
    /\ step[p] = "renaming"
    /\ IF legacy # NoFile
       THEN /\ dated' = [dated EXCEPT !["component"][0] = legacy] /\ legacy' = NoFile
            /\ replaced' = IF p \in owners THEN replaced
                           ELSE replaced \cup ({dated["component"][0]} \ {NoFile})
       ELSE UNCHANGED <<dated, legacy, replaced>>
    /\ StepTo(p, AfterMigration)
    /\ UNCHANGED <<world, mtime, current, written, chosen, looked, handle>>

\* A dated file last written retention days ago is deleted; on the very day it
\* turns that old, that depends on the hour.
\* Mistake: the day in its name is taken for the day of its last line.
MayBeOldMutant(log, day) == day <= today - retention
MayBeOld(log, day) == mtime[log][dated[log][day]] <= today - retention

SweepFinds(p) ==
    /\ step[p] = "sweeping"
    /\ \E l \in Logs, day \in Days :
           /\ dated[l][day] # NoFile /\ MayBeOld(l, day)
           /\ Chooses(p, <<l, day>>)
           /\ looked' = [looked EXCEPT ![p] = dated[l][day]]
    /\ StepTo(p, "deleting")
    /\ UNCHANGED <<world, diskVars, handle>>

Delete(p) ==
    /\ step[p] = "deleting"
    /\ dated' = Names(p, NoFile)
    /\ looked' = [looked EXCEPT ![p] = NoFile]
    /\ Chooses(p, Nothing)
    /\ StepTo(p, "sweeping")
    /\ UNCHANGED <<world, mtime, current, legacy, written, replaced, handle>>

\* A file that cannot be looked at or deleted is passed over.
SweepEnds(p) ==
    /\ step[p] = "sweeping"
    /\ StepTo(p, "logging")
    /\ UNCHANGED <<world, diskVars, chosen, looked, handle>>

-----------------------------------------------------------------------------
(* Lines.                                                                  *)

NextId == Cardinality({l.id : l \in written} \ {0}) + 1

\* An error goes to both logs; other lines, to the first only, are left out.
LogError(p) ==
    /\ step[p] = "logging" /\ NextId <= MaxLines
    /\ OpensOwn(p)
    /\ written' = written \cup {LineIn(NextId, l, handle'[p][l], Doomed(l, handle'[p][l])) :
                                l \in LogsOf(p)}
    /\ mtime' = [l \in Logs |-> IF l \in LogsOf(p) THEN LastWritten(l, handle'[p][l])
                                                  ELSE mtime[l]]
    /\ UNCHANGED <<world, current, legacy, replaced, step, chosen, looked>>

\* External: a shell hook appends to hook-errors.log by name.
HookAppends ==
    /\ NextId <= MaxLines
    /\ current' = Opened("errors", current)
    /\ written' = written \cup {LineIn(NextId, "errors", current', Doomed("errors", current'))}
    /\ mtime' = [mtime EXCEPT !["errors"] = LastWritten("errors", current')]
    /\ UNCHANGED <<world, dated, legacy, replaced, step, chosen, looked, handle>>

\* The process ends or is killed; another starts in its place.
Restart(p) ==
    /\ step[p] # "starting"
    /\ StepTo(p, "starting")
    /\ handle' = [handle EXCEPT ![p] = [l \in Logs |-> NoFile]]
    /\ looked' = [looked EXCEPT ![p] = NoFile]
    /\ Chooses(p, Nothing)
    /\ UNCHANGED <<world, diskVars>>

Rotating == {p \in Loggers : step[p] \in {"linking", "unlinking"}}

NewDay ==
    /\ today < MaxDay
    /\ today' = today + 1
    /\ heldUp' = IF heldUp = NoFile /\ Rotating # {} THEN Len(mtime["errors"]) ELSE heldUp
    /\ handle' = [p \in Loggers |-> [handle[p] EXCEPT !["component"] = NoFile]]
    /\ UNCHANGED <<retention, owners, diskVars, step, chosen, looked>>

LogNext ==
    \/ \E p \in Loggers :
           \/ Stat(p) \/ Link(p) \/ Unlink(p) \/ OpenErrorLog(p)
           \/ MigrationFinds(p) \/ Merge(p) \/ RemoveLegacy(p) \/ Rename(p)
           \/ SweepFinds(p) \/ Delete(p) \/ SweepEnds(p)
           \/ LogError(p) \/ Restart(p)
    \/ HookAppends \/ NewDay

LogSpec == LogInit /\ [][LogNext]_logVars

-----------------------------------------------------------------------------
(* Properties.                                                             *)

Named(log, file) ==
    \/ file = IF log = "errors" THEN current ELSE legacy
    \/ \E d \in Days : dated[log][d] = file

\* A file of the shared log made after a process was held up into the next
\* day, between its look at hook-errors.log and the unlink.
MadeAfterStall(file) == heldUp # NoFile /\ file > heldUp

\* When no file is to be deleted, every line can be read under some name,
\* whoever rotated or migrated meanwhile, whoever was killed half way and
\* whichever handler was still open on the old file ("nothing is shortened").
\* The code does lose lines in two places, and only there.  A process held up
\* into the next day in a rotation may then unlink the hook-errors.log that
\* another has just made; and a process of another component may rename the
\* file of the old release over one that this component's process has made
\* since the other found its name free.
NoLineLost ==
    retention = 0 =>
        \A l \in written :
            \/ l.log = "errors" /\ MadeAfterStall(l.file)
            \/ l.log = "component" /\ l.file \in replaced
            \/ \E m \in written : m.id = l.id /\ m.log = l.log /\ Named(l.log, m.file)

\* A sweep takes no dated name from a file written within the retention, by
\* a handler still open on it, by a migration or after a rotation killed half
\* way, but for the lines that came after the sweep had looked.  Of the shared
\* log this says nothing when the name has gone to another file since the look:
\* with three processes, a second sweep may delete the file and a late rotation
\* give its name to a fresh one, which the first sweep then deletes.
SweepDeletesOldFiles ==
    [][\A p \in Loggers : step[p] = "deleting" /\ step'[p] = "sweeping" =>
           \A l \in written :
               /\ l.log = chosen[p][1] /\ l.file = Chosen(p) /\ ~l.doomed
               /\ l.log = "component" \/ l.file = looked[p]
               => l.day <= today - retention]_logVars
=============================================================================

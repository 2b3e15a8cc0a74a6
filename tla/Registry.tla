------------------------------ MODULE Registry -------------------------------
(***************************************************************************)
(* Several containers in .axis/containers: the runs that make them         *)
(* (state.py, image.py) and the commands that look one up by id or by name *)
(* (resolve_container), read it or remove it.  None of this is locked.     *)
(***************************************************************************)
EXTENDS Naturals, FiniteSets

CONSTANTS
  Runs,      \* the containers, by id, each made by a run of its own
  Names,     \* what NAME lines say
  Name,      \* the name of each
  Cleans,    \* invocations of axis clean
  Readers,   \* invocations of the commands that look up a container and read it
             \* (one that is in both sets stands for either)
  Failing    \* the runs that may fail or die

Commands == Cleans \cup Readers
References == Runs \cup Names

\* An id ends in eight random digits; that somebody takes one for a name is
\* left out.
ASSUME RegistryAssumption ==
  /\ IsFiniteSet(Runs) /\ Name \in [Runs -> Names] /\ Failing \subseteq Runs
  /\ Runs \cap Names = {}

VARIABLES
  dir,      \* of each container: "none", "empty", "made" (with other files),
            \* "torn" and "ready" (with runtime.json, truncated or complete)
  image,    \* whether the docker container of prepare_rootfs exists
  run,      \* the next step of each run
  pc,       \* the next step of each command
  ref,      \* what it was asked for
  todo,     \* what is left of the listing of .axis/containers
  reading,  \* the directory whose runtime.json it has found and reads next: {} or {r}
  matches,  \* the containers it has found
  \* History, which no process reads.
  bearers,  \* those the reference has denoted ever since the command began
  late      \* those whose run has written there again after a clean

runVars == <<image, run>>
commandVars == <<pc, ref, todo, reading, matches>>
vars == <<dir, runVars, commandVars, bearers, late>>

Init ==
  /\ dir = [r \in Runs |-> "none"]
  /\ image = [r \in Runs |-> FALSE]
  /\ run = [r \in Runs |-> "create"]
  /\ pc = [p \in Commands |-> "idle"]
  /\ ref \in [Commands -> References]
  /\ todo = [p \in Commands |-> {}] /\ reading = todo /\ matches = todo /\ bearers = todo
  /\ late = {}

HasRuntime(r) == dir[r] \in {"torn", "ready"}

Denotes(reference, r) == dir[r] = "ready" /\ reference \in {r, Name[r]}

(***************************************************************************)
(* axis run.                                                               *)
(***************************************************************************)
RunGoto(r, label) == run' = [run EXCEPT ![r] = label]

CreateState(r) ==
  /\ run[r] = "create"
  /\ dir' = [dir EXCEPT ![r] = "made"]
  /\ RunGoto(r, "image")
  /\ UNCHANGED <<image, commandVars, bearers, late>>

\* docker pull and docker create; either may fail.
DockerCreate(r) ==
  /\ run[r] = "image"
  /\ \/ image' = [image EXCEPT ![r] = TRUE] /\ RunGoto(r, "export")
     \/ r \in Failing /\ UNCHANGED image /\ RunGoto(r, "raised")
  /\ UNCHANGED <<dir, commandVars, bearers, late>>

\* docker export | tar, and in the finally clause docker rm, which may fail.
ExportOnly(r) ==
  /\ run[r] = "export"
  /\ image' = [image EXCEPT ![r] = FALSE] \/ (r \in Failing /\ UNCHANGED image)
  /\ RunGoto(r, "copy") \/ (r \in Failing /\ RunGoto(r, "raised"))
  /\ UNCHANGED <<dir, commandVars, bearers, late>>

Export(r) ==
  /\ run[r] = "export"
  /\ image' = [image EXCEPT ![r] = FALSE] \/ (r \in Failing /\ UNCHANGED image)
  /\ RunGoto(r, "copy") \/ (r \in Failing /\ RunGoto(r, "raised"))
  /\ image'[r] => run'[r] = "raised"
  /\ UNCHANGED <<dir, commandVars, bearers, late>>

\* The COPY lines and the volume sources; a missing one raises.
Copy(r) ==
  /\ run[r] = "copy"
  /\ RunGoto(r, "write") \/ (r \in Failing /\ RunGoto(r, "raised"))
  /\ UNCHANGED <<dir, image, commandVars, bearers, late>>

\* write_text truncates runtime.json and writes it afterwards.
WriteBegin(r) ==
  /\ run[r] = "write"
  /\ dir' = [dir EXCEPT ![r] = "torn"]
  /\ RunGoto(r, "writing")
  /\ UNCHANGED <<image, commandVars, bearers, late>>

WriteEnd(r) ==
  /\ run[r] = "writing"
  /\ dir' = [dir EXCEPT ![r] = "ready"]
  /\ RunGoto(r, "launched")
  /\ UNCHANGED <<image, commandVars, bearers, late>>

Crash(r) ==
  /\ r \in Failing /\ run[r] \notin {"create", "launched", "raised", "over"}
  /\ RunGoto(r, "raised")
  /\ UNCHANGED <<dir, image, commandVars, bearers, late>>

\* write_json and container_lock make the directory again, if a clean has
\* removed it, for the files the run writes after runtime.json.
Rewrite(r) ==
  /\ run[r] = "launched" /\ dir[r] \in {"none", "empty"}
  /\ dir' = [dir EXCEPT ![r] = "made"]
  /\ late' = late \cup {r}
  /\ UNCHANGED <<runVars, commandVars, bearers>>

RunEnds(r) ==
  /\ run[r] = "launched"
  /\ RunGoto(r, "over")
  /\ UNCHANGED <<dir, image, commandVars, bearers, late>>

Run(r) == CreateState(r) \/ DockerCreate(r) \/ Export(r) \/ Copy(r)
          \/ WriteBegin(r) \/ WriteEnd(r) \/ Crash(r) \/ Rewrite(r) \/ RunEnds(r)

(***************************************************************************)
(* resolve_container.                                                      *)
(***************************************************************************)
Goto(p, label) == pc' = [pc EXCEPT ![p] = label]

Begin(p) ==
  /\ pc[p] = "idle"
  /\ Goto(p, "exact")
  /\ bearers' = [bearers EXCEPT ![p] = {r \in Runs : Denotes(ref[p], r)}]
  /\ UNCHANGED <<dir, runVars, ref, todo, reading, matches, late>>

\* The directory with that id, if it has a runtime.json.
ResolveExact(p) ==
  /\ pc[p] = "exact"
  /\ \/ /\ ref[p] \in Runs /\ HasRuntime(ref[p])
        /\ reading' = [reading EXCEPT ![p] = {ref[p]}]
        /\ Goto(p, "state")
     \/ /\ ~(ref[p] \in Runs /\ HasRuntime(ref[p]))
        /\ Goto(p, "list") /\ UNCHANGED reading
  /\ UNCHANGED <<dir, runVars, ref, todo, matches, bearers, late>>

List(p) ==
  /\ pc[p] = "list"
  /\ todo' = [todo EXCEPT ![p] = {r \in Runs : dir[r] # "none"}]
  /\ Goto(p, "scan")
  /\ UNCHANGED <<dir, runVars, ref, reading, matches, bearers, late>>

\* The next of the listing, if it still has a runtime.json.
Look(p, r) ==
  /\ pc[p] = "scan" /\ r \in todo[p]
  /\ todo' = [todo EXCEPT ![p] = @ \ {r}]
  /\ IF HasRuntime(r)
     THEN reading' = [reading EXCEPT ![p] = {r}] /\ Goto(p, "read")
     ELSE UNCHANGED <<reading, pc>>
  /\ UNCHANGED <<dir, runVars, ref, matches, bearers, late>>

Found(p, r) ==
  /\ matches' = [matches EXCEPT ![p] = @ \cup {r}]
  /\ reading' = [reading EXCEPT ![p] = {}]
  /\ Goto(p, IF ref[p] = r THEN "found" ELSE "scan")

\* read_json, which raises past main when the file is gone or torn.
Read(p, r) ==
  /\ pc[p] = "read" /\ reading[p] = {r}
  /\ IF dir[r] = "ready" /\ Name[r] = ref[p]
     THEN Goto(p, "state") /\ UNCHANGED reading
     ELSE /\ Goto(p, IF dir[r] = "ready" THEN "scan" ELSE "crashed")
          /\ reading' = [reading EXCEPT ![p] = {}]
  /\ UNCHANGED <<dir, runVars, ref, todo, matches, bearers, late>>

\* container_state_from_dir does without runtime.json if it is not there (any
\* more), and otherwise reads it (again).
StateFromDir(p, r) ==
  /\ pc[p] = "state" /\ reading[p] = {r}
  /\ IF HasRuntime(r)
     THEN Goto(p, "load") /\ UNCHANGED <<reading, matches>>
     ELSE Found(p, r)
  /\ UNCHANGED <<dir, runVars, ref, todo, bearers, late>>

Load(p, r) ==
  /\ pc[p] = "load" /\ reading[p] = {r}
  /\ IF dir[r] = "ready"
     THEN Found(p, r)
     ELSE /\ Goto(p, "crashed") /\ UNCHANGED matches
          /\ reading' = [reading EXCEPT ![p] = {}]
  /\ UNCHANGED <<dir, runVars, ref, todo, bearers, late>>

ResolveFirst(p) ==
  /\ pc[p] = "scan" /\ (todo[p] = {} \/ matches[p] # {})
  /\ Goto(p, IF matches[p] = {} THEN "unknown" ELSE "found")
  /\ UNCHANGED <<dir, runVars, ref, todo, reading, matches, bearers, late>>

\* One match, or AxisError.
ResolveEnd(p) ==
  /\ pc[p] = "scan" /\ todo[p] = {}
  /\ Goto(p, IF Cardinality(matches[p]) = 1 THEN "found" ELSE "unknown")
  /\ UNCHANGED <<dir, runVars, ref, todo, reading, matches, bearers, late>>

Resolve(p) == Begin(p) \/ ResolveExact(p) \/ List(p) \/ ResolveEnd(p)
              \/ \E r \in Runs : Look(p, r) \/ Read(p, r) \/ StateFromDir(p, r) \/ Load(p, r)

(***************************************************************************)
(* The commands: inspect, logs, stats and stop read the runtime.json or    *)
(* other files of the match again.                                         *)
(***************************************************************************)
Inspect(p) ==
  /\ \/ /\ pc[p] = "found"
        /\ \E r \in matches[p] : Goto(p, IF dir[r] = "ready" THEN "shown" ELSE "crashed")
     \/ pc[p] = "unknown" /\ Goto(p, "refused")
  /\ UNCHANGED <<dir, runVars, ref, todo, reading, matches, bearers, late>>

\* clean reports success when nothing has the name it was given as its id.
CleanUnknown(p) ==
  /\ pc[p] = "unknown"
  /\ Goto(p, IF ref[p] \in Runs /\ dir[ref[p]] # "none" THEN "refused" ELSE "removed")
  /\ UNCHANGED <<dir, runVars, ref, todo, reading, matches, bearers, late>>

CleanByReference(p) ==
  /\ pc[p] = "found"
  /\ Goto(p, IF ref[p] \in Runs THEN "mark" ELSE "removed")
  /\ UNCHANGED <<dir, runVars, ref, todo, reading, matches, bearers, late>>

\* cleanup_container_state returns when the directory of the match is gone, and
\* looks its id up once more: without runtime.json it is unknown, and the search
\* for something of that name may raise on the way.
CleanFound(p) ==
  /\ pc[p] = "found"
  /\ \E r \in matches[p] :
       \/ dir[r] = "none" /\ Goto(p, "removed")
       \/ dir[r] \in {"empty", "made"} /\ Goto(p, "refused")
       \/ dir[r] \in {"empty", "made"} /\ (\E x \in Runs : dir[x] = "torn")
          /\ Goto(p, "crashed")
       \/ HasRuntime(r) /\ Goto(p, "mark")
  /\ UNCHANGED <<dir, runVars, ref, todo, reading, matches, bearers, late>>

\* write_status makes the directory again if it is gone.  When another clean
\* removes something between two steps of it, or of what comes before it, clean
\* raises.
CleanWrite(p, from, to) ==
  /\ pc[p] = from
  /\ \E r \in matches[p] :
       \/ /\ dir' = [dir EXCEPT ![r] = IF @ \in {"none", "empty"} THEN "made" ELSE @]
          /\ Goto(p, to)
       \/ /\ dir[r] \in {"none", "empty"}
          /\ Goto(p, "crashed") /\ UNCHANGED dir
  /\ UNCHANGED <<runVars, ref, todo, reading, matches, bearers, late>>

\* "stopping", what the container has left, and "deleted".
CleanMark(p) == CleanWrite(p, "mark", "stopped") \/ CleanWrite(p, "stopped", "unlink")

\* remove_container: the entries, then the directory, which stays when somebody
\* has written there in between.
CleanUnlink(p) ==
  /\ pc[p] = "unlink"
  /\ dir' = [r \in Runs |-> IF r \in matches[p] /\ dir[r] # "none" THEN "empty" ELSE dir[r]]
  /\ bearers' = [q \in Commands |-> bearers[q] \ matches[p]]
  /\ Goto(p, "rmdir")
  /\ UNCHANGED <<runVars, ref, todo, reading, matches, late>>

CleanRmdir(p) ==
  /\ pc[p] = "rmdir"
  /\ dir' = [r \in Runs |-> IF r \in matches[p] /\ dir[r] = "empty" THEN "none" ELSE dir[r]]
  /\ Goto(p, "removed")
  /\ UNCHANGED <<runVars, ref, todo, reading, matches, bearers, late>>

Clean(p) == Resolve(p) \/ CleanUnknown(p) \/ CleanFound(p) \/ CleanMark(p)
            \/ CleanUnlink(p) \/ CleanRmdir(p)

Next ==
  \/ \E r \in Runs : Run(r)
  \/ \E p \in Cleans : Clean(p)
  \/ \E p \in Readers : Resolve(p) \/ Inspect(p)

Spec == Init /\ [][Next]_vars

(***************************************************************************)
(* Properties.                                                             *)
(***************************************************************************)
RunLabels == {"create", "image", "export", "copy", "write", "writing", "launched", "raised",
              "over"}
Labels == {"idle", "exact", "list", "scan", "read", "state", "load", "found", "unknown",
           "mark", "stopped", "unlink", "rmdir", "removed", "refused", "shown", "crashed"}

\* Every variable keeps the kind of value the code gives it; the docker
\* container of prepare_rootfs outlives no run that gets past it.
TypeOK ==
  /\ dir \in [Runs -> {"none", "empty", "made", "torn", "ready"}]
  /\ run \in [Runs -> RunLabels] /\ image \in [Runs -> BOOLEAN]
  /\ \A r \in Runs : image[r] => run[r] \in {"export", "raised"}
  /\ pc \in [Commands -> Labels] /\ ref \in [Commands -> References]
  /\ todo \in [Commands -> SUBSET Runs] /\ matches \in [Commands -> SUBSET Runs]
  /\ reading \in [Commands -> SUBSET Runs] /\ bearers \in [Commands -> SUBSET Runs]
  /\ late \in SUBSET Runs

Acts == {"found", "mark", "stopped", "unlink", "rmdir", "shown"}

\* A command acts on one container, of the id or the name it was given, and on
\* none by name while another has had that name ever since it began, whatever
\* runs and cleans of other containers happen between the listing and the reads.
ActsOnTheOne ==
  \A p \in Commands :
    pc[p] \in Acts =>
      \E r \in Runs :
        /\ matches[p] = {r}
        /\ r = ref[p] \/ (Name[r] = ref[p] /\ bearers[p] \subseteq {r})

\* A clean that reports success has removed the container it found: nobody finds
\* it any more, and its directory is gone as well, unless its run has written
\* there since or another clean of it is under way, which removes it in its turn.
\* If the clean has found none there was none, although the directories come and
\* go during its search.
CleanReports ==
  \A p \in Cleans :
    pc[p] = "removed" =>
      /\ matches[p] = {} => bearers[p] = {}
      /\ \A r \in Runs :
           matches[p] = {r} =>
             /\ ~HasRuntime(r)
             /\ \/ dir[r] = "none" \/ r \in late
                \/ \E q \in Cleans : matches[q] = {r} /\ pc[q] \in {"stopped", "unlink", "rmdir"}

=============================================================================

--------------------------- MODULE RegistryProofs ----------------------------
(***************************************************************************)
(* Looking up a container: a command acts on the one its reference denotes *)
(* and a clean that reports success is right, for any number of runs,      *)
(* names and commands, failures and cleans at any moment included.         *)
(***************************************************************************)
EXTENDS Registry, FiniteSetTheorems, TLAPS

Launched(r) == run[r] \in {"launched", "over"}

\* The run is ahead of its directory: runtime.json is complete only once the
\* run has written it, and nothing but the run puts it there.
RunDir ==
  \A r \in Runs :
    /\ run[r] = "create" => dir[r] = "none"
    /\ run[r] \in {"image", "export", "copy", "write"} => dir[r] = "made"
    /\ run[r] = "writing" => dir[r] = "torn"
    /\ dir[r] = "ready" => Launched(r)
    /\ dir[r] = "torn" => run[r] \in {"writing", "raised"}

BearersReady ==
  \A p \in Commands : \A r \in bearers[p] : dir[r] = "ready" /\ ref[p] \in {r, Name[r]}

Matched == \A p \in Commands : \A r \in matches[p] : Launched(r)

\* What cleans have left of a directory is in the hands of another clean.
LeftTo(r, labels) == \E q \in Cleans : matches[q] = {r} /\ pc[q] \in labels

Leftover ==
  \A r \in Runs :
    Launched(r) =>
      /\ dir[r] = "made" => r \in late \/ LeftTo(r, {"stopped", "unlink"})
      /\ dir[r] = "empty" => LeftTo(r, {"rmdir"})

\* A container whose runtime.json a command has seen: if it is not there any
\* more, a clean has removed it.
Seen(r) == Launched(r) \/ run[r] = "writing" \/ dir[r] = "torn"

\* What a search has not come across yet is still ahead of it.
Searching(p) ==
  /\ pc[p] \in {"idle", "exact", "list"} => matches[p] = {}
  /\ pc[p] \in {"state", "load"} =>
       \E r \in Runs :
         /\ reading[p] = {r} /\ Seen(r)
         /\ \/ r = ref[p] /\ matches[p] = {}
            \/ Name[r] = ref[p] /\ bearers[p] \subseteq todo[p] \cup matches[p] \cup {r}
  /\ pc[p] \in {"list", "scan", "read"} => ref[p] \notin bearers[p]
  /\ pc[p] = "scan" => bearers[p] \subseteq todo[p] \cup matches[p]
  /\ pc[p] = "read" => /\ bearers[p] \subseteq todo[p] \cup matches[p] \cup reading[p]
                       /\ \A r \in reading[p] : Seen(r)
  /\ pc[p] \in {"scan", "read", "state", "load", "unknown"} =>
       \A r \in matches[p] : Name[r] = ref[p]
  /\ pc[p] = "unknown" => /\ matches[p] = {} => bearers[p] = {}
                          /\ \A r \in Runs : matches[p] # {r}

Acting(p) ==
  /\ pc[p] \in Acts =>
       \E r \in Runs :
         /\ matches[p] = {r}
         /\ r = ref[p] \/ (Name[r] = ref[p] /\ bearers[p] \subseteq {r})
  /\ pc[p] = "rmdir" => \A r \in matches[p] : ~HasRuntime(r)

Reported(p) ==
  pc[p] = "removed" =>
    /\ matches[p] = {} => bearers[p] = {}
    /\ \A r \in Runs : matches[p] = {r} => ~HasRuntime(r)

Control == \A p \in Commands : Searching(p) /\ Acting(p) /\ Reported(p)

IInv == TypeOK /\ RunDir /\ BearersReady /\ Matched /\ Leftover /\ Control

LEMMA InitIInv == Init => IInv
<1> SUFFICES ASSUME Init PROVE IInv
  OBVIOUS
<1>1. TypeOK /\ RunDir /\ BearersReady /\ Matched /\ Leftover
  BY RegistryAssumption
  DEF Init, TypeOK, RunDir, BearersReady, Matched, Leftover, Launched, RunLabels, Labels, Commands
<1>2. Control
  BY DEF Init, Control, Searching, Acting, Reported, Acts
<1> QED BY <1>1, <1>2 DEF IInv

\* A set with one element has one.
LEMMA Single ==
  ASSUME NEW S, S \subseteq Runs
  PROVE  Cardinality(S) = 1 <=> \E r \in Runs : S = {r}
<1>1. IsFiniteSet(S)
  BY RegistryAssumption, FS_Subset
<1>2. ASSUME Cardinality(S) = 1 PROVE \E r \in Runs : S = {r}
  BY <1>1, <1>2, FS_Singleton
<1>3. ASSUME NEW r \in Runs, S = {r} PROVE Cardinality(S) = 1
  BY <1>3, FS_Singleton
<1> QED BY <1>2, <1>3

(***************************************************************************)
(* The steps.  What a command knows survives the steps of the others.      *)
(***************************************************************************)
\* A launch stays one, and a runtime.json that a clean has removed stays away.
Forward ==
  \A r \in Runs :
    /\ Launched(r) => Launched(r)' /\ (~HasRuntime(r) => ~HasRuntime(r)')
    /\ Seen(r) => Seen(r)'

LEMMA Keeps ==
  ASSUME IInv, NEW q \in Commands, Forward, bearers'[q] \subseteq bearers[q],
         pc'[q] = pc[q], ref'[q] = ref[q], todo'[q] = todo[q], reading'[q] = reading[q],
         matches'[q] = matches[q]
  PROVE  Searching(q)' /\ Acting(q)' /\ Reported(q)'
<1>1. /\ Searching(q) /\ Acting(q) /\ Reported(q)
      /\ matches[q] \subseteq Runs /\ reading[q] \subseteq Runs
      /\ \A r \in matches[q] : Launched(r)
  BY DEF IInv, Control, TypeOK, Matched
<1>2. Searching(q)'
  <2>1. ASSUME pc[q] \in {"state", "load"}
        PROVE  \E r \in Runs :
                 /\ reading'[q] = {r} /\ Seen(r)'
                 /\ \/ r = ref'[q] /\ matches'[q] = {}
                    \/ Name[r] = ref'[q] /\ bearers'[q] \subseteq todo'[q] \cup matches'[q] \cup {r}
    BY <1>1, <2>1 DEF Searching, Forward
  <2>2. \A r \in reading[q] : Seen(r) => Seen(r)'
    BY <1>1 DEF Forward
  <2> QED BY <1>1, <2>1, <2>2 DEF Searching
<1>3. \A r \in matches[q] : ~HasRuntime(r) => ~HasRuntime(r)'
  BY <1>1 DEF Forward
<1>4. Acting(q)'
  BY <1>1, <1>3 DEF Acting
<1>5. Reported(q)'
  BY <1>1, <1>3 DEF Reported
<1> QED BY <1>2, <1>4, <1>5

LEMMA RunStep ==
  ASSUME IInv, NEW r \in Runs, Run(r)
  PROVE  IInv'
<1> USE DEF IInv
<1>1. TypeOK'
  <2>1. CASE CreateState(r)
    BY <2>1 DEF TypeOK, CreateState, RunGoto, RunLabels, commandVars
  <2>2. CASE DockerCreate(r)
    BY <2>2 DEF TypeOK, DockerCreate, RunGoto, RunLabels, commandVars
  <2>3. CASE Export(r)
    BY <2>3 DEF TypeOK, Export, RunGoto, RunLabels, commandVars
  <2>4. CASE Copy(r) \/ WriteBegin(r) \/ WriteEnd(r) \/ Crash(r) \/ RunEnds(r)
    BY <2>4 DEF TypeOK, Copy, WriteBegin, WriteEnd, Crash, RunEnds, RunGoto, RunLabels, commandVars
  <2>5. CASE Rewrite(r)
    BY <2>5 DEF TypeOK, Rewrite, runVars, commandVars
  <2> QED BY <2>1, <2>2, <2>3, <2>4, <2>5 DEF Run
<1>2. UNCHANGED <<pc, ref, todo, reading, matches, bearers>>
  BY DEF Run, CreateState, DockerCreate, Export, Copy, WriteBegin, WriteEnd, Crash, Rewrite,
         RunEnds, commandVars
<1>3. RunDir' /\ Forward
  BY DEF TypeOK, RunDir, Forward, Launched, Seen, HasRuntime, Run, CreateState, DockerCreate,
         Export, Copy, WriteBegin, WriteEnd, Crash, Rewrite, RunEnds, RunGoto, runVars
<1>4. \A x \in Runs : dir[x] = "ready" => dir'[x] = "ready"
  BY DEF TypeOK, RunDir, Launched, Run, CreateState, DockerCreate, Export, Copy, WriteBegin,
         WriteEnd, Crash, Rewrite, RunEnds, RunGoto, runVars
<1>5. BearersReady' /\ Matched'
  BY <1>2, <1>3, <1>4 DEF BearersReady, Matched, Forward, TypeOK
<1>6. \A x \in Runs : Launched(x)' =>
        (dir'[x] = dir[x] /\ Launched(x)) \/ dir'[x] = "ready" \/ (dir'[x] = "made" /\ x \in late')
  BY DEF TypeOK, RunDir, Launched, Run, CreateState, DockerCreate, Export, Copy, WriteBegin,
         WriteEnd, Crash, Rewrite, RunEnds, RunGoto, runVars
<1>7. late \subseteq late'
  BY DEF Run, CreateState, DockerCreate, Export, Copy, WriteBegin, WriteEnd, Crash, Rewrite,
         RunEnds
<1>8. Leftover'
  BY <1>2, <1>6, <1>7 DEF Leftover, LeftTo
<1>9. Control'
  BY <1>2, <1>3, Keeps DEF Control
<1> QED BY <1>1, <1>3, <1>5, <1>8, <1>9

\* A step of a search: only what the command knows itself changes.
Private(p) ==
  /\ UNCHANGED <<dir, runVars, ref, late>>
  /\ pc[p] \notin {"stopped", "unlink", "rmdir"}
  /\ \A q \in Commands \ {p} :
       /\ pc'[q] = pc[q] /\ todo'[q] = todo[q] /\ reading'[q] = reading[q]
       /\ matches'[q] = matches[q] /\ bearers'[q] = bearers[q]

LEMMA PrivateStep ==
  ASSUME IInv, NEW p \in Commands, Private(p), TypeOK', BearersReady',
         \A r \in matches'[p] : Launched(r),
         Searching(p)', Acting(p)', Reported(p)'
  PROVE  IInv'
<1> USE DEF IInv
<1>1. RunDir' /\ Forward
  BY DEF RunDir, Forward, Launched, Seen, HasRuntime, Private, runVars
<1>2. Matched'
  BY DEF Matched, Launched, Private, runVars
<1>3. Leftover'
  BY DEF Leftover, LeftTo, Launched, Private, runVars, Commands
<1>4. Control'
  <2>1. ASSUME NEW q \in Commands \ {p} PROVE Searching(q)' /\ Acting(q)' /\ Reported(q)'
    BY <1>1, Keeps DEF Private
  <2> QED BY <2>1 DEF Control
<1> QED BY <1>1, <1>2, <1>3, <1>4

LEMMA SearchStep ==
  ASSUME IInv, NEW p \in Commands, Begin(p) \/ ResolveExact(p) \/ List(p)
  PROVE  IInv'
<1> USE DEF IInv
<1>1. TypeOK' /\ Private(p)
  BY DEF TypeOK, Private, Begin, ResolveExact, List, Goto, Labels, runVars, References
<1>2. BearersReady'
  BY DEF TypeOK, BearersReady, Begin, ResolveExact, List, Denotes, runVars
<1>3. \A r \in matches'[p] : Launched(r)
  BY DEF Matched, Begin, ResolveExact, List
<1>4. Searching(p)'
  <2>1. CASE Begin(p)
    BY <2>1 DEF TypeOK, Control, Searching, Begin, Goto
  <2>2. CASE ResolveExact(p) /\ ref[p] \in Runs /\ HasRuntime(ref[p])
    <3>1. Seen(ref[p])'
      BY <2>2 DEF RunDir, ResolveExact, HasRuntime, Seen, Launched, runVars
    <3>2. pc'[p] = "state" /\ reading'[p] = {ref[p]} /\ matches'[p] = {} /\ ref'[p] = ref[p]
      BY <2>2 DEF TypeOK, Control, Searching, ResolveExact, Goto
    <3> QED BY <2>2, <3>1, <3>2 DEF Searching
  <2>3. CASE ResolveExact(p) /\ ~(ref[p] \in Runs /\ HasRuntime(ref[p]))
    BY <2>3 DEF TypeOK, Control, Searching, BearersReady, ResolveExact, HasRuntime, Goto
  <2>4. CASE List(p)
    BY <2>4 DEF TypeOK, Control, Searching, BearersReady, List, Goto
  <2> QED BY <2>1, <2>2, <2>3, <2>4
<1>5. Acting(p)' /\ Reported(p)'
  <2>1. pc'[p] \in {"exact", "state", "list", "scan"}
    BY DEF TypeOK, Begin, ResolveExact, List, Goto
  <2> QED BY <2>1 DEF Acting, Reported, Acts
<1> QED BY <1>1, <1>2, <1>3, <1>4, <1>5, PrivateStep

LEMMA LookStep ==
  ASSUME IInv, NEW p \in Commands, NEW r \in Runs, Look(p, r) \/ Read(p, r)
  PROVE  IInv'
<1> USE DEF IInv
<1>1. TypeOK' /\ Private(p)
  BY DEF TypeOK, Private, Look, Read, Goto, Labels, runVars, References
<1>2. BearersReady' /\ \A x \in matches'[p] : Launched(x)
  BY DEF BearersReady, Matched, Look, Read
<1>3. Searching(p)'
  <2>1. CASE Look(p, r)
    <3>1. HasRuntime(r) => Seen(r)'
      BY <2>1 DEF RunDir, Look, HasRuntime, Seen, Launched, runVars
    <3>2. CASE HasRuntime(r)
      BY <2>1, <3>1, <3>2 DEF TypeOK, Control, Searching, Look, Goto
    <3>3. CASE ~HasRuntime(r)
      BY <2>1, <3>3 DEF TypeOK, Control, Searching, BearersReady, Look, HasRuntime
    <3> QED BY <3>2, <3>3
  <2>2. CASE Read(p, r) /\ dir[r] = "ready" /\ Name[r] = ref[p]
    <3>1. Seen(r)'
      BY <2>2 DEF RunDir, Read, Seen, Launched, runVars
    <3>2. /\ pc'[p] = "state" /\ reading'[p] = {r}
          /\ UNCHANGED <<ref, bearers, todo, matches>>
          /\ bearers[p] \subseteq todo[p] \cup matches[p] \cup {r}
          /\ \A x \in matches[p] : Name[x] = ref[p]
      BY <2>2 DEF TypeOK, Control, Searching, Read, Goto
    <3> QED BY <2>2, <3>1, <3>2 DEF Searching
  <2>3. CASE Read(p, r) /\ dir[r] = "ready" /\ Name[r] # ref[p]
    BY <2>3 DEF TypeOK, Control, Searching, BearersReady, Read, Goto
  <2>4. CASE Read(p, r) /\ dir[r] # "ready"
    BY <2>4 DEF TypeOK, Searching, Read, Goto
  <2> QED BY <2>1, <2>2, <2>3, <2>4
<1>4. Acting(p)' /\ Reported(p)'
  <2>1. pc'[p] \in {"scan", "read", "state", "crashed"}
    BY DEF TypeOK, Look, Read, Goto
  <2> QED BY <2>1 DEF Acting, Reported, Acts
<1> QED BY <1>1, <1>2, <1>3, <1>4, PrivateStep

\* A match: its runtime.json is complete, or a clean has removed it.
LEMMA FoundStep ==
  ASSUME IInv, NEW p \in Commands, NEW r \in Runs, Found(p, r), Launched(r),
         pc[p] \in {"state", "load"}, reading[p] = {r},
         UNCHANGED <<dir, runVars, ref, todo, bearers, late>>
  PROVE  IInv'
<1> USE DEF IInv
<1>1. TypeOK' /\ Private(p)
  BY DEF TypeOK, Private, Found, Goto, Labels, runVars, References
<1>2. BearersReady' /\ \A x \in matches'[p] : Launched(x)
  BY DEF TypeOK, BearersReady, Matched, Found
<1>3. /\ \/ r = ref[p] /\ matches[p] = {}
         \/ Name[r] = ref[p] /\ bearers[p] \subseteq todo[p] \cup matches[p] \cup {r}
      /\ \A x \in matches[p] : Name[x] = ref[p]
  BY DEF Control, Searching
<1>4. CASE ref[p] = r
  <2>1. matches[p] = {}
    BY <1>3, <1>4, RegistryAssumption
  <2>2. pc'[p] = "found" /\ matches'[p] = {r} /\ r = ref'[p]
    BY <1>4, <2>1 DEF TypeOK, Found, Goto
  <2>3. Searching(p)' /\ Reported(p)'
    BY <2>2 DEF Searching, Reported
  <2>4. Acting(p)'
    BY <2>2 DEF Acting
  <2> QED BY <1>1, <1>2, <2>3, <2>4, PrivateStep
<1>5. CASE ref[p] # r
  <2>1. ref[p] \notin bearers[p]
    BY <1>3, <1>5, RegistryAssumption DEF TypeOK
  <2>2. pc'[p] = "scan" /\ matches'[p] = matches[p] \cup {r}
    BY <1>5 DEF TypeOK, Found, Goto
  <2>3. Searching(p)'
    BY <1>3, <1>5, <2>1, <2>2 DEF Searching
  <2>4. Acting(p)' /\ Reported(p)'
    BY <2>2 DEF Acting, Reported, Acts
  <2> QED BY <1>1, <1>2, <2>3, <2>4, PrivateStep
<1> QED BY <1>4, <1>5

LEMMA StateStep ==
  ASSUME IInv, NEW p \in Commands, NEW r \in Runs, StateFromDir(p, r) \/ Load(p, r)
  PROVE  IInv'
<1> USE DEF IInv
<1>1. Seen(r)
  BY DEF Control, Searching, StateFromDir, Load
<1>2. CASE StateFromDir(p, r) /\ ~HasRuntime(r)
  <2>1. Launched(r)
    BY <1>1, <1>2 DEF Seen, RunDir, HasRuntime
  <2> QED BY <1>2, <2>1, FoundStep DEF StateFromDir
<1>3. CASE Load(p, r) /\ dir[r] = "ready"
  <2>1. Launched(r)
    BY <1>3 DEF RunDir
  <2> QED BY <1>3, <2>1, FoundStep DEF Load
<1>4. CASE \/ StateFromDir(p, r) /\ HasRuntime(r)
           \/ Load(p, r) /\ dir[r] # "ready"
  <2>1. TypeOK' /\ Private(p)
    BY <1>4 DEF TypeOK, Private, StateFromDir, Load, Goto, Labels, runVars, References
  <2>2. BearersReady' /\ \A x \in matches'[p] : Launched(x)
    BY <1>4 DEF BearersReady, Matched, StateFromDir, Load
  <2>3. /\ pc'[p] = "crashed" \/ (pc[p] = "state" /\ pc'[p] = "load" /\ UNCHANGED reading)
        /\ UNCHANGED <<dir, run, ref, todo, matches, bearers>>
    BY <1>4 DEF TypeOK, StateFromDir, Load, Goto, runVars
  <2>4. Searching(p)'
    BY <2>3 DEF Control, Searching, Seen, Launched
  <2>5. Acting(p)' /\ Reported(p)'
    BY <2>3 DEF Acting, Reported, Acts
  <2> QED BY <2>1, <2>2, <2>4, <2>5, PrivateStep
<1> QED BY <1>2, <1>3, <1>4 DEF StateFromDir, Load

LEMMA EndStep ==
  ASSUME IInv, NEW p \in Commands, ResolveEnd(p)
  PROVE  IInv'
<1> USE DEF IInv
<1>1. TypeOK' /\ Private(p)
  BY DEF TypeOK, Private, ResolveEnd, Goto, Labels, runVars, References
<1>2. BearersReady' /\ \A x \in matches'[p] : Launched(x)
  BY DEF BearersReady, Matched, ResolveEnd
<1>3. Cardinality(matches[p]) = 1 <=> \E r \in Runs : matches[p] = {r}
  BY Single DEF TypeOK
<1>4. Searching(p)' /\ Acting(p)' /\ Reported(p)'
  BY <1>3 DEF TypeOK, Control, Searching, Acting, Reported, ResolveEnd, Goto, Acts
<1> QED BY <1>1, <1>2, <1>4, PrivateStep

\* The steps that follow a search and leave the directories alone.
LEMMA OutcomeStep ==
  ASSUME IInv, NEW p \in Commands, Inspect(p) \/ CleanUnknown(p) \/ CleanFound(p)
  PROVE  IInv'
<1> USE DEF IInv
<1>1. /\ UNCHANGED <<dir, runVars, ref, todo, reading, matches, bearers, late>>
      /\ pc[p] \in {"found", "unknown"}
      /\ \E l \in {"shown", "crashed", "refused", "removed", "mark"} : pc' = [pc EXCEPT ![p] = l]
  BY DEF Inspect, CleanUnknown, CleanFound, Goto
<1>2. TypeOK' /\ Private(p)
  BY <1>1 DEF TypeOK, Private, Labels, runVars
<1>3. BearersReady' /\ \A x \in matches'[p] : Launched(x)
  BY <1>1 DEF BearersReady, Matched
<1>4. pc'[p] \in {"shown", "crashed", "refused", "removed", "mark"} /\ Searching(p)'
  BY <1>1 DEF TypeOK, Searching
<1>5. Acting(p)'
  <2>1. CASE pc[p] = "found"
    BY <1>1, <1>4, <2>1 DEF Control, Acting, Acts
  <2>2. CASE pc[p] = "unknown"
    <3>1. pc'[p] \notin Acts
      BY <2>2 DEF TypeOK, Inspect, CleanUnknown, CleanFound, Goto, Acts
    <3> QED BY <3>1 DEF Acting, Acts
  <2> QED BY <1>1, <2>1, <2>2
<1>6. Reported(p)'
  <2>1. CASE pc[p] = "unknown"
    BY <1>1, <2>1 DEF Control, Searching, Reported
  <2>2. CASE pc[p] = "found" /\ pc'[p] = "removed"
    <3>1. PICK x \in Runs : matches[p] = {x}
      BY <2>2 DEF Control, Acting, Acts
    <3>2. dir[x] = "none"
      BY <2>2, <3>1 DEF TypeOK, Inspect, CleanUnknown, CleanFound, Goto
    <3> QED BY <1>1, <3>1, <3>2 DEF Reported, HasRuntime
  <2> QED BY <1>1, <2>1, <2>2 DEF Reported
<1> QED BY <1>2, <1>3, <1>4, <1>5, <1>6, PrivateStep

(***************************************************************************)
(* The steps of a clean that change directories.                           *)
(***************************************************************************)
\* What such a step may do to a directory, and what the other commands see of it.
LEMMA DirStep ==
  ASSUME IInv, NEW p \in Cleans, TypeOK', Leftover',
         UNCHANGED <<runVars, ref, todo, reading, matches, late>>,
         \A q \in Commands : bearers'[q] \subseteq bearers[q] \ {r \in Runs : dir'[r] # dir[r]},
         \A q \in Commands \ {p} : pc'[q] = pc[q],
         \A r \in Runs :
           dir'[r] # dir[r] => r \in matches[p] /\ dir'[r] \in {"none", "empty", "made"},
         Searching(p)', Acting(p)', Reported(p)'
  PROVE  IInv'
<1> USE DEF IInv
<1>1. \A r \in Runs : dir'[r] # dir[r] => Launched(r) /\ dir[r] # "torn" /\ ~HasRuntime(r)'
  BY DEF Matched, RunDir, Launched, HasRuntime, Commands
<1>2. RunDir' /\ Forward
  BY <1>1 DEF RunDir, Forward, Launched, Seen, HasRuntime, runVars
<1>3. BearersReady'
  BY DEF BearersReady, TypeOK
<1>4. Matched'
  BY DEF Matched, Launched, runVars
<1>5. Control'
  <2>1. ASSUME NEW q \in Commands \ {p} PROVE Searching(q)' /\ Acting(q)' /\ Reported(q)'
    BY <1>2, Keeps
  <2> QED BY <2>1 DEF Control
<1> QED BY <1>2, <1>3, <1>4, <1>5

LEMMA WriteStep ==
  ASSUME IInv, NEW p \in Cleans, CleanMark(p)
  PROVE  IInv'
<1> USE DEF IInv
<1>0. p \in Commands /\ pc \in [Commands -> Labels] /\ dir \in [Runs -> {"none", "empty", "made", "torn", "ready"}]
  BY DEF Commands, TypeOK
<1>1. PICK r \in Runs : matches[p] = {r} /\ (r = ref[p] \/ (Name[r] = ref[p] /\ bearers[p] \subseteq {r}))
  BY <1>0 DEF Control, Acting, Acts, CleanMark, CleanWrite
<1>2. /\ UNCHANGED <<runVars, ref, todo, reading, matches, bearers, late>>
      /\ \/ pc[p] = "mark" /\ pc'[p] \in {"stopped", "crashed"}
         \/ pc[p] = "stopped" /\ pc'[p] \in {"unlink", "crashed"}
      /\ \/ dir' = [dir EXCEPT ![r] = IF @ \in {"none", "empty"} THEN "made" ELSE @]
            /\ pc'[p] # "crashed"
         \/ UNCHANGED dir /\ dir[r] \in {"none", "empty"}
      /\ \A q \in Commands \ {p} : pc'[q] = pc[q]
  BY <1>0, <1>1 DEF CleanMark, CleanWrite, Goto
<1>3. TypeOK'
  <2>1. dir' \in [Runs -> {"none", "empty", "made", "torn", "ready"}] /\ pc' \in [Commands -> Labels]
    BY <1>0, <1>1 DEF CleanMark, CleanWrite, Goto, Labels
  <2> QED BY <1>2, <2>1 DEF TypeOK, runVars
<1>4. Leftover'
  <2> SUFFICES ASSUME NEW x \in Runs, Launched(x)
               PROVE  /\ dir'[x] = "made" => x \in late \/ LeftTo(x, {"stopped", "unlink"})'
                      /\ dir'[x] = "empty" => LeftTo(x, {"rmdir"})'
    BY <1>2 DEF Leftover, Launched, runVars
  <2>1. dir'[x] = dir[x] \/ (x = r /\ dir'[x] = "made" /\ pc'[p] \in {"stopped", "unlink"})
    BY <1>0, <1>2
  <2>2. LeftTo(x, {"rmdir"}) => LeftTo(x, {"rmdir"})'
    BY <1>2 DEF LeftTo, Commands
  <2>3. CASE dir'[x] = dir[x] /\ (x # r \/ pc'[p] # "crashed")
    BY <1>1, <1>2, <2>2, <2>3 DEF Leftover, LeftTo, Commands
  <2>4. CASE dir'[x] = dir[x] /\ x = r /\ pc'[p] = "crashed"
    BY <1>2, <2>2, <2>4 DEF Leftover
  <2>5. CASE x = r /\ dir'[x] = "made" /\ pc'[p] \in {"stopped", "unlink"}
    BY <1>1, <1>2, <2>5 DEF LeftTo
  <2> QED BY <2>1, <2>3, <2>4, <2>5
<1>5. \A q \in Commands : bearers'[q] \subseteq bearers[q] \ {x \in Runs : dir'[x] # dir[x]}
  BY <1>0, <1>2 DEF BearersReady
<1>6. \A x \in Runs : dir'[x] # dir[x] => x \in matches[p] /\ dir'[x] \in {"none", "empty", "made"}
  BY <1>0, <1>1, <1>2
<1>7. Searching(p)' /\ Reported(p)'
  BY <1>2 DEF Searching, Reported
<1>8. Acting(p)'
  BY <1>1, <1>2 DEF Acting, Acts
<1> QED BY <1>2, <1>3, <1>4, <1>5, <1>6, <1>7, <1>8, DirStep

LEMMA UnlinkStep ==
  ASSUME IInv, NEW p \in Cleans, CleanUnlink(p)
  PROVE  IInv'
<1> USE DEF IInv
<1>0. p \in Commands /\ pc \in [Commands -> Labels]
  BY DEF Commands, TypeOK
<1>1. PICK r \in Runs : matches[p] = {r} /\ (r = ref[p] \/ (Name[r] = ref[p] /\ bearers[p] \subseteq {r}))
  BY <1>0 DEF Control, Acting, Acts, CleanUnlink
<1>2. /\ UNCHANGED <<runVars, ref, todo, reading, matches, late>>
      /\ pc[p] = "unlink" /\ pc'[p] = "rmdir"
      /\ \A x \in Runs : dir'[x] = IF x = r /\ dir[x] # "none" THEN "empty" ELSE dir[x]
      /\ \A q \in Commands : bearers'[q] = bearers[q] \ {r}
      /\ \A q \in Commands \ {p} : pc'[q] = pc[q]
  BY <1>0, <1>1 DEF CleanUnlink, Goto
<1>3. TypeOK'
  BY DEF TypeOK, CleanUnlink, Goto, Labels, runVars, References
<1>4. Leftover'
  <2> SUFFICES ASSUME NEW x \in Runs, Launched(x)
               PROVE  /\ dir'[x] = "made" => x \in late \/ LeftTo(x, {"stopped", "unlink"})'
                      /\ dir'[x] = "empty" => LeftTo(x, {"rmdir"})'
    BY <1>2 DEF Leftover, Launched, runVars
  <2>1. CASE x = r
    BY <1>1, <1>2, <2>1 DEF LeftTo
  <2>2. CASE x # r
    BY <1>1, <1>2, <2>2 DEF Leftover, LeftTo, Commands
  <2> QED BY <2>1, <2>2
<1>5. \A q \in Commands : bearers'[q] \subseteq bearers[q] \ {x \in Runs : dir'[x] # dir[x]}
  BY <1>2
<1>6. \A x \in Runs : dir'[x] # dir[x] => x \in matches[p] /\ dir'[x] \in {"none", "empty", "made"}
  BY <1>1, <1>2
<1>7. Searching(p)' /\ Reported(p)'
  BY <1>2 DEF Searching, Reported
<1>8. ~HasRuntime(r)'
  BY <1>2 DEF HasRuntime
<1>9. Acting(p)'
  BY <1>0, <1>1, <1>2, <1>8 DEF Acting, Acts
<1> QED BY <1>2, <1>3, <1>4, <1>5, <1>6, <1>7, <1>9, DirStep

LEMMA RmdirStep ==
  ASSUME IInv, NEW p \in Cleans, CleanRmdir(p)
  PROVE  IInv'
<1> USE DEF IInv
<1>0. p \in Commands /\ pc \in [Commands -> Labels]
  BY DEF Commands, TypeOK
<1>1. PICK r \in Runs : matches[p] = {r} /\ ~HasRuntime(r)
  BY <1>0 DEF Control, Acting, Acts, CleanRmdir
<1>2. /\ UNCHANGED <<runVars, ref, todo, reading, matches, bearers, late>>
      /\ pc[p] = "rmdir" /\ pc'[p] = "removed"
      /\ \A x \in Runs : dir'[x] = IF x = r /\ dir[x] = "empty" THEN "none" ELSE dir[x]
      /\ \A q \in Commands \ {p} : pc'[q] = pc[q]
  BY <1>0, <1>1 DEF CleanRmdir, Goto
<1>3. TypeOK'
  BY DEF TypeOK, CleanRmdir, Goto, Labels, runVars, References
<1>4. Leftover'
  <2> SUFFICES ASSUME NEW x \in Runs, Launched(x)
               PROVE  /\ dir'[x] = "made" => x \in late \/ LeftTo(x, {"stopped", "unlink"})'
                      /\ dir'[x] = "empty" => LeftTo(x, {"rmdir"})'
    BY <1>2 DEF Leftover, Launched, runVars
  <2>1. CASE dir'[x] = "made"
    BY <1>2, <2>1 DEF Leftover, LeftTo, Commands
  <2>2. CASE dir'[x] = "empty"
    <3>1. x # r /\ dir[x] = "empty"
      BY <1>2, <2>2
    <3> QED BY <1>1, <1>2, <3>1 DEF Leftover, LeftTo, Commands
  <2> QED BY <2>1, <2>2
<1>5. \A q \in Commands : bearers'[q] \subseteq bearers[q] \ {x \in Runs : dir'[x] # dir[x]}
  BY <1>2 DEF BearersReady
<1>6. \A x \in Runs : dir'[x] # dir[x] => x \in matches[p] /\ dir'[x] \in {"none", "empty", "made"}
  BY <1>1, <1>2
<1>7. Searching(p)' /\ Acting(p)'
  BY <1>2 DEF Searching, Acting, Acts
<1>8. Reported(p)'
  BY <1>1, <1>2 DEF Reported, HasRuntime
<1> QED BY <1>2, <1>3, <1>4, <1>5, <1>6, <1>7, <1>8, DirStep

LEMMA NextIInv == IInv /\ [Next]_vars => IInv'
<1> SUFFICES ASSUME IInv, [Next]_vars PROVE IInv'
  OBVIOUS
<1>1. CASE \E r \in Runs : Run(r)
  BY <1>1, RunStep
<1>2. CASE \E p \in Commands : Resolve(p)
  BY <1>2, SearchStep, LookStep, StateStep, EndStep DEF Resolve
<1>3. CASE \E p \in Commands : Inspect(p) \/ CleanUnknown(p) \/ CleanFound(p)
  BY <1>3, OutcomeStep
<1>4. CASE \E p \in Cleans : CleanMark(p) \/ CleanUnlink(p) \/ CleanRmdir(p)
  BY <1>4, WriteStep, UnlinkStep, RmdirStep
<1>5. CASE UNCHANGED vars
  <2>1. TypeOK' /\ RunDir' /\ BearersReady' /\ Matched' /\ Leftover' /\ Forward
    BY <1>5 DEF IInv, TypeOK, RunDir, BearersReady, Matched, Leftover, LeftTo, Forward, Launched,
                Seen, HasRuntime, vars, runVars, commandVars
  <2>2. Control'
    BY <1>5, <2>1, Keeps DEF Control, vars, commandVars
  <2> QED BY <2>1, <2>2 DEF IInv
<1> QED BY <1>1, <1>2, <1>3, <1>4, <1>5 DEF Next, Clean, Commands

(***************************************************************************)
(* The theorems.                                                           *)
(***************************************************************************)
LEMMA Invariance == Spec => []IInv
  BY InitIInv, NextIInv, PTL DEF Spec

\* Every variable of Registry keeps its type, and the docker container of
\* prepare_rootfs outlives no run that gets past it.
THEOREM TypeCorrect == Spec => []TypeOK
<1>1. IInv => TypeOK
  BY DEF IInv
<1> QED BY <1>1, Invariance, PTL

\* resolve_container: a command acts on the container of the id it was given,
\* or on the only one that has had that name ever since it began.
THEOREM ActsOnDenoted == Spec => []ActsOnTheOne
<1>1. IInv => ActsOnTheOne
  BY DEF IInv, Control, Acting, ActsOnTheOne
<1> QED BY <1>1, Invariance, PTL

\* clean_command: after a success nobody finds the container, its directory is
\* gone or in the hands of its run or of another clean, and if nothing was found
\* nothing was overlooked.
THEOREM CleanTruthful == Spec => []CleanReports
<1>1. ASSUME IInv PROVE CleanReports
  <2> SUFFICES ASSUME NEW p \in Cleans, pc[p] = "removed"
               PROVE  /\ matches[p] = {} => bearers[p] = {}
                      /\ \A r \in Runs :
                           matches[p] = {r} =>
                             /\ ~HasRuntime(r)
                             /\ \/ dir[r] = "none" \/ r \in late
                                \/ LeftTo(r, {"stopped", "unlink", "rmdir"})
    BY DEF CleanReports, LeftTo
  <2>1. p \in Commands /\ Reported(p)
    BY <1>1 DEF IInv, Control, Commands
  <2>2. ASSUME NEW r \in Runs, matches[p] = {r}
        PROVE  dir[r] = "none" \/ r \in late \/ LeftTo(r, {"stopped", "unlink", "rmdir"})
    <3>1. Launched(r) /\ ~HasRuntime(r)
      BY <1>1, <2>1, <2>2 DEF IInv, Matched, Reported
    <3>2. dir[r] \in {"none", "empty", "made"}
      BY <1>1, <3>1 DEF IInv, TypeOK, HasRuntime
    <3> QED BY <1>1, <3>1, <3>2 DEF IInv, Leftover, LeftTo
  <2> QED BY <2>1, <2>2 DEF Reported
<1> QED BY <1>1, Invariance, PTL

=============================================================================

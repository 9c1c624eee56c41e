-------------------------------- MODULE Watch --------------------------------
(***************************************************************************)
(* Watch mode (RunWatchMode in bwslc.cpp): a loop that polls the units it  *)
(* compiles, the module files they were seen to import and the module      *)
(* directories, and compiles again what a change concerns, while somebody  *)
(* goes on editing the files.                                              *)
(*                                                                         *)
(* A step of the loop looks at files that no other part of that step looks *)
(* at, so that edits during the step can be moved in front of it or behind *)
(* it.  No file has a submodule header: the snapshots taken for them then  *)
(* have no effect.                                                         *)
(***************************************************************************)
EXTENDS Naturals, Sequences, SequencesExt

CONSTANTS
  Inputs,         \* the units there may be, in the order of the job list
  Named,          \* those an input or the manifest names, the others being found in a directory
  ModuleFiles,    \* what the -modules directories may hold
  OtherFiles,     \* what the other directories of the search path may hold besides units
  Directory,      \* where a unit looks for modules
  Candidates,     \* Candidates[d][n]: the files a module n may be in, the first one there is taken
  Imports,        \* Imports[f]: the sets of modules that f may import
  MaxEdits        \* bound: how many edits there are

Units == ToSet(Inputs)
Files == Units \cup ModuleFiles \cup OtherFiles
Names == UNION UNION {Imports[f] : f \in Files}
Nowhere == "nowhere"

ASSUME WatchAssumption ==
  /\ Named \subseteq Units /\ Nowhere \notin Files /\ MaxEdits \in Nat
  /\ DOMAIN Directory = Units /\ \A u \in Units : Directory[u] \in DOMAIN Candidates
  /\ DOMAIN Imports = Files /\ Inputs \in Seq(Units)
  /\ \A d \in DOMAIN Candidates : Candidates[d] \in [Names -> Seq(Files)]

VARIABLES
  file,        \* the files: is it there, how often was it written, what does it import
  edits,       \* how many edits there were
  jobs,        \* jobStates: the units, in order
  state,       \* what a job's last compilation left behind
  moduleSigs,  \* the signatures of the module files that jobs depend on
  late,        \* history: those whose first signature is of another state than was read
  listing,     \* moduleDirSnapshots
  cache,       \* moduleSourceCache
  pc,          \* where the loop is
  todo,        \* dirtyIndices
  wanted,      \* what the compilation that is going on has still to import
  jobsAdded, removed

files == <<file, edits>>
sigs == <<moduleSigs, late>>
loop == <<todo, jobsAdded, removed>>
vars == <<files, jobs, state, sigs, listing, cache, pc, loop, wanted>>

Building == {"start", "read", "import"}

(* StatWatchFile: an edit changes the time or the size of a file.          *)
Stat(f) == IF file[f].exists THEN file[f].stamp ELSE 0

(* What is left of s when all but the members of S are dropped.            *)
Keep(s, S) ==
  LET kept[n \in 0..Len(s)] == IF n = 0 THEN <<>>
                               ELSE IF s[n] \in S THEN Append(kept[n - 1], s[n]) ELSE kept[n - 1]
  IN kept[Len(s)]

Listed == Keep(Inputs, Named \cup {u \in Units : file[u].exists})
ModuleDirFiles == {f \in ModuleFiles : file[f].exists}

(* WatchJobState; output is what the compilation was made from.            *)
NewJob == [sourceSig |-> 0, deps |-> {}, failed |-> FALSE, output |-> [source |-> 0, modules |-> <<>>]]

----------------------------------------------------------------------------
(* A build compiles the dirty jobs in order.                               *)
Current == jobs[SelectInSeq(jobs, LAMBDA u : u \in todo)]

(* The signature of a unit is taken before it is read.                     *)
StartJob ==
  /\ pc = "start" /\ todo # {}
  /\ state' = [state EXCEPT ![Current].sourceSig = Stat(Current)]
  /\ pc' = "read"
  /\ UNCHANGED <<files, jobs, sigs, listing, cache, loop, wanted>>

ReadSource ==
  /\ pc = "read"
  /\ state' = [state EXCEPT ![Current] =
                 [NewJob EXCEPT !.sourceSig = state[Current].sourceSig, !.output.source = Stat(Current)]]
  /\ wanted' = IF file[Current].exists THEN file[Current].imports ELSE {}
  /\ pc' = "import"
  /\ UNCHANGED <<files, jobs, sigs, listing, cache, loop>>

Resolve(u, n) ==
  LET paths == Candidates[Directory[u]][n]
      at == SelectInSeq(paths, LAMBDA f : file[f].exists)
  IN IF at = 0 THEN Nowhere ELSE paths[at]

(* History: the files for module n that are not what the loop last saw,    *)
(* one that its lists hold and that is gone, or the one found when it was  *)
(* gone.                                                                   *)
News(u, n) ==
  {f \in ToSet(Candidates[Directory[u]][n]) :
     IF file[f].exists THEN f \in DOMAIN moduleSigs /\ moduleSigs[f] = 0
                       ELSE f \in listing \cup ToSet(jobs)}

(* ResolveModulePath and the reading of the file found.                    *)
Loaded(u, n) ==
  LET path == Resolve(u, n)
  IN [path |-> path, news |-> News(u, n),
      stamp |-> IF path = Nowhere THEN 0 ELSE file[path].stamp,
      imports |-> IF path = Nowhere THEN {} ELSE file[path].imports]

(* LoadModuleSourceFromDisk, by way of the cache of this build.            *)
ImportModule(n) ==
  LET key == <<Directory[Current], n>>
      entry == IF key \in DOMAIN cache THEN cache[key] ELSE Loaded(Current, n)
      modules == [m \in DOMAIN state[Current].output.modules \cup {n} |->
                    IF m = n THEN entry ELSE state[Current].output.modules[m]]
  IN /\ pc = "import" /\ n \in wanted
     /\ cache' = [k \in DOMAIN cache \cup {key} |-> IF k = key THEN entry ELSE cache[k]]
     /\ state' = [state EXCEPT ![Current].deps = @ \cup ({entry.path} \ {Nowhere}),
                               ![Current].failed = @ \/ entry.path = Nowhere,
                               ![Current].output.modules = modules]
     /\ wanted' = (wanted \cup entry.imports) \ DOMAIN modules
     /\ UNCHANGED <<files, jobs, sigs, listing, pc, loop>>

(* Mutant of EndJob: the signature is taken when the job is done.          *)
SignsAtTheEnd ==
  /\ pc = "import" /\ wanted = {}
  /\ state' = [state EXCEPT ![Current].sourceSig = Stat(Current)]
  /\ todo' = todo \ {Current}
  /\ pc' = "start"
  /\ UNCHANGED <<files, jobs, sigs, listing, cache, wanted, jobsAdded, removed>>

EndJob ==
  /\ pc = "import" /\ wanted = {}
  /\ todo' = todo \ {Current}
  /\ pc' = "start"
  /\ UNCHANGED <<files, jobs, state, sigs, listing, cache, wanted, jobsAdded, removed>>

(* The module files to watch: what is known of one stays, a new one is     *)
(* looked at now.                                                          *)
EndBuild ==
  /\ pc = "start" /\ todo = {}
  /\ moduleSigs' = [p \in UNION {state[u].deps : u \in ToSet(jobs)} |->
                      IF p \in DOMAIN moduleSigs THEN moduleSigs[p] ELSE Stat(p)]
  /\ late' = late \cap DOMAIN moduleSigs'
  /\ pc' = "wait"
  /\ UNCHANGED <<files, jobs, state, listing, cache, loop, wanted>>

----------------------------------------------------------------------------
(* A tick.  Its first step expands the inputs again.                       *)
ListJobs ==
  /\ pc = "wait"
  /\ LET added == Keep(Listed, Units \ ToSet(jobs))
         kept == Keep(jobs, ToSet(Listed))
     IN /\ jobs' = kept \o added
        /\ state' = [u \in Units |-> IF u \in ToSet(kept) THEN state[u] ELSE NewJob]
        /\ todo' = ToSet(added)
        /\ jobsAdded' = (added # <<>>)
        /\ removed' = (kept # jobs)
  /\ pc' = "sources"
  /\ UNCHANGED <<files, sigs, listing, cache, wanted>>

(* BuildJobList fails: the previous set is kept.                           *)
KeepJobs ==
  /\ pc = "wait"
  /\ todo' = {} /\ jobsAdded' = FALSE /\ removed' = FALSE
  /\ pc' = "sources"
  /\ UNCHANGED <<files, jobs, state, sigs, listing, cache, wanted>>

StatSources ==
  /\ pc = "sources"
  /\ todo' = todo \cup {u \in ToSet(jobs) : Stat(u) # state[u].sourceSig}
  /\ pc' = "modules"
  /\ UNCHANGED <<files, jobs, state, sigs, listing, cache, wanted, jobsAdded, removed>>

StatModules ==
  /\ pc = "modules"
  /\ LET changed == {p \in DOMAIN moduleSigs : Stat(p) # moduleSigs[p]}
     IN /\ todo' = todo \cup {u \in ToSet(jobs) : state[u].deps \cap changed # {}}
        /\ late' = late \ changed
  /\ moduleSigs' = [p \in DOMAIN moduleSigs |-> Stat(p)]
  /\ pc' = "directories"
  /\ UNCHANGED <<files, jobs, state, listing, cache, wanted, jobsAdded, removed>>

(* The last step: a module directory with other files makes every job      *)
(* dirty, a new unit those that failed to find a module.                   *)
ScanModuleDirs ==
  /\ pc = "directories"
  /\ todo' = IF ModuleDirFiles # listing THEN ToSet(jobs)
             ELSE IF jobsAdded THEN todo \cup {u \in ToSet(jobs) : state[u].failed}
             ELSE todo
  /\ listing' = ModuleDirFiles
  /\ pc' = IF todo' = {} /\ ~removed THEN "wait" ELSE "settle"
  /\ UNCHANGED <<files, jobs, state, sigs, cache, wanted, jobsAdded, removed>>

(* Mutant of StartBuild: the sources of the last build are used again.     *)
KeepsSources ==
  /\ pc = "settle" /\ pc' = "start"
  /\ UNCHANGED <<files, jobs, state, sigs, listing, cache, loop, wanted>>

StartBuild ==
  /\ pc = "settle" /\ pc' = "start"
  /\ cache' = <<>>
  /\ UNCHANGED <<files, jobs, state, sigs, listing, loop, wanted>>

(* A signal is honoured while the loop sleeps.                             *)
Stop ==
  /\ pc \in {"wait", "settle"} /\ pc' = "stopped"
  /\ UNCHANGED <<files, jobs, state, sigs, listing, cache, loop, wanted>>

----------------------------------------------------------------------------
(* Whoever edits the files, at any moment.                                 *)
ReadUnsigned == {cache[k].path : k \in DOMAIN cache} \ DOMAIN moduleSigs

WriteFile(f, imports) ==
  /\ edits < MaxEdits
  /\ file' = [file EXCEPT ![f] = [exists |-> TRUE, stamp |-> @.stamp + 1, imports |-> imports]]
  /\ edits' = edits + 1
  /\ late' = late \cup ({f} \cap ReadUnsigned)
  /\ UNCHANGED <<jobs, state, moduleSigs, listing, cache, pc, loop, wanted>>

DeleteFile(f) ==
  /\ edits < MaxEdits /\ file[f].exists
  /\ file' = [file EXCEPT ![f] = [exists |-> FALSE, stamp |-> @.stamp, imports |-> {}]]
  /\ edits' = edits + 1
  /\ late' = late \cup ({f} \cap ReadUnsigned)
  /\ UNCHANGED <<jobs, state, moduleSigs, listing, cache, pc, loop, wanted>>

Init ==
  /\ file \in [Files -> [exists : BOOLEAN, stamp : {1}, imports : SUBSET Names]]
  /\ \A f \in Files : file[f].imports \in (IF file[f].exists THEN Imports[f] ELSE {{}})
  /\ edits = 0
  /\ jobs = Listed
  /\ state = [u \in Units |-> NewJob]
  /\ moduleSigs = <<>> /\ late = {} /\ listing = ModuleDirFiles /\ cache = <<>>
  /\ pc = "start" /\ todo = ToSet(jobs)
  /\ wanted = {} /\ jobsAdded = FALSE /\ removed = FALSE

Build == StartJob \/ ReadSource \/ (\E n \in wanted : ImportModule(n)) \/ EndJob \/ EndBuild
Tick == ListJobs \/ KeepJobs \/ StatSources \/ StatModules \/ ScanModuleDirs \/ StartBuild
Edit == \E f \in Files : DeleteFile(f) \/ \E imports \in Imports[f] : WriteFile(f, imports)

Next == Build \/ Tick \/ Stop \/ Edit

(* The loop goes on by itself, and its inputs can be listed again and      *)
(* again.                                                                  *)
Spec == Init /\ [][Next]_vars
FairSpec == Spec /\ WF_vars(Build \/ Tick) /\ SF_vars(ListJobs)

----------------------------------------------------------------------------
(* A unit was compiled from something else than the files of now, its      *)
(* source or a module (one that is gone has nothing to be compiled from).  *)
StaleSource(u) == Stat(u) # state[u].output.source

StaleModule(u, n) ==
  LET module == state[u].output.modules[n]
  IN \/ Resolve(u, n) # module.path
     \/ module.path # Nowhere /\ Stat(module.path) # module.stamp

(* What the next tick would see.                                           *)
Noticed(u) ==
  \/ Stat(u) # state[u].sourceSig
  \/ \E p \in state[u].deps : Stat(p) # moduleSigs[p]
  \/ ModuleDirFiles # listing
  \/ state[u].failed /\ ~(ToSet(Listed) \subseteq ToSet(jobs))

(* The files a module may be in ahead of the one it was found in.          *)
Ahead(u, n) ==
  LET paths == Candidates[Directory[u]][n]
      at == SelectInSeq(paths, LAMBDA f : f = state[u].output.modules[n].path)
  IN {paths[i] : i \in {i \in DOMAIN paths : at = 0 \/ i < at}}

(* The three ways in which a module of a unit changes behind the loop's    *)
(* back.  Its file was edited after the first build that read it had done  *)
(* so and before that build took the signature (lines 4717-4727).  Its     *)
(* file had come, or one ahead of it had gone, since the loop looked last, *)
(* and was again as before when it looked next (a unit that is named is    *)
(* listed whether it is there or not).  And a file came ahead of it in a   *)
(* directory that is not listed, or is listed for the units that failed to *)
(* find a module only (lines 4903-4912).                                   *)
Escapes(u, n) ==
  LET module == state[u].output.modules[n]
  IN \/ /\ module.path \in late \cup module.news
        /\ Stat(module.path) # module.stamp
     \/ \E f \in Ahead(u, n) :
          /\ file[f].exists
          /\ \/ f \in module.news
             \/ f \notin ModuleFiles /\ (f \notin Units \/ module.path # Nowhere)

Outdated(u) ==
  /\ file[u].exists
  /\ StaleSource(u) \/ \E n \in DOMAIN state[u].output.modules : StaleModule(u, n) /\ ~Escapes(u, n)

(* Whatever changes and whenever, the loop can still tell after the build: *)
(* a source always ("an extra rebuild, never a missed one", lines          *)
(* 4668-4670), a module, the file a module is found in, or that one it     *)
(* failed to find is there, in all cases but the three that Escapes names  *)
(* (lines 4717-4728, 4843-4853, 4887-4911).                                *)
NoMissedChange ==
  pc = "wait" => \A u \in ToSet(jobs) : Outdated(u) => Noticed(u)

(* When the edits end the loop comes to rest, unless it is stopped, and    *)
(* then its units are those there are, each compiled from its source as it *)
(* is and from its modules as they are but for a change that escaped (the  *)
(* rescan and the rebuild of lines 4767-4928).                             *)
SettlesOnTheFiles ==
  <>[](pc = "stopped" \/
       /\ pc \notin Building
       /\ ToSet(jobs) = ToSet(Listed)
       /\ \A u \in ToSet(jobs) : ~Outdated(u))
=============================================================================

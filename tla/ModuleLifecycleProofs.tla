----------------------- MODULE ModuleLifecycleProofs -----------------------
(* What ModuleLifecycle guarantees for any set of modules.                 *)
EXTENDS ModuleLifecycle, TLAPS

(* A job that has stored the views of a module has not moved on from it.   *)
AtLoadedModule ==
  at \in {"data", "state"} =>
    /\ pos \in 1..N
    /\ This \in meta
    /\ at = "state" /\ job # "restore" => This \in data

(* The web buttons are out of reach while initialize runs, so the resolver *)
(* agrees with the rows.                                                   *)
BootIsAlone ==
  job = "initialize" =>
    /\ process \in {"boot", "cli"}
    /\ at # "resolve" => memInstalled = installed /\ memPending = pending

(* initialize has loaded what it went past, and what it will need.         *)
Passed ==
  job = "initialize" /\ at \in {"install", "data", "state"} =>
    \A i \in 1..N : i < pos /\ (Order[i] \notin Removable \/ Order[i] \in memInstalled)
                      => Order[i] \in meta

(* Only the jobs in use run.                                               *)
JobInUse ==
  /\ job = "restore" => "restore" \in Jobs /\ process = "up"
  /\ job = "update" => "update" \in Jobs
  /\ job = "none" => at = "resolve"
  /\ at = "resolve" => pos = 1
  /\ at = "uninstall" => job = "initialize"
  /\ job # "none" => process # "down"

(* An update of all installed modules works on such as are, or were until  *)
(* somebody asked for their removal.                                       *)
RestoresKnown ==
  job = "restore" => names \subseteq installed \cup pending

IInv ==
  /\ TypeOK /\ JobInUse /\ BootIsAlone /\ AtLoadedModule /\ Passed /\ RestoresKnown
  /\ InstalledHasMeta
  /\ "restore" \notin Jobs => InstalledHasData
  /\ "update" \notin Jobs => RemovedIsGone

(* While a loop is inside Order it is at a deployed module.                *)
LEMMA ThisIsModule == ASSUME pos \in 1..N PROVE This \in Modules
  BY OrderAssumption DEF This

(* Removing a module touches deployed modules only. *)
LEMMA LinkedAreModules == \A m \in Modules : Linked(m) \subseteq Modules
  BY DEF Linked

(* The first process starts on empty tables. *)
LEMMA InitInv == Init => IInv
  <1>1. Init => update \in BOOLEAN /\ fresh \in BOOLEAN
    BY Zenon DEF Init
  <1>. QED
    BY <1>1, OrderAssumption DEF Init, IInv, TypeOK, JobInUse, BootIsAlone, AtLoadedModule, Passed,
     RestoresKnown, InstalledHasMeta, InstalledHasData, RemovedIsGone, AllJobs

(* A new process begins with a job that has done nothing yet. *)
LEMMA StartServerInv == IInv /\ StartServer => IInv'
  <1>. SUFFICES ASSUME IInv, StartServer PROVE IInv'
    OBVIOUS
  <1>. USE OrderAssumption DEF IInv, StartServer, StartProcess, StartJob, Configured, rows
  <1>0. update' \in BOOLEAN /\ fresh' \in BOOLEAN
    BY Zenon DEF TypeOK
  <1>1. TypeOK'
    BY <1>0 DEF TypeOK, AllJobs
  <1>2. (JobInUse /\ BootIsAlone /\ RestoresKnown)'
    BY DEF JobInUse, BootIsAlone, RestoresKnown
  <1>3. (AtLoadedModule /\ Passed)'
    BY DEF AtLoadedModule, Passed
  <1>4. (InstalledHasMeta /\ ("restore" \notin Jobs => InstalledHasData))'
    BY DEF InstalledHasMeta, InstalledHasData
  <1>5. ("update" \notin Jobs => RemovedIsGone)'
    BY DEF RemovedIsGone
  <1>. QED BY <1>1, <1>2, <1>3, <1>4, <1>5

(* So does the command line. *)
LEMMA StartCliInv == IInv /\ StartCli => IInv'
  <1>. SUFFICES ASSUME IInv, StartCli PROVE IInv'
    OBVIOUS
  <1>. USE OrderAssumption, UpdatesAssumption DEF IInv, StartCli, StartProcess, StartJob, Configured, rows
  <1>0. update' \in BOOLEAN /\ fresh' \in BOOLEAN
    BY Zenon DEF TypeOK
  <1>1. TypeOK'
    BY <1>0 DEF TypeOK, AllJobs
  <1>2. (JobInUse /\ BootIsAlone /\ RestoresKnown)'
    BY DEF JobInUse, BootIsAlone, RestoresKnown
  <1>3. (AtLoadedModule /\ Passed)'
    BY DEF AtLoadedModule, Passed
  <1>4. (InstalledHasMeta /\ ("restore" \notin Jobs => InstalledHasData))'
    BY DEF InstalledHasMeta, InstalledHasData
  <1>5. ("update" \notin Jobs => RemovedIsGone)'
    BY DEF RemovedIsGone
  <1>. QED BY <1>1, <1>2, <1>3, <1>4, <1>5

(* resolve makes resolver and rows equal; what it adds is pending. *)
LEMMA ResolveInv == IInv /\ Resolve => IInv'
  <1>. SUFFICES ASSUME IInv, Resolve PROVE IInv'
    OBVIOUS
  <1>. USE OrderAssumption DEF IInv, Resolve, Forced
  <1>0. update' \in BOOLEAN /\ fresh' \in BOOLEAN
    BY Zenon DEF TypeOK
  <1>1. TypeOK'
    BY <1>0 DEF TypeOK
  <1>2. (JobInUse /\ BootIsAlone /\ RestoresKnown)'
    BY DEF JobInUse, BootIsAlone, RestoresKnown
  <1>3. (AtLoadedModule /\ Passed)'
    BY DEF JobInUse, AtLoadedModule, Passed
  <1>4. (InstalledHasMeta /\ ("restore" \notin Jobs => InstalledHasData))'
    BY DEF InstalledHasMeta, InstalledHasData
  <1>5. ("update" \notin Jobs => RemovedIsGone)'
    BY DEF RemovedIsGone
  <1>. QED BY <1>1, <1>2, <1>3, <1>4, <1>5

(* What initialize skips although it is installed has nothing pending, so
   it is loaded already. *)
LEMMA SkipModuleInv == IInv /\ SkipModule => IInv'
  <1>. SUFFICES ASSUME IInv, SkipModule PROVE IInv'
    OBVIOUS
  <1>. USE OrderAssumption DEF IInv, SkipModule, Installing, Goto, Wanted, rows, memory
  <1>0. update' \in BOOLEAN /\ fresh' \in BOOLEAN
    BY Zenon DEF TypeOK
  <1>1. TypeOK'
    BY <1>0 DEF TypeOK
  <1>2. (JobInUse /\ BootIsAlone /\ RestoresKnown)'
    BY DEF JobInUse, BootIsAlone, RestoresKnown
  <1>3. (AtLoadedModule /\ Passed)'
    BY DEF TypeOK, BootIsAlone, AtLoadedModule, Passed, InstalledHasMeta, This
  <1>4. (InstalledHasMeta /\ ("restore" \notin Jobs => InstalledHasData))'
    BY DEF InstalledHasMeta, InstalledHasData
  <1>5. ("update" \notin Jobs => RemovedIsGone)'
    BY DEF RemovedIsGone
  <1>. QED BY <1>1, <1>2, <1>3, <1>4, <1>5

(* An update may load a module nobody has installed, initialize and
   restore do not. *)
LEMMA InstallMetaInv == IInv /\ InstallMeta => IInv'
  <1>. SUFFICES ASSUME IInv, InstallMeta PROVE IInv'
    OBVIOUS
  <1>. USE OrderAssumption, ThisIsModule DEF IInv, InstallMeta, Installing, Goto, Wanted, memory
  <1>0. update' \in BOOLEAN /\ fresh' \in BOOLEAN
    BY Zenon DEF TypeOK
  <1>1. TypeOK'
    BY <1>0 DEF TypeOK
  <1>2. (JobInUse /\ BootIsAlone /\ RestoresKnown)'
    BY DEF JobInUse, BootIsAlone, RestoresKnown
  <1>3. (AtLoadedModule /\ Passed)'
    BY DEF TypeOK, AtLoadedModule, Passed, This
  <1>4. (InstalledHasMeta /\ ("restore" \notin Jobs => InstalledHasData))'
    BY DEF InstalledHasMeta, InstalledHasData
  <1>5. ("update" \notin Jobs => RemovedIsGone)'
    BY DEF TypeOK, JobInUse, AllJobs, BootIsAlone, RestoresKnown, RemovedIsGone
  <1>. QED BY <1>1, <1>2, <1>3, <1>4, <1>5

(* restore is the one job that moves on without data. *)
LEMMA LoadDataInv == IInv /\ LoadData => IInv'
  <1>. SUFFICES ASSUME IInv, LoadData PROVE IInv'
    OBVIOUS
  <1>. USE OrderAssumption, ThisIsModule DEF IInv, LoadData, Goto, memory
  <1>0. update' \in BOOLEAN /\ fresh' \in BOOLEAN
    BY Zenon DEF TypeOK
  <1>1. TypeOK'
    BY <1>0 DEF TypeOK, AtLoadedModule
  <1>2. (JobInUse /\ BootIsAlone /\ RestoresKnown)'
    BY DEF JobInUse, BootIsAlone, RestoresKnown
  <1>3. (AtLoadedModule /\ Passed)'
    BY DEF AtLoadedModule, Passed, This
  <1>4. (InstalledHasMeta /\ ("restore" \notin Jobs => InstalledHasData))'
    BY DEF InstalledHasMeta, InstalledHasData
  <1>5. ("update" \notin Jobs => RemovedIsGone)'
    BY DEF RemovedIsGone
  <1>. QED BY <1>1, <1>2, <1>3, <1>4, <1>5

(* The flags are set behind the loading they stand for. *)
LEMMA UpdateStateInv == IInv /\ UpdateState => IInv'
  <1>. SUFFICES ASSUME IInv, UpdateState PROVE IInv'
    OBVIOUS
  <1>. USE OrderAssumption, ThisIsModule DEF IInv, UpdateState, MarkInstalled, Goto
  <1>0. update' \in BOOLEAN /\ fresh' \in BOOLEAN
    BY Zenon DEF TypeOK
  <1>1. TypeOK'
    BY <1>0 DEF TypeOK, AtLoadedModule
  <1>2. (JobInUse /\ BootIsAlone /\ RestoresKnown)'
    BY DEF JobInUse, BootIsAlone, RestoresKnown
  <1>3. (AtLoadedModule /\ Passed)'
    BY DEF AtLoadedModule, Passed, This
  <1>4. (InstalledHasMeta /\ ("restore" \notin Jobs => InstalledHasData))'
    BY DEF JobInUse, AtLoadedModule, InstalledHasMeta, InstalledHasData
  <1>5. ("update" \notin Jobs => RemovedIsGone)'
    BY DEF RemovedIsGone
  <1>. QED BY <1>1, <1>2, <1>3, <1>4, <1>5

(* The installations are through: removals follow, or the job is over. *)
LEMMA EndInstallsInv == IInv /\ EndInstalls => IInv'
  <1>. SUFFICES ASSUME IInv, EndInstalls PROVE IInv'
    OBVIOUS
  <1>. USE OrderAssumption DEF IInv, EndInstalls, EndJob, Goto, rows, memory
  <1>0. update' \in BOOLEAN /\ fresh' \in BOOLEAN
    BY Zenon DEF TypeOK
  <1>1. TypeOK'
    BY <1>0 DEF TypeOK
  <1>2. (JobInUse /\ BootIsAlone /\ RestoresKnown)'
    BY DEF JobInUse, BootIsAlone, RestoresKnown
  <1>3. (AtLoadedModule /\ Passed)'
    BY DEF AtLoadedModule, Passed
  <1>4. (InstalledHasMeta /\ ("restore" \notin Jobs => InstalledHasData))'
    BY DEF InstalledHasMeta, InstalledHasData
  <1>5. ("update" \notin Jobs => RemovedIsGone)'
    BY DEF RemovedIsGone
  <1>. QED BY <1>1, <1>2, <1>3, <1>4, <1>5

(* The removals pass over a module. *)
LEMMA KeepModuleInv == IInv /\ KeepModule => IInv'
  <1>. SUFFICES ASSUME IInv, KeepModule PROVE IInv'
    OBVIOUS
  <1>. USE OrderAssumption DEF IInv, KeepModule, Uninstalling, Goto, rows, memory
  <1>0. update' \in BOOLEAN /\ fresh' \in BOOLEAN
    BY Zenon DEF TypeOK
  <1>1. TypeOK'
    BY <1>0 DEF TypeOK
  <1>2. (JobInUse /\ BootIsAlone /\ RestoresKnown)'
    BY DEF JobInUse, BootIsAlone, RestoresKnown
  <1>3. (AtLoadedModule /\ Passed)'
    BY DEF AtLoadedModule, Passed
  <1>4. (InstalledHasMeta /\ ("restore" \notin Jobs => InstalledHasData))'
    BY DEF InstalledHasMeta, InstalledHasData
  <1>5. ("update" \notin Jobs => RemovedIsGone)'
    BY DEF RemovedIsGone
  <1>. QED BY <1>1, <1>2, <1>3, <1>4, <1>5

(* Views and flags go in one transaction. *)
LEMMA UninstallInv == IInv /\ Uninstall => IInv'
  <1>. SUFFICES ASSUME IInv, Uninstall PROVE IInv'
    OBVIOUS
  <1>. USE OrderAssumption, ThisIsModule DEF IInv, Uninstall, Uninstalling, Unwanted, MarkUninstalled, Goto
  <1>0. update' \in BOOLEAN /\ fresh' \in BOOLEAN
    BY Zenon DEF TypeOK
  <1>1. TypeOK'
    BY <1>0 DEF TypeOK
  <1>2. (JobInUse /\ BootIsAlone /\ RestoresKnown)'
    BY DEF JobInUse, BootIsAlone, RestoresKnown
  <1>3. (AtLoadedModule /\ Passed)'
    BY DEF AtLoadedModule, Passed
  <1>4. (InstalledHasMeta /\ ("restore" \notin Jobs => InstalledHasData))'
    BY DEF InstalledHasMeta, InstalledHasData
  <1>5. ("update" \notin Jobs => RemovedIsGone)'
    BY DEF RemovedIsGone
  <1>. QED BY <1>1, <1>2, <1>3, <1>4, <1>5

(* The job is over. *)
LEMMA EndUninstallsInv == IInv /\ EndUninstalls => IInv'
  <1>. SUFFICES ASSUME IInv, EndUninstalls PROVE IInv'
    OBVIOUS
  <1>. USE OrderAssumption DEF IInv, EndUninstalls, EndJob, rows, memory
  <1>0. update' \in BOOLEAN /\ fresh' \in BOOLEAN
    BY Zenon DEF TypeOK
  <1>1. TypeOK'
    BY <1>0 DEF TypeOK
  <1>2. (JobInUse /\ BootIsAlone /\ RestoresKnown)'
    BY DEF JobInUse, BootIsAlone, RestoresKnown
  <1>3. (AtLoadedModule /\ Passed)'
    BY DEF AtLoadedModule, Passed
  <1>4. (InstalledHasMeta /\ ("restore" \notin Jobs => InstalledHasData))'
    BY DEF InstalledHasMeta, InstalledHasData
  <1>5. ("update" \notin Jobs => RemovedIsGone)'
    BY DEF RemovedIsGone
  <1>. QED BY <1>1, <1>2, <1>3, <1>4, <1>5

(* A failure leaves rows that are right for a job that stops here. *)
LEMMA FailInv == IInv /\ Fail => IInv'
  <1>. SUFFICES ASSUME IInv, Fail PROVE IInv'
    OBVIOUS
  <1>. USE OrderAssumption DEF IInv, Fail, EndJob, rows, memory
  <1>0. update' \in BOOLEAN /\ fresh' \in BOOLEAN
    BY Zenon DEF TypeOK
  <1>1. TypeOK'
    BY <1>0 DEF TypeOK
  <1>2. (JobInUse /\ BootIsAlone /\ RestoresKnown)'
    BY DEF JobInUse, BootIsAlone, RestoresKnown
  <1>3. (AtLoadedModule /\ Passed)'
    BY DEF AtLoadedModule, Passed
  <1>4. (InstalledHasMeta /\ ("restore" \notin Jobs => InstalledHasData))'
    BY DEF InstalledHasMeta, InstalledHasData
  <1>5. ("update" \notin Jobs => RemovedIsGone)'
    BY DEF RemovedIsGone
  <1>. QED BY <1>1, <1>2, <1>3, <1>4, <1>5

(* The resolver may be ahead of the rows, but no job looks at it again
   before resolve. *)
LEMMA CommitFailsInv == IInv /\ CommitFails => IInv'
  <1>. SUFFICES ASSUME IInv, CommitFails PROVE IInv'
    OBVIOUS
  <1>. USE OrderAssumption, ThisIsModule DEF IInv, CommitFails, MarkInstalled, MarkUninstalled, Uninstalling, EndJob, rows, Forced
  <1>0. update' \in BOOLEAN /\ fresh' \in BOOLEAN
    BY Zenon DEF TypeOK
  <1>1. TypeOK'
    BY <1>0 DEF TypeOK, AtLoadedModule
  <1>2. (JobInUse /\ BootIsAlone /\ RestoresKnown)'
    BY DEF JobInUse, BootIsAlone, RestoresKnown
  <1>3. (AtLoadedModule /\ Passed)'
    BY DEF AtLoadedModule, Passed
  <1>4. (InstalledHasMeta /\ ("restore" \notin Jobs => InstalledHasData))'
    BY DEF InstalledHasMeta, InstalledHasData
  <1>5. ("update" \notin Jobs => RemovedIsGone)'
    BY DEF RemovedIsGone
  <1>. QED BY <1>1, <1>2, <1>3, <1>4, <1>5

(* As it does when the process dies. *)
LEMMA CrashInv == IInv /\ Crash => IInv'
  <1>. SUFFICES ASSUME IInv, Crash PROVE IInv'
    OBVIOUS
  <1>. USE OrderAssumption DEF IInv, Crash, Stop, rows, memory
  <1>0. update' \in BOOLEAN /\ fresh' \in BOOLEAN
    BY Zenon DEF TypeOK
  <1>1. TypeOK'
    BY <1>0 DEF TypeOK
  <1>2. (JobInUse /\ BootIsAlone /\ RestoresKnown)'
    BY DEF JobInUse, BootIsAlone, RestoresKnown
  <1>3. (AtLoadedModule /\ Passed)'
    BY DEF AtLoadedModule, Passed
  <1>4. (InstalledHasMeta /\ ("restore" \notin Jobs => InstalledHasData))'
    BY DEF InstalledHasMeta, InstalledHasData
  <1>5. ("update" \notin Jobs => RemovedIsGone)'
    BY DEF RemovedIsGone
  <1>. QED BY <1>1, <1>2, <1>3, <1>4, <1>5

(* A server is stopped between jobs. *)
LEMMA ShutdownInv == IInv /\ Shutdown => IInv'
  <1>. SUFFICES ASSUME IInv, Shutdown PROVE IInv'
    OBVIOUS
  <1>. USE OrderAssumption DEF IInv, Shutdown, Stop, rows, memory
  <1>0. update' \in BOOLEAN /\ fresh' \in BOOLEAN
    BY Zenon DEF TypeOK
  <1>1. TypeOK'
    BY <1>0 DEF TypeOK
  <1>2. (JobInUse /\ BootIsAlone /\ RestoresKnown)'
    BY DEF JobInUse, BootIsAlone, RestoresKnown
  <1>3. (AtLoadedModule /\ Passed)'
    BY DEF AtLoadedModule, Passed
  <1>4. (InstalledHasMeta /\ ("restore" \notin Jobs => InstalledHasData))'
    BY DEF InstalledHasMeta, InstalledHasData
  <1>5. ("update" \notin Jobs => RemovedIsGone)'
    BY DEF RemovedIsGone
  <1>. QED BY <1>1, <1>2, <1>3, <1>4, <1>5

(* A restore starts, in a running server only. *)
LEMMA RestoreAllInv == IInv /\ RestoreAll => IInv'
  <1>. SUFFICES ASSUME IInv, RestoreAll PROVE IInv'
    OBVIOUS
  <1>. USE OrderAssumption DEF IInv, RestoreAll, Screen, StartJob, rows, memory
  <1>0. update' \in BOOLEAN /\ fresh' \in BOOLEAN
    BY Zenon DEF TypeOK
  <1>1. TypeOK'
    BY <1>0 DEF TypeOK, AllJobs
  <1>2. (JobInUse /\ BootIsAlone /\ RestoresKnown)'
    BY DEF JobInUse, BootIsAlone, RestoresKnown
  <1>3. (AtLoadedModule /\ Passed)'
    BY DEF AtLoadedModule, Passed
  <1>4. (InstalledHasMeta /\ ("restore" \notin Jobs => InstalledHasData))'
    BY DEF InstalledHasMeta
  <1>5. ("update" \notin Jobs => RemovedIsGone)'
    BY DEF RemovedIsGone
  <1>. QED BY <1>1, <1>2, <1>3, <1>4, <1>5

(* The buttons only add to what is installed or pending.                   *)
LEMMA DoInstallInv == ASSUME NEW m \in Modules, IInv, DoInstall(m) PROVE IInv'
  <1>. USE OrderAssumption, DependsAssumption DEF IInv, DoInstall, Screen, memory, task
  <1>0. update' \in BOOLEAN /\ fresh' \in BOOLEAN
    BY Zenon DEF TypeOK
  <1>1. Depends[m] \subseteq Modules
    OBVIOUS
  <1>2. TypeOK'
    BY <1>0, <1>1 DEF TypeOK
  <1>3. (JobInUse /\ BootIsAlone /\ RestoresKnown /\ AtLoadedModule /\ Passed)'
    BY DEF TypeOK, JobInUse, BootIsAlone, RestoresKnown, AtLoadedModule, Passed, This
  <1>4. (InstalledHasMeta /\ ("restore" \notin Jobs => InstalledHasData))'
    BY DEF InstalledHasMeta, InstalledHasData
  <1>5. ("update" \notin Jobs => RemovedIsGone)'
    BY DEF RemovedIsGone
  <1>. QED BY <1>2, <1>3, <1>4, <1>5

(* Nor do they take away a module without leaving it pending. *)
LEMMA DoUninstallInv == ASSUME NEW m \in Modules, IInv, DoUninstall(m) PROVE IInv'
  <1>. USE OrderAssumption, LinkedAreModules DEF IInv, DoUninstall, Screen, memory, task
  <1>0. update' \in BOOLEAN /\ fresh' \in BOOLEAN
    BY Zenon DEF TypeOK
  <1>1. TypeOK'
    BY <1>0 DEF TypeOK
  <1>2. (JobInUse /\ BootIsAlone /\ RestoresKnown /\ AtLoadedModule /\ Passed)'
    BY DEF TypeOK, JobInUse, BootIsAlone, RestoresKnown, AtLoadedModule, Passed, This
  <1>3. (InstalledHasMeta /\ ("restore" \notin Jobs => InstalledHasData))'
    BY DEF InstalledHasMeta, InstalledHasData
  <1>4. ("update" \notin Jobs => RemovedIsGone)'
    BY DEF RemovedIsGone
  <1>. QED BY <1>1, <1>2, <1>3, <1>4

(* Nothing happens. *)
LEMMA StutterInv == IInv /\ UNCHANGED vars => IInv'
  BY DEF vars, IInv, TypeOK, JobInUse, BootIsAlone, AtLoadedModule, Passed, RestoresKnown,
     InstalledHasMeta, InstalledHasData, RemovedIsGone, This

(***************************************************************************)
(* Every step keeps the invariant.                                         *)
(***************************************************************************)
THEOREM Invariance == Spec => []IInv
  <1>1. ASSUME IInv, [Next]_vars PROVE IInv'
    <2>1. CASE StartServer \/ StartCli
      BY <1>1, <2>1, StartServerInv, StartCliInv
    <2>2. CASE Step
      BY <1>1, <2>2, ResolveInv, SkipModuleInv, InstallMetaInv, LoadDataInv, UpdateStateInv,
         EndInstallsInv, KeepModuleInv, UninstallInv, EndUninstallsInv DEF Step
    <2>3. CASE Fault
      BY <1>1, <2>3, FailInv, CommitFailsInv, CrashInv DEF Fault
    <2>4. CASE Shutdown
      BY <1>1, <2>4, ShutdownInv
    <2>5. CASE Web
      BY <1>1, <2>5, RestoreAllInv, DoInstallInv, DoUninstallInv DEF Web
    <2>6. CASE UNCHANGED vars
      BY <1>1, <2>6, StutterInv
    <2>. QED BY <1>1, <2>1, <2>2, <2>3, <2>4, <2>5, <2>6 DEF Next
  <1>. QED BY InitInv, <1>1, PTL DEF Spec

(* Type correctness. *)
THEOREM TypeCorrect == Spec => []TypeOK
  <1>1. IInv => TypeOK
    BY DEF IInv
  <1>. QED BY <1>1, Invariance, PTL

(* The rows never call a module settled that has not been loaded, whatever *)
(* jobs run and wherever they stop (ModuleManager.install, updateState).   *)
THEOREM SettledIsLoaded == Spec => []InstalledHasMeta
  <1>1. IInv => InstalledHasMeta
    BY DEF IInv
  <1>. QED BY <1>1, Invariance, PTL

(* As long as nobody restores the views, its initial data is there too.    *)
THEOREM SettledHasData == "restore" \notin Jobs => (Spec => []InstalledHasData)
  <1>. SUFFICES ASSUME "restore" \notin Jobs PROVE Spec => []InstalledHasData
    OBVIOUS
  <1>1. IInv => InstalledHasData
    BY DEF IInv
  <1>. QED BY <1>1, Invariance, PTL

(* As long as the command line does not update modules by name, a module   *)
(* neither installed nor pending has no views (doUninstall, uninstall).    *)
THEOREM NothingLeftBehind == "update" \notin Jobs => (Spec => []RemovedIsGone)
  <1>. SUFFICES ASSUME "update" \notin Jobs PROVE Spec => []RemovedIsGone
    OBVIOUS
  <1>1. IInv => RemovedIsGone
    BY DEF IInv
  <1>. QED BY <1>1, Invariance, PTL

(* Only InstallMeta stores views. *)
LEMMA OthersLoadNothing == [Next]_vars /\ ~InstallMeta => meta' \subseteq meta
  <1>1. StartServer \/ StartCli => meta' = meta
    BY DEF StartServer, StartCli, StartProcess, rows
  <1>2. Step /\ ~InstallMeta => meta' \subseteq meta
    BY DEF Step, Resolve, SkipModule, LoadData, UpdateState, EndInstalls, KeepModule, Uninstall,
       EndUninstalls, rows
  <1>3. Fault \/ Shutdown => meta' = meta
    BY DEF Fault, Fail, CommitFails, Crash, Shutdown, Stop, rows
  <1>4. Web => meta' = meta
    BY DEF Web, RestoreAll, DoInstall, DoUninstall, rows
  <1>. QED BY <1>1, <1>2, <1>3, <1>4 DEF Next, vars

(* initialize loads every module after the modules it depends on.  What    *)
(* the loop has passed is loaded, and dependencies come first in Order.    *)
THEOREM DependenciesAreFirst == Spec => DependenciesFirst
  <1>1. IInv /\ [Next]_vars =>
          [job = "initialize" =>
             \A m \in meta' \ meta : \A d \in Depends[m] :
               d \notin Removable \/ d \in memInstalled => d \in meta]_vars
    <2>. SUFFICES ASSUME IInv, [Next]_vars, job = "initialize", NEW m \in meta' \ meta,
                         NEW d \in Depends[m], d \notin Removable \/ d \in memInstalled
                  PROVE  d \in meta
      OBVIOUS
    <2>1. InstallMeta
      BY OthersLoadNothing
    <2>2. pos \in 1..N /\ m = Order[pos] /\ m \in Modules
      BY <2>1, OrderAssumption DEF InstallMeta, Installing, This, IInv, TypeOK
    <2>3. PICK j \in 1..N : Order[j] = d
      BY <2>2, DependsAssumption, OrderAssumption
    <2>4. j < pos
      BY <2>2, <2>3, OrderAssumption
    <2>. QED BY <2>1, <2>3, <2>4 DEF IInv, Passed, InstallMeta, Installing
  <1>. QED BY <1>1, Invariance, PTL DEF Spec, DependenciesFirst

(***************************************************************************)
(* What a server serves.                                                   *)
(***************************************************************************)

(* Before the first resolve there is nothing in the tables. *)
FreshIsEmpty ==
  /\ fresh => installed = {} /\ meta = {}
  /\ at # "resolve" => ~fresh

(* What a starting server has told Guice covers whatever its initialize    *)
(* can still mark as installed, until resolve has copied the flags.        *)
BootConfigures ==
  /\ process = "boot" => job = "initialize"
  /\ process = "up" => job \in {"none", "restore"}
  /\ process = "boot" =>
       /\ Modules \ Removable \subseteq configured
       /\ at = "resolve" => installed \cup Forced \subseteq configured
       /\ at \in {"data", "state"} => This \notin Removable \/ This \in memInstalled

ServedInv ==
  FreshIsEmpty /\ BootConfigures /\ ("restore" \notin Jobs => ServedIsConfigured)

(* Buttons need a loaded Core, so they are out of reach of empty tables.   *)
LEMMA FreshIsEmptyInv == IInv /\ FreshIsEmpty /\ [Next]_vars => FreshIsEmpty'
  <1>. SUFFICES ASSUME IInv, FreshIsEmpty, [Next]_vars PROVE FreshIsEmpty'
    OBVIOUS
  <1>. USE DEF FreshIsEmpty
  <1>1. CASE StartServer \/ StartCli
    BY <1>1 DEF StartServer, StartCli, StartProcess, StartJob, rows
  <1>2. CASE Step
    BY <1>2 DEF Step, Resolve, SkipModule, Installing, InstallMeta, LoadData, UpdateState, EndInstalls,
       Uninstalling, KeepModule, Uninstall, EndUninstalls, EndJob, Goto, rows
  <1>3. CASE Fault \/ Shutdown
    BY <1>3 DEF Fault, Fail, CommitFails, Crash, Shutdown, Stop, EndJob, rows
  <1>4. CASE Web
    BY <1>4 DEF Web, RestoreAll, DoInstall, DoUninstall, Screen, StartJob, rows, task
  <1>5. CASE UNCHANGED vars
    BY <1>5 DEF vars
  <1>. QED BY <1>1, <1>2, <1>3, <1>4, <1>5 DEF Next

(* findInstalled, when a server starts, finds what resolve will mark.      *)
LEMMA StartConfigures == IInv /\ FreshIsEmpty /\ StartServer => BootConfigures' /\ ServedIsConfigured'
  BY DEF FreshIsEmpty, BootConfigures, ServedIsConfigured, StartServer, StartProcess, StartJob,
     Configured, Forced, rows

LEMMA BootConfiguresInv ==
  IInv /\ FreshIsEmpty /\ BootConfigures /\ [Next]_vars => BootConfigures'
  <1>. SUFFICES ASSUME IInv, FreshIsEmpty, BootConfigures, [Next]_vars PROVE BootConfigures'
    OBVIOUS
  <1>. USE DEF BootConfigures
  <1>1. CASE StartServer
    BY <1>1, StartConfigures
  <1>2. CASE StartCli
    BY <1>2 DEF StartCli, StartProcess
  <1>3. CASE Resolve
    BY <1>3 DEF Resolve
  <1>4. CASE InstallMeta
    BY <1>4 DEF InstallMeta, Wanted, Goto, memory, This
  <1>5. CASE LoadData
    BY <1>5 DEF LoadData, Goto, memory, This
  <1>6. CASE SkipModule \/ UpdateState \/ KeepModule \/ Uninstall
    BY <1>6 DEF SkipModule, UpdateState, KeepModule, Uninstall, MarkInstalled, MarkUninstalled, Goto,
       memory
  <1>7. CASE EndInstalls \/ EndUninstalls
    BY <1>7 DEF EndInstalls, EndUninstalls, EndJob, Goto, memory
  <1>8. CASE Fault \/ Shutdown
    BY <1>8 DEF Fault, Fail, CommitFails, Crash, Shutdown, Stop, EndJob
  <1>9. CASE Web
    BY <1>9 DEF Web, RestoreAll, DoInstall, DoUninstall, Screen, StartJob, memory, task
  <1>10. CASE UNCHANGED vars
    BY <1>10 DEF vars, Forced, This
  <1>. QED
    BY <1>1, <1>2, <1>3, <1>4, <1>5, <1>6, <1>7, <1>8, <1>9, <1>10 DEF Next, Step

(* Resolver and configuration agree as long as restoreMeta does not mark   *)
(* in a running server what the buttons have asked for.                    *)
LEMMA ServedInvariant ==
  ASSUME "restore" \notin Jobs, IInv, FreshIsEmpty, BootConfigures, ServedIsConfigured, [Next]_vars
  PROVE  ServedIsConfigured'
  <1>. USE DEF ServedIsConfigured
  <1>0. process = "up" => job = "none"
    BY DEF BootConfigures, IInv, JobInUse
  <1>1. CASE StartServer
    BY <1>1, StartConfigures
  <1>2. CASE StartCli
    BY <1>2 DEF StartCli, StartProcess
  <1>3. CASE Resolve
    BY <1>0, <1>3 DEF Resolve, BootConfigures
  <1>4. CASE UpdateState
    <2>1. process = "boot" => This \in configured
      BY <1>4, ThisIsModule DEF UpdateState, BootConfigures, IInv, AtLoadedModule
    <2>. QED BY <1>0, <1>4, <2>1 DEF UpdateState, MarkInstalled, Goto
  <1>5. CASE SkipModule \/ InstallMeta \/ LoadData \/ KeepModule \/ Uninstall
    BY <1>5 DEF SkipModule, InstallMeta, LoadData, KeepModule, Uninstall, MarkUninstalled, Goto, memory
  <1>6. CASE EndInstalls \/ EndUninstalls
    BY <1>6 DEF EndInstalls, EndUninstalls, EndJob, Goto, memory, IInv, TypeOK, JobInUse
  <1>7. CASE Fail \/ Crash \/ Shutdown
    BY <1>7 DEF Fail, Crash, Shutdown, Stop, EndJob, memory, IInv, TypeOK, JobInUse
  <1>8. CASE CommitFails
    <2>. SUFFICES ASSUME process = "boot" PROVE memInstalled' \subseteq configured'
      BY <1>0, <1>8 DEF CommitFails, EndJob, IInv, TypeOK, JobInUse
    <2>1. configured' = configured
      BY <1>8 DEF CommitFails, MarkInstalled, MarkUninstalled
    <2>2. CASE at = "state"
      <3>1. This \in Modules
        BY <2>2, ThisIsModule DEF IInv, AtLoadedModule
      <3>2. This \in configured
        BY <2>2, <3>1 DEF BootConfigures
      <3>. QED BY <1>8, <2>1, <2>2, <3>2 DEF CommitFails, MarkInstalled, Uninstalling
    <2>3. CASE at # "state"
      BY <1>8, <2>1, <2>3 DEF CommitFails, MarkUninstalled, BootConfigures
    <2>. QED BY <2>2, <2>3
  <1>9. CASE Web
    BY <1>9 DEF Web, RestoreAll, DoInstall, DoUninstall, memory
  <1>10. CASE UNCHANGED vars
    BY <1>10 DEF vars
  <1>. QED
    BY <1>1, <1>2, <1>3, <1>4, <1>5, <1>6, <1>7, <1>8, <1>9, <1>10 DEF Next, Step, Fault

(* What a server shows as installed its Guice injector knows (findInstalled *)
(* and resolve), unless restoreMeta is used.                               *)
THEOREM ServedAsConfigured == "restore" \notin Jobs => (Spec => []ServedIsConfigured)
  <1>. SUFFICES ASSUME "restore" \notin Jobs PROVE Spec => []ServedIsConfigured
    OBVIOUS
  <1>1. Init => ServedInv
    BY DEF Init, ServedInv, FreshIsEmpty, BootConfigures, ServedIsConfigured
  <1>2. IInv /\ ServedInv /\ [Next]_vars => ServedInv'
    BY FreshIsEmptyInv, BootConfiguresInv, ServedInvariant DEF ServedInv
  <1>3. ServedInv => ServedIsConfigured
    BY DEF ServedInv
  <1>. QED BY <1>1, <1>2, <1>3, Invariance, PTL DEF Spec

(***************************************************************************)
(* What a start leaves behind.                                             *)
(***************************************************************************)

(* What the first loop of initialize leaves pending is there to be         *)
(* removed, and the second loop leaves nothing.                            *)
Settling ==
  job = "initialize" =>
    /\ at \in {"install", "data", "state"} =>
         \A i \in 1..N : i < pos /\ Order[i] \in pending => Order[i] \in Removable \ installed
    /\ at = "uninstall" =>
         /\ pending \subseteq Removable \ installed
         /\ \A i \in 1..N : i < pos => Order[i] \notin pending

(* A pending module that install passes over is removable and not          *)
(* installed: what is pending otherwise it loads, and marks as done.       *)
LEMMA InstallsSettle ==
  ASSUME IInv, Settling, SkipModule \/ InstallMeta \/ LoadData \/ UpdateState
  PROVE  Settling'
  <1>. SUFFICES ASSUME job = "initialize" PROVE Settling'
    BY DEF Settling, SkipModule, InstallMeta, LoadData, UpdateState, Goto
  <1>. USE DEF Settling
  <1>1. CASE SkipModule
    <2>1. pos \in 1..N /\ This = Order[pos] /\ at' = "install" /\ pos' = pos + 1
      BY <1>1, OrderAssumption DEF SkipModule, Installing, This, IInv, TypeOK, Goto
    <2>2. This \in pending => This \in Removable \ installed
      BY <1>1, <2>1, ThisIsModule DEF SkipModule, Installing, Wanted, IInv, TypeOK, BootIsAlone
    <2>3. at = "install" /\ pending' = pending /\ installed' = installed
      BY <1>1 DEF SkipModule, Installing, rows
    <2>. QED BY <2>1, <2>2, <2>3
  <1>2. CASE InstallMeta \/ LoadData
    BY <1>2 DEF InstallMeta, LoadData, Installing, Goto
  <1>3. CASE UpdateState
    <2>1. pos \in 1..N /\ This = Order[pos] /\ at' = "install" /\ pos' = pos + 1
      BY <1>3 DEF UpdateState, This, IInv, AtLoadedModule, Goto
    <2>2. pending' = pending \ {This} /\ installed' = installed \cup {This} /\ at = "state"
      BY <1>3 DEF UpdateState
    <2>. QED BY <2>1, <2>2
  <1>. QED BY <1>1, <1>2, <1>3

(* uninstall takes the rest. *)
LEMMA UninstallsSettle ==
  ASSUME IInv, Settling, EndInstalls \/ KeepModule \/ Uninstall
  PROVE  Settling'
  <1>. SUFFICES ASSUME job = "initialize" PROVE Settling'
    BY DEF Settling, EndInstalls, KeepModule, Uninstall, EndJob, Goto
  <1>. USE DEF Settling
  <1>1. CASE EndInstalls
    <2>1. at = "install" /\ pos = N + 1 /\ at' = "uninstall" /\ pos' = 1
      BY <1>1 DEF EndInstalls, Goto
    <2>2. \A m \in pending : m \in Removable \ installed
      BY <2>1, OrderAssumption DEF IInv, TypeOK
    <2>3. pending' = pending /\ installed' = installed
      BY <1>1 DEF EndInstalls, rows
    <2>. QED BY <2>1, <2>2, <2>3
  <1>2. CASE KeepModule \/ Uninstall
    <2>1. pos \in 1..N /\ This = Order[pos] /\ at = "uninstall" /\ at' = "uninstall" /\ pos' = pos + 1
      BY <1>2, OrderAssumption DEF KeepModule, Uninstall, Uninstalling, This, IInv, TypeOK, Goto
    <2>2. pending' \subseteq pending /\ installed' \subseteq installed
      BY <1>2 DEF KeepModule, Uninstall, rows
    <2>3. CASE KeepModule
      BY <2>1, <2>2, <2>3 DEF KeepModule, Unwanted, IInv, BootIsAlone
    <2>4. CASE Uninstall
      BY <2>1, <2>2, <2>4 DEF Uninstall
    <2>. QED BY <1>2, <2>3, <2>4
  <1>. QED BY <1>1, <1>2

LEMMA SettlingInv == IInv /\ Settling /\ [Next]_vars => Settling'
  <1>. SUFFICES ASSUME IInv, Settling, [Next]_vars PROVE Settling'
    OBVIOUS
  <1>1. CASE StartServer \/ StartCli
    BY <1>1 DEF StartServer, StartCli, StartJob, Settling
  <1>2. CASE Resolve
    BY <1>2 DEF Resolve, Settling, IInv, JobInUse
  <1>3. CASE EndUninstalls \/ Fault \/ Shutdown
    BY <1>3 DEF EndUninstalls, Fault, Fail, CommitFails, Crash, Shutdown, Stop, EndJob, Settling
  <1>4. CASE Web
    <2>1. job' # "initialize"
      BY <1>4 DEF Web, RestoreAll, DoInstall, DoUninstall, StartJob, Screen, task, IInv, BootIsAlone
    <2>. QED BY <2>1 DEF Settling
  <1>5. CASE UNCHANGED vars
    BY <1>5 DEF vars, Settling
  <1>. QED BY <1>1, <1>2, <1>3, <1>4, <1>5, InstallsSettle, UninstallsSettle DEF Next, Step

(* An initialize that gets to its end has dealt with everything that was   *)
(* pending, whatever the buttons asked for before (install, uninstall).    *)
THEOREM StartsSettle == Spec => BootSettles
  <1>1. Init => Settling
    BY DEF Init, Settling
  <1>2. IInv /\ Settling => [EndUninstalls => pending = {}]_vars
    <2>. SUFFICES ASSUME IInv, Settling, EndUninstalls PROVE pending = {}
      OBVIOUS
    <2>1. job = "initialize" /\ at = "uninstall" /\ pos = N + 1
      BY DEF EndUninstalls, IInv, JobInUse
    <2>. QED BY <2>1, OrderAssumption DEF Settling, IInv, TypeOK
  <1>. QED BY <1>1, <1>2, SettlingInv, Invariance, PTL DEF Spec, BootSettles

(* resolveLink goes on to the dependents of what it collects. *)
LEMMA LinkedIsClosed ==
  ASSUME NEW k \in Modules, NEW m \in Linked(k), NEW n \in Links(m), n \in Modules
  PROVE  n \in Linked(k)
  <1>. SUFFICES ASSUME NEW closed \in SUBSET Modules, k \in closed,
                       \A j \in closed : Links(j) \subseteq closed
                PROVE  n \in closed
    BY DEF Linked
  <1>1. m \in closed
    BY DEF Linked
  <1>. QED BY <1>1

(* uninstall only acts on what the buttons have taken away already. *)
LEMMA OnlyTheButtonRemoves ==
  IInv /\ [Next]_vars /\ installed \ installed' # {} => \E k \in Modules : DoUninstall(k)
  <1>. SUFFICES ASSUME IInv, [Next]_vars, \A k \in Modules : ~DoUninstall(k)
                PROVE  installed \subseteq installed'
    OBVIOUS
  <1>1. StartServer \/ StartCli => installed' = installed
    BY DEF StartServer, StartCli, StartProcess, rows
  <1>2. Step => installed \subseteq installed'
    BY DEF Step, Resolve, SkipModule, InstallMeta, LoadData, UpdateState, EndInstalls, KeepModule,
       Uninstall, Uninstalling, Unwanted, EndUninstalls, rows, IInv, JobInUse, BootIsAlone
  <1>3. Fault \/ Shutdown => installed' = installed
    BY DEF Fault, Fail, CommitFails, Crash, Shutdown, Stop, rows
  <1>4. Web => installed \subseteq installed'
    BY DEF Web, RestoreAll, DoInstall, rows
  <1>. QED BY <1>1, <1>2, <1>3, <1>4 DEF Next, vars

(* No module but the application stays installed when one it names is      *)
(* taken away (doUninstall, resolveLink).                                  *)
THEOREM DependentsGoAlong == Spec => DependentsFollow
  <1>1. IInv /\ [Next]_vars =>
          [\A m \in installed \ installed' : \A n \in installed' \ {Main} : m \notin Depends[n]]_vars
    <2>. SUFFICES ASSUME IInv, [Next]_vars, NEW m \in installed \ installed',
                         NEW n \in installed' \ {Main}, m \in Depends[n]
                  PROVE  FALSE
      OBVIOUS
    <2>1. PICK k \in Modules : DoUninstall(k)
      BY OnlyTheButtonRemoves
    <2>2. m \in Linked(k) /\ n \in installed /\ n \notin Linked(k)
      BY <2>1 DEF DoUninstall
    <2>3. n \in Links(m) /\ n \in Modules
      BY <2>2 DEF Links, IInv, TypeOK
    <2>. QED BY <2>2, <2>3, LinkedIsClosed
  <1>. QED BY <1>1, Invariance, PTL DEF Spec, DependentsFollow

=============================================================================

--------------------------- MODULE ModuleLifecycle ---------------------------
(***************************************************************************)
(* Installing and removing application modules: ModuleManager, which runs  *)
(* when a server process or the command line starts and again for "restore *)
(* all views", and ModuleController, whose buttons only set the flags of   *)
(* MetaModule rows for the next start to act upon.                         *)
(*                                                                         *)
(* Every step that commits a database transaction is an action, so that    *)
(* the process can stop between any two of them; what an importer had done *)
(* before it failed counts as nothing done.  One process uses the database *)
(* at a time, and it runs one job of the ModuleManager at a time.  The set *)
(* of deployed modules and their versions do not change.                   *)
(***************************************************************************)
EXTENDS Naturals

CONSTANTS
  Modules,     \* the deployed modules, the SKIP ones left out
  Depends,     \* per module, the modules its module.properties names
  Resembles,   \* pairs <<m, d>> where the name of m occurs inside that of d
  Removable,   \* the modules marked removable
  Installs,    \* the "installs" of the properties file scanned first, names
               \* of modules that are deployed or not
  Core,        \* axelor-core, whose views hold the buttons used here
  Updates,     \* what the command line may name for an update
  N,           \* number of modules
  Order,       \* Resolver.all(): the modules in dependency order
  Jobs         \* the jobs in use, a subset of AllJobs

AllJobs == {"initialize", "update", "restore"}

ASSUME DependsAssumption == Depends \in [Modules -> SUBSET Modules]
ASSUME ResemblesAssumption == Resembles \subseteq Modules \X Modules
ASSUME RemovableAssumption == Removable \subseteq Modules
ASSUME UpdatesAssumption == Updates \subseteq SUBSET Modules
ASSUME OrderAssumption ==
  /\ N \in Nat \ {0}
  /\ Order \in [1..N -> Modules]
  /\ \A m \in Modules : \E i \in 1..N : Order[i] = m
  /\ \A i, j \in 1..N : Order[j] \in Depends[Order[i]] => j < i
ASSUME JobsAssumption == Jobs \subseteq AllJobs

VARIABLES
  fresh,         \* no MetaModule row exists yet
  installed,     \* the modules whose row says installed
  pending,       \* the modules whose row says pending
  meta,          \* the modules whose models, views and translations are stored
  data,          \* the modules whose initial data was imported
  process,       \* "down", "cli", "boot" (a server starting) or "up"
  configured,    \* the modules this process configured Guice with
  memInstalled,  \* the installed flags of the static resolver
  memPending,    \* and its pending flags
  job,           \* the job running, or "none"
  update,        \* its update argument
  names,         \* the modules an update is about; {} is all installed ones
  at,            \* where the job is
  pos            \* its position in Order

rows == <<fresh, installed, pending, meta, data>>
memory == <<configured, memInstalled, memPending>>
task == <<job, update, names, at, pos>>
vars == <<fresh, installed, pending, meta, data, process, configured,
          memInstalled, memPending, job, update, names, at, pos>>

TypeOK ==
  /\ fresh \in BOOLEAN /\ update \in BOOLEAN
  /\ installed \subseteq Modules /\ pending \subseteq Modules
  /\ meta \subseteq Modules /\ data \subseteq Modules
  /\ configured \subseteq Modules /\ names \subseteq Modules
  /\ memInstalled \subseteq Modules /\ memPending \subseteq Modules
  /\ process \in {"down", "cli", "boot", "up"}
  /\ job \in AllJobs \cup {"none"}
  /\ at \in {"resolve", "install", "data", "state", "uninstall"}
  /\ pos \in 1..(N + 1)

Init ==
  /\ fresh = TRUE /\ update = FALSE
  /\ installed = {} /\ pending = {} /\ meta = {} /\ data = {}
  /\ process = "down"
  /\ configured = {} /\ memInstalled = {} /\ memPending = {}
  /\ job = "none" /\ names = {} /\ at = "resolve" /\ pos = 1

(***************************************************************************)
(* A process starts.                                                       *)
(***************************************************************************)

(* Mutant of Configured: a module waiting to be installed is left out. *)
ConfiguredNotPending ==
  (installed \ pending) \cup (Modules \ Removable)
    \cup (IF installed = {} THEN Installs \cap Modules ELSE {})

(* findInstalled: what AppModule configures Guice with. *)
Configured ==
  installed \cup (Modules \ Removable)
    \cup (IF installed = {} THEN Installs \cap Modules ELSE {})

StartJob(j, u, ms) ==
  /\ job' = j /\ update' = u /\ names' = ms
  /\ at' = "resolve" /\ pos' = 1

(* A process configures itself and starts with an empty resolver. *)
StartProcess(kind) ==
  /\ process = "down"
  /\ process' = kind
  /\ configured' = Configured
  /\ memInstalled' = {} /\ memPending' = {}
  /\ UNCHANGED rows

StartServer ==
  /\ StartProcess("boot")
  /\ StartJob("initialize", FALSE, {})

(* The command line: init, with or without update, or update of the named  *)
(* modules, of all installed ones when none is named.                      *)
StartCli ==
  /\ StartProcess("cli")
  /\ \/ \E u \in BOOLEAN : StartJob("initialize", u, {})
     \/ "update" \in Jobs /\ \E ms \in Updates : StartJob("update", TRUE, ms)

(* Someone is looking at the screens of a running server. *)
Screen == process = "up" /\ Core \in meta

(* MetaController.restoreAll, a button of the views grid: an update of all *)
(* installed modules in the running server, with loadData switched off.    *)
RestoreAll ==
  /\ "restore" \in Jobs
  /\ Screen /\ job = "none"
  /\ StartJob("restore", TRUE, {})
  /\ UNCHANGED <<rows, memory, process>>

(* Mutants of Forced: names of modules that are not deployed are kept.     *)
ForcedBlindly == IF fresh THEN Installs ELSE {}

(* The default modules, marked while there are no rows. *)
Forced == IF fresh THEN Installs \cap Modules ELSE {}

(* Mutant of Resolve: the default modules are not marked pending. *)
ResolveNotPending ==
  /\ job # "none" /\ at = "resolve"
  /\ fresh' = FALSE
  /\ installed' = installed \cup Forced
  /\ memInstalled' = installed' /\ memPending' = pending
  /\ names' = IF job # "initialize" /\ names = {} THEN installed' ELSE names
  /\ at' = "install"
  /\ UNCHANGED <<meta, data, pending, process, configured, job, update, pos>>

(* resolve(true): rows for the modules found, the default modules marked,  *)
(* and all flags copied into the resolver.                                 *)
Resolve ==
  /\ job # "none" /\ at = "resolve"
  /\ fresh' = FALSE
  /\ installed' = installed \cup Forced
  /\ pending' = pending \cup Forced
  /\ memInstalled' = installed' /\ memPending' = pending'
  /\ names' = IF job # "initialize" /\ names = {} THEN installed' ELSE names
  /\ at' = "install"
  /\ UNCHANGED <<meta, data, process, configured, job, update, pos>>

(***************************************************************************)
(* The modules in dependency order.                                        *)
(***************************************************************************)
This == Order[pos]

(* What the loops of initialize, install and update let through.  The      *)
(* clause about upgradable modules never helps: resolve has just set the   *)
(* installed version to the deployed one.                                  *)
Wanted(m) ==
  IF job # "initialize" THEN m \in names
  ELSE /\ m \notin Removable \/ (m \in memInstalled /\ m \in memPending)
       /\ m \in memInstalled => update \/ m \in memPending

Goto(place, p) ==
  /\ at' = place /\ pos' = p
  /\ UNCHANGED <<job, update, names, process>>

Installing == job # "none" /\ at = "install" /\ pos <= N

SkipModule ==
  /\ Installing /\ ~Wanted(This)
  /\ Goto("install", pos + 1)
  /\ UNCHANGED <<rows, memory>>

InstallMeta ==
  /\ Installing /\ Wanted(This)
  /\ meta' = meta \cup {This}
  /\ Goto("data", pos)
  /\ UNCHANGED <<fresh, installed, pending, data, memory>>

(* Mutant of LoadData: data is imported for updates only. *)
LoadDataOfUpdates ==
  /\ job # "none" /\ at = "data"
  /\ data' = IF job = "restore" \/ ~update THEN data ELSE data \cup {This}
  /\ Goto("state", pos)
  /\ UNCHANGED <<fresh, installed, pending, meta, memory>>

LoadData ==
  /\ job # "none" /\ at = "data"
  /\ data' = IF job = "restore" THEN data ELSE data \cup {This}
  /\ Goto("state", pos)
  /\ UNCHANGED <<fresh, installed, pending, meta, memory>>

(* The resolver is changed before the transaction commits. *)
MarkInstalled ==
  /\ memInstalled' = memInstalled \cup {This}
  /\ memPending' = memPending \ {This}
  /\ UNCHANGED configured

(* Mutant of UpdateState: the row is not marked. *)
UpdateStateKeepsPending ==
  /\ job # "none" /\ at = "state"
  /\ MarkInstalled
  /\ installed' = installed \cup {This}
  /\ Goto("install", pos + 1)
  /\ UNCHANGED <<fresh, pending, meta, data>>

UpdateState ==
  /\ job # "none" /\ at = "state"
  /\ MarkInstalled
  /\ installed' = installed \cup {This}
  /\ pending' = pending \ {This}
  /\ Goto("install", pos + 1)
  /\ UNCHANGED <<fresh, meta, data>>

(* A job ends, well or with an exception: InitServlet logs the exception   *)
(* and the server goes on, the command line stops.                         *)
EndJob ==
  /\ job' = "none" /\ names' = {} /\ update' = FALSE /\ at' = "resolve" /\ pos' = 1
  /\ process' = IF process = "cli" THEN "down" ELSE "up"

EndInstalls ==
  /\ job # "none" /\ at = "install" /\ pos = N + 1
  /\ IF job = "initialize" THEN Goto("uninstall", 1) ELSE EndJob
  /\ UNCHANGED <<rows, memory>>

Uninstalling == job # "none" /\ at = "uninstall" /\ pos <= N

(* Mutant of Unwanted: the pending flag is not asked for, or not looked at *)
(* the way doUninstall sets it.                                            *)
UnwantedSettled(m) == m \in Removable /\ m \notin memInstalled /\ m \notin memPending

Unwanted(m) == m \in Removable /\ m \notin memInstalled /\ m \in memPending

KeepModule ==
  /\ Uninstalling /\ ~Unwanted(This)
  /\ Goto("uninstall", pos + 1)
  /\ UNCHANGED <<rows, memory>>

(* Data and model rows stay, the view rows of the module go. *)
MarkUninstalled ==
  /\ memInstalled' = memInstalled \ {This}
  /\ memPending' = memPending \ {This}
  /\ UNCHANGED configured

Uninstall ==
  /\ Uninstalling /\ Unwanted(This)
  /\ MarkUninstalled
  /\ installed' = installed \ {This}
  /\ pending' = pending \ {This}
  /\ meta' = meta \ {This}
  /\ Goto("uninstall", pos + 1)
  /\ UNCHANGED <<fresh, data>>

EndUninstalls ==
  /\ job # "none" /\ at = "uninstall" /\ pos = N + 1
  /\ EndJob
  /\ UNCHANGED <<rows, memory>>

Step == \/ Resolve \/ SkipModule \/ InstallMeta \/ LoadData \/ UpdateState \/ EndInstalls
        \/ KeepModule \/ Uninstall \/ EndUninstalls

(***************************************************************************)
(* What can go wrong.                                                      *)
(***************************************************************************)

(* Mutant of Fail: the loop logs the exception and takes the next module. *)
FailGoesOn ==
  /\ Installing \/ at = "data"
  /\ Goto("install", pos + 1)
  /\ UNCHANGED <<rows, memory>>

(* Nothing is left to do but to return. *)
Returning == pos = N + 1 /\ (at = "uninstall" \/ (at = "install" /\ job # "initialize"))

(* An exception: views that do not parse, data that cannot be imported,    *)
(* items left unresolved by doLast.                                        *)
Fail ==
  /\ job # "none" /\ ~Returning
  /\ EndJob
  /\ UNCHANGED <<rows, memory>>

(* The commit at the end of resolve, updateState or uninstall fails, after *)
(* the resolver has been changed.                                          *)
CommitFails ==
  /\ job # "none"
  /\ \/ /\ at = "resolve"
        /\ memInstalled' = installed \cup Forced /\ memPending' = pending \cup Forced
        /\ UNCHANGED configured
     \/ at = "state" /\ MarkInstalled
     \/ Uninstalling /\ Unwanted(This) /\ MarkUninstalled
  /\ EndJob
  /\ UNCHANGED rows

Stop ==
  /\ process' = "down"
  /\ job' = "none" /\ names' = {} /\ update' = FALSE /\ at' = "resolve" /\ pos' = 1
  /\ UNCHANGED <<rows, memory>>

Crash == job # "none" /\ ~Returning /\ Stop

Shutdown == process = "up" /\ job = "none" /\ Stop

Fault == Fail \/ CommitFails \/ Crash

(***************************************************************************)
(* ModuleController, in a running server.  The buttons are shown according *)
(* to flags the browser has read some time ago, for removable modules.     *)
(***************************************************************************)

(* The module and those it names itself: their own dependencies are not    *)
(* looked at.                                                              *)
DoInstall(m) ==
  LET all == {m} \cup (Depends[m] \ installed)
  IN /\ Screen /\ m \in Removable
     /\ installed' = installed \cup all
     /\ pending' = pending \cup all
     /\ UNCHANGED <<fresh, meta, data, process, memory, task>>

Main == Order[N]

(* depends LIKE '%name%', without the main module. *)
Links(m) ==
  {n \in installed \ {Main} : \E d \in Depends[n] : d = m \/ <<m, d>> \in Resembles}

(* Mutant of Linked: the dependents of dependents are not followed. *)
LinkedDirectly(m) == {m} \cup Links(m)

(* What resolveLink collects from m: the smallest set closed under Links. *)
Linked(m) ==
  {n \in Modules : \A closed \in SUBSET Modules :
      m \in closed /\ (\A k \in closed : Links(k) \subseteq closed) => n \in closed}

(* resolveLink throws at a dependent that is pending or not removable, and *)
(* a cycle overflows its stack.                                            *)
CanUninstall(m) ==
  \A n \in Linked(m) : \A k \in Links(n) :
    k \notin pending /\ k \in Removable /\ n \notin Linked(k)

(* Mutant of DoUninstall: the modules are not marked pending. *)
DoUninstallNotPending(m) ==
  /\ Screen /\ m \in Removable
  /\ CanUninstall(m)
  /\ installed' = installed \ Linked(m)
  /\ UNCHANGED <<fresh, pending, meta, data, process, memory, task>>

DoUninstall(m) ==
  /\ Screen /\ m \in Removable
  /\ CanUninstall(m)
  /\ installed' = installed \ Linked(m)
  /\ pending' = pending \cup Linked(m)
  /\ UNCHANGED <<fresh, meta, data, process, memory, task>>

Web == RestoreAll \/ \E m \in Modules : DoInstall(m) \/ DoUninstall(m)

Next == StartServer \/ StartCli \/ Step \/ Fault \/ Shutdown \/ Web

Spec == Init /\ [][Next]_vars

(* A job runs on; servers are restarted, and started again when they have  *)
(* stopped, even if the command line is used in between.                   *)
Fairness == WF_vars(Step) /\ SF_vars(Shutdown) /\ SF_vars(StartServer)

FairSpec == Spec /\ Fairness

(***************************************************************************)
(* Properties.                                                             *)
(***************************************************************************)

(* A module whose row says installed, and nothing left to do, has its      *)
(* models, views and translations in the database: whatever step a job     *)
(* failed or stopped at, and whatever the buttons did meanwhile.           *)
InstalledHasMeta == installed \ pending \subseteq meta

(* ... and has its initial data ("finally update install state").          *)
InstalledHasData == installed \ pending \subseteq data

(* A removable module that is not installed, and not about to change, has  *)
(* left no views behind: neither a half-done installation nor a half-done  *)
(* removal is forgotten.                                                   *)
RemovedIsGone == meta \cap Removable \subseteq installed \cup pending

(* What isInstalled reports in a server, where views and fields are shown  *)
(* by it, is bound in its Guice injector: findInstalled and resolve agree  *)
(* on the modules, also when the first start did not get far.              *)
ServedIsConfigured == process \in {"boot", "up"} => memInstalled \subseteq configured

(* initialize loads a module after the modules it depends on.              *)
DependenciesFirst ==
  [][job = "initialize" =>
       \A m \in meta' \ meta : \A d \in Depends[m] :
         d \notin Removable \/ d \in memInstalled => d \in meta]_vars

(* Taking a module away takes along the installed modules that depend on   *)
(* it, other than the application itself (errorDepends).                   *)
DependentsFollow ==
  [][\A m \in installed \ installed' : \A n \in installed' \ {Main} : m \notin Depends[n]]_vars

(* When initialize ends well nothing is left for yet another restart.      *)
BootSettles == [][EndUninstalls => pending = {}]_vars

(* "Restart the server for updates to take effect": once jobs no longer    *)
(* fail, what is pending is dealt with.                                    *)
TakesEffect ==
  (<>[][~Fault]_vars) => \A m \in Modules : m \in pending ~> m \notin pending
=============================================================================

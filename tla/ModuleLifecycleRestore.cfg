CONSTANTS
  core = core
  base = base
  sale = sale
  crm = crm
  app = app
  ghost = ghost
  Core = core
  Modules <- MCModules
  Removable <- MCRemovable
  Order <- MCOrder
  Depends <- MCDepends
  Resembles <- MCNoResemblance
  Updates <- MCUpdates
  N = 4
  Installs <- MCInstalls
  Jobs = {"initialize", "restore"}
SPECIFICATION FairSpec
INVARIANTS InstalledHasMeta RemovedIsGone
PROPERTIES TakesEffect

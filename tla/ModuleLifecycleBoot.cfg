CONSTANTS
  core = core
  base = base
  sale = sale
  crm = crm
  app = app
  ghost = ghost
  Core = core
  Modules <- ChainModules
  Removable <- ChainRemovable
  Order <- ChainOrder
  Depends <- ChainDepends
  Resembles <- MCNoResemblance
  Updates <- ChainUpdates
  N = 5
  Installs <- MCInstalls
  Jobs = {"initialize", "update"}
SPECIFICATION Spec
INVARIANTS TypeOK InstalledHasData ServedIsConfigured
PROPERTIES DependenciesFirst BootSettles DependentsFollow

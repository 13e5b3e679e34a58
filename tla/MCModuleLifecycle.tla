------------------------- MODULE MCModuleLifecycle -------------------------
(* Small instances of ModuleLifecycle. *)
EXTENDS ModuleLifecycle

CONSTANTS core, base, sale, crm, app, ghost

(* Everything stands on core; sale needs base, crm needs sale; the         *)
(* application installs base by default, and a module not deployed.        *)
MCModules == {core, base, sale, app}
MCRemovable == {base, sale}
MCOrder == <<core, base, sale, app>>
MCDepends ==
  [m \in MCModules |-> CASE m = sale -> {base}
                         [] m = core -> {}
                         [] OTHER -> {core}]
MCInstalls == {base, ghost}
\* names that contain each other make doUninstall refuse more, and are left out
MCNoResemblance == {}
MCUpdates == SUBSET MCModules

(* A chain of three removable modules. *)
ChainModules == {core, base, sale, crm, app}
ChainRemovable == {base, sale, crm}
ChainOrder == <<core, base, sale, crm, app>>
ChainDepends ==
  [m \in ChainModules |-> CASE m = crm -> {sale}
                            [] m = sale -> {base}
                            [] m = core -> {}
                            [] OTHER -> {core}]
ChainUpdates == {{}, {sale}, {base, crm}}
=============================================================================

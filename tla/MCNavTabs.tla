------------------------------ MODULE MCNavTabs ------------------------------
(* Forms of two actions and the home tab, which shows one of the actions:  *)
(* openHomeTab and a route or menu that names it race for the same tab.    *)
EXTENDS NavTabs, TLC

CONSTANTS v1, v2, home, sales, start

Opened == v1 :> sales @@ v2 :> start @@ home :> start
=============================================================================

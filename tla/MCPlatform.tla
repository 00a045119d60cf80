------------------------------ MODULE MCPlatform ------------------------------
(***************************************************************************)
(* Parts of the showcase that share no state with each other: the pages of *)
(* the console, the list and the search of leads, sign-in, the bridge to   *)
(* the preview host, the database bootstrap, the preview server and the    *)
(* client of connectors.  One run checks them side by side: in a behaviour *)
(* only one moves.                                                         *)
(***************************************************************************)
EXTENDS Console, LeadSearch, SignIn, PreviewBridge, Bootstrap, PreviewServer, Connector

VARIABLE part

viewVars == <<consoleVars, leadVars>>
visitVars == <<signVars, bridgeVars>>
hostVars == <<bootVars, previewVars, connectorVars>>
vars == <<part, viewVars, visitVars, hostVars>>

MCPersonOf == [k \in Tokens |-> IF k = "b1" THEN "b" ELSE "a"]

Parts == {"console", "list", "search", "sign in", "demo", "preview bridge",
          "bootstrap", "preview server", "connector"}

\* Where the parts that stand still are does not matter.
Init ==
  /\ part \in Parts
  /\ ConsoleInit /\ ListInit /\ SearchInit /\ SignInit /\ BridgeInit
  /\ BootInit /\ PreviewInit /\ ConnectorInit
  /\ part # "console" => page = CHOOSE p \in StartPages : TRUE
  /\ part # "preview bridge" => Current.path = CHOOSE p \in Paths : TRUE
  /\ part # "bootstrap" => dbSource = "pglite"

InPages ==
  /\ \/ part = "console" /\ ConsoleNext /\ UNCHANGED leadVars
     \/ part = "list" /\ ListNext /\ UNCHANGED <<consoleVars, searchVars>>
     \/ part = "search" /\ SearchNext /\ UNCHANGED <<consoleVars, listVars>>
  /\ UNCHANGED <<visitVars, hostVars>>
Visits ==
  /\ \/ part = "sign in" /\ PageNext /\ UNCHANGED bridgeVars
     \/ part = "demo" /\ DemoNext /\ UNCHANGED bridgeVars
     \/ part = "preview bridge" /\ BridgeNext /\ UNCHANGED signVars
  /\ UNCHANGED <<viewVars, hostVars>>
Hosts ==
  /\ \/ part = "bootstrap" /\ BootNext /\ UNCHANGED <<previewVars, connectorVars>>
     \/ part = "preview server" /\ PreviewNext /\ UNCHANGED <<bootVars, connectorVars>>
     \/ part = "connector" /\ ConnectorNext /\ UNCHANGED <<bootVars, previewVars>>
  /\ UNCHANGED <<viewVars, visitVars>>

Next == UNCHANGED part /\ (InPages \/ Visits \/ Hosts)

Spec == Init /\ [][Next]_vars
===============================================================================

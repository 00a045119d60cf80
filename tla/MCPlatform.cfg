CONSTANTS
  StartPages = {"routing", "deliveries", "A"}
  Pages = {"routing", "integrations", "deliveries", "settings", "intake-simulator", "A", "B"}
  Leads = {"A", "B"}
  None = "none"
  MaxEvents = 3
  Sources = {"x", "y"}
  PageSize = 1
  MaxLeads = 2
  MaxPatches = 2
  Words = {"a", "b"}
  MaxKeys = 3
  Attempts = {1, 2, 3}
  Visitors = {"x", "y"}
  MaxSignFaults = 1
  Paths = {"p", "q"}
  MaxEntries = 3
  MaxMoves = 4
  MaxMail = 1
  Instances = {1, 2}
  Callers = {c1, c2}
  AuthOps = {a1, a2}
  Files = {1, 2, 3}
  Late = {3}
  MaxDbFaults = 2
  Runs = {1, 2}
  MaxPids = 2
  MaxBuilds = 2
  MaxToolFaults = 1
  Calls = {1, 2}
  Tools = {"t"}
  Tokens = {"a1", "a2", "b1"}
  PersonOf <- MCPersonOf
  Ttl = 1
  MaxNow = 2
SPECIFICATION Spec
INVARIANTS
     LeadsShown
  PopupHonoured DemoEntered HostFollows SchemaSound CallsSucceed MemoHonest
 
CHECK_DEADLOCK FALSE

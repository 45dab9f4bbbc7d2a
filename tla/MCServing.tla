------------------------------ MODULE MCServing ------------------------------
(* Three specifications that share no variable, side by side: a multi-node    *)
(* fleet, the router with its cache, and the data source with the driver that *)
(* saves and resumes it.  An initial state starts one of them; the others     *)
(* rest, in a state that they do not reach by themselves.                     *)
EXTENDS MCEngineFleet, MCRouterCache, RolloutDataSource

\* Three rows in an order of their own in every epoch.  None or one is on the
\* blacklist, or all; a draw of seven is longer than two epochs.
MCPerm == [e \in Epoch |-> IF e % 3 = 0 THEN <<2, 3, 1>>
                           ELSE IF e % 3 = 1 THEN <<3, 2, 1>> ELSE <<1, 3, 2>>]

Walking ==
  {c \in [shuffle : {TRUE}, adaptive : {FALSE}, partial : BOOLEAN, async : BOOLEAN,
          blacklist : {{}, {2}}, over : {2}] : c.blacklist = {} <=> c.partial = c.async}
Others ==
  {[shuffle |-> TRUE, adaptive |-> FALSE, partial |-> FALSE, async |-> FALSE,
    blacklist |-> {1, 2, 3}, over |-> 2],
   [shuffle |-> TRUE, adaptive |-> FALSE, partial |-> FALSE, async |-> FALSE,
    blacklist |-> {2, 3}, over |-> 1],
   [shuffle |-> FALSE, adaptive |-> FALSE, partial |-> FALSE, async |-> TRUE,
    blacklist |-> {}, over |-> 7],
   [shuffle |-> FALSE, adaptive |-> TRUE, partial |-> FALSE, async |-> FALSE,
    blacklist |-> {2}, over |-> 1]}
MCConfigurations == Walking \cup Others

RouterRests ==
  /\ trie = << >> /\ request = [c \in Clients |-> RouterIdle]
  /\ counts = << >> /\ failures = << >> /\ quarantined = {} /\ health = {}
  /\ up = {} /\ lost = << >> /\ cut = FALSE /\ crashes = MaxCrashes + 1
RouterOff == crashes > MaxCrashes

DataRests ==
  /\ args = CHOOSE a \in Configurations : TRUE
  /\ pc = "done" /\ rid = -1
  /\ source = FreshSource /\ buffer = {} /\ held = {}
  /\ disk = << >> /\ paired = [i \in Iter |-> FALSE] /\ iters = {} /\ saving = -1
  /\ line = Line0 /\ ckpt = [i \in Iter |-> Line0]
  /\ dropped = 0 /\ jobCrashes = 0 /\ managerRestarts = 0
DataOff == rid = -1
DataOver == pc = "done" /\ UNCHANGED dataVars

ServingInit == \/ Init /\ RouterRests /\ DataRests
               \/ Init /\ RouterInit /\ DataRests
               \/ Init /\ RouterRests /\ DataInit
ServingNext ==
  \/ RouterOff /\ DataOff /\ Next /\ UNCHANGED <<routerVars, dataVars>>
  \/ ~RouterOff /\ RouterNext /\ UNCHANGED <<vars, dataVars>>
  \/ ~DataOff /\ (DataNext \/ DataOver) /\ UNCHANGED <<vars, routerVars>>
servingVars == <<vars, routerVars, dataVars>>
ServingSpec == ServingInit /\ [][ServingNext]_servingVars /\ WF_dataVars(DataSteps)
=============================================================================

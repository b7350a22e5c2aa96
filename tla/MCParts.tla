-------------------------------- MODULE MCParts --------------------------------
(***************************************************************************)
(* Components that share no state, side by side: a behaviour is one of     *)
(* `part` while the others stay as they are.                               *)
(*   "proxy"  three requests whose clients may leave (ProxyCapture)        *)
(*   "pool"   two workers and four items             (WorkerPool)          *)
(*   "device" a login with three polls               (DeviceFlow)          *)
(*   "files"  two processes, four token pairs of two platforms (Credentials) *)
(*   "wait"   a window of four ticks                 (DeploymentWait)      *)
(*   "fixes"  three fixes on three characters        (FixLine)             *)
(*   "pages"  five items, two on a page              (Pagination)          *)
(***************************************************************************)
EXTENDS MCProxyCapture,
        WorkerPool, DeviceFlow, Credentials, DeploymentWait, FixLine, Pagination

VARIABLE part

taskVars == <<poolVars, deviceVars, credVars, waitVars>>
dataVars == <<lineVars, walkVars>>
partVars == <<part, vars, taskVars, dataVars>>

PartsInit ==
  /\ part \in {"proxy", "pool", "device", "files", "wait", "fixes", "pages"}
  /\ Init /\ PoolInit /\ DeviceInit /\ CredInit
  /\ mainBranch \in (IF part = "wait" THEN BOOLEAN ELSE {TRUE}) /\ WaitInit
  /\ part # "fixes" => fixes = <<>>
  /\ FixLineInit
  /\ part # "pages" => style = "page" /\ total = 0 /\ clamps = FALSE
  /\ PagesInit

InProxy == part = "proxy" /\ UNCHANGED <<part, taskVars, dataVars>>
ProxyForwards(r) == Forward(r) /\ InProxy
ProxyTasks(r) == Task(r) /\ InProxy
ProxyShutdown == Shutdown /\ InProxy
ProxySteps == Next /\ InProxy

PoolSteps ==
  part = "pool" /\ PoolNext /\ UNCHANGED <<part, vars, deviceVars, credVars, waitVars, dataVars>>
DeviceSteps ==
  part = "device" /\ DeviceNext /\ UNCHANGED <<part, vars, poolVars, credVars, waitVars, dataVars>>
FileSteps ==
  part = "files" /\ CredNext /\ UNCHANGED <<part, vars, poolVars, deviceVars, waitVars, dataVars>>
WaitSteps ==
  part = "wait" /\ WaitNext /\ UNCHANGED <<part, vars, poolVars, deviceVars, credVars, dataVars>>
LineSteps == part = "fixes" /\ FixLineNext /\ UNCHANGED <<part, vars, taskVars, walkVars>>
PageSteps == part = "pages" /\ PagesNext /\ UNCHANGED <<part, vars, taskVars, lineVars>>

PartsNext ==
  \/ ProxySteps \/ PoolSteps \/ DeviceSteps \/ FileSteps \/ WaitSteps \/ LineSteps \/ PageSteps

PartsFairness ==
  /\ \A r \in Requests : WF_partVars(ProxyForwards(r)) /\ WF_partVars(ProxyTasks(r))
  /\ WF_partVars(ProxyShutdown)
  /\ WF_partVars(PoolSteps) /\ WF_partVars(DeviceSteps /\ LoginTimely)
  /\ WF_partVars(WaitSteps /\ WaitTimely) /\ WF_partVars(PageSteps /\ PagesTimely)

PartsSpec == PartsInit /\ [][PartsNext]_partVars /\ PartsFairness

------------------------------------------------------------------------------
(* Liveness of the parts, of the behaviours that are theirs. *)

==============================================================================

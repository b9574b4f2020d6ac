------------------------------ MODULE Composition ------------------------------
(***************************************************************************)
(* The start of the page: a mounted route asks the composition guard for   *)
(* the one runtime, the composition root builds it and registers its tools *)
(* group by group with document.modelContext, and the route shows the      *)
(* runtime.  A bridge that the browser or an extension supplies answers in *)
(* its own time and may refuse; the page's own bridge answers at once, so  *)
(* nothing else of the page runs between two registrations with it.        *)
(***************************************************************************)
EXTENDS Integers, Sequences, SequencesExt

CONSTANTS
  Mounts,         \* instances of the route component
  ToolGroups,     \* the tools of each registration function, in order
  Supplied,       \* bridges that may arrive from outside, in this order
  MaxFailures,    \* bound: refused writes, registrations and reads
  MaxAttempts     \* bound: compositions (the code needs MaxFailures + 1)

Tools == UNION {ToSet(ToolGroups[g]) : g \in DOMAIN ToolGroups}
NoBridge == "none"
PageBridge == "page"
Bridges == {PageBridge} \union ToSet(Supplied)

ASSUME CompositionAssumption ==
  /\ MaxFailures \in Nat /\ MaxAttempts \in Nat \ {0}
  /\ {NoBridge, PageBridge} \cap ToSet(Supplied) = {}
  /\ Supplied \in Seq(ToSet(Supplied)) /\ ToolGroups \in Seq(Seq(Tools))
  /\ ToolGroups # <<>> /\ \A g \in DOMAIN ToolGroups : ToolGroups[g] # <<>>

VARIABLES
  bridge,      \* document.modelContext
  bound,       \* per bridge and tool: the composition its execute closes over, 0 for none
  attempts,    \* the compositions so far, each with the tool it registers next
  promise,     \* the guard's cached promise: a composition, or 0
  mounts,      \* per route instance: bridgeState, the composition awaited, the runtime shown
  failures

compositionVars == <<bridge, bound, attempts, promise, mounts, failures>>

Absent == [state |-> "absent", awaits |-> 0, runtime |-> 0]

\* ensureModelContext: the bridge there is, else the page's own.
Ensured == IF bridge = NoBridge THEN PageBridge ELSE bridge

\* The bridge of a composition's next registration: each group asks for it once.
NextBridge(a) == IF attempts[a].tool = 1 THEN Ensured ELSE attempts[a].held

Running(a) == attempts[a].status = "running"
Settled(m) == mounts[m].state = "connecting" /\ ~Running(mounts[m].awaits)

\* Promise continuations run before the next event: nothing from outside
\* happens between two steps that wait for the page itself only.
BetweenTasks ==
  /\ \A a \in DOMAIN attempts : Running(a) => NextBridge(a) # PageBridge
  /\ \A m \in Mounts : Settled(m) => /\ attempts[mounts[m].awaits].status = "resolved"
                                     /\ Ensured # PageBridge

-----------------------------------------------------------------------------
(* The guard and the composition root *)

NewAttempt(status) == [group |-> 1, tool |-> 1, held |-> NoBridge, status |-> status]

\* Variant of the guard: the promise is kept once it resolves, not before.
Ensure_CachesResult(m) ==
  IF \E a \in DOMAIN attempts : attempts[a].status = "resolved"
  THEN /\ mounts' = [mounts EXCEPT ![m] = [state |-> "connecting", runtime |-> 0,
                        awaits |-> CHOOSE a \in DOMAIN attempts : attempts[a].status = "resolved"]]
       /\ UNCHANGED <<attempts, promise, failures>>
  ELSE /\ Len(attempts) < MaxAttempts
       /\ attempts' = Append(attempts, NewAttempt("running"))
       /\ mounts' = [mounts EXCEPT ![m] = [state |-> "connecting", runtime |-> 0,
                                           awaits |-> Len(attempts) + 1]]
       /\ UNCHANGED <<promise, failures>>

\* ensure(): the cached promise, else a new composition.  Building the
\* runtime writes the first workspace and may throw; the promise is then
\* cleared before anyone can ask again.
Ensure(m) ==
  LET connecting(a) == [mounts EXCEPT ![m] = [state |-> "connecting", awaits |-> a, runtime |-> 0]]
  IN  \/ /\ promise # 0
         /\ mounts' = connecting(promise)
         /\ UNCHANGED <<attempts, promise, failures>>
      \/ /\ promise = 0 /\ Len(attempts) < MaxAttempts
         /\ mounts' = connecting(Len(attempts) + 1)
         /\ \/ /\ attempts' = Append(attempts, NewAttempt("running"))
               /\ promise' = Len(attempts) + 1 /\ UNCHANGED failures
            \/ /\ failures < MaxFailures
               /\ attempts' = Append(attempts, NewAttempt("rejected"))
               /\ failures' = failures + 1 /\ UNCHANGED promise

\* onMount and connectComposition.
Mount(m) ==
  /\ BetweenTasks /\ mounts[m].state = "absent"
  /\ Ensure(m) /\ UNCHANGED <<bridge, bound>>

\* The Retry button, shown while there is no runtime and the state is failed.
Retry(m) ==
  /\ BetweenTasks /\ mounts[m].state = "failed"
  /\ Ensure(m) /\ UNCHANGED <<bridge, bound>>

\* Leaving the route destroys the component; the guard is the module's.
Unmount(m) ==
  /\ BetweenTasks /\ mounts[m].state # "absent"
  /\ mounts' = [mounts EXCEPT ![m] = Absent]
  /\ UNCHANGED <<bridge, bound, attempts, promise, failures>>

\* After a registration: the next tool, the next group, or the runtime.
Advance(a) ==
  LET at == attempts[a]
  IN  IF at.tool < Len(ToolGroups[at.group])
      THEN [at EXCEPT !.tool = @ + 1, !.held = NextBridge(a)]
      ELSE [at EXCEPT !.group = @ + 1, !.tool = 1, !.held = NoBridge,
                      !.status = IF at.group = Len(ToolGroups) THEN "resolved" ELSE @]

\* registerTool: a bridge keeps one tool of a name, the last one.
RegisterTool(a) ==
  LET b == NextBridge(a)
  IN  /\ Running(a)
      /\ bridge' = Ensured
      /\ bound' = [bound EXCEPT ![b][ToolGroups[attempts[a].group][attempts[a].tool]] = a]
      /\ attempts' = [attempts EXCEPT ![a] = Advance(a)]
      /\ UNCHANGED <<promise, mounts, failures>>

\* A supplied bridge refuses a tool: the composition rejects, and the guard
\* forgets it (variant: keeps it).
RefuseTool_Cached(a) ==
  /\ Running(a) /\ NextBridge(a) # PageBridge
  /\ failures < MaxFailures
  /\ attempts' = [attempts EXCEPT ![a].status = "rejected"]
  /\ failures' = failures + 1
  /\ UNCHANGED <<bridge, bound, promise, mounts>>
RefuseTool(a) ==
  /\ Running(a) /\ NextBridge(a) # PageBridge
  /\ failures < MaxFailures
  /\ attempts' = [attempts EXCEPT ![a].status = "rejected"]
  /\ promise' = IF promise = a THEN 0 ELSE promise
  /\ failures' = failures + 1
  /\ UNCHANGED <<bridge, bound, mounts>>

\* connectNewSurfaceBridge after compose(): the runtime is shown once the
\* tools could be listed.
Connect(m) ==
  /\ Settled(m) /\ attempts[mounts[m].awaits].status = "resolved"
  /\ mounts' = [mounts EXCEPT ![m].state = "connected", ![m].runtime = mounts[m].awaits]
  /\ bridge' = Ensured
  /\ UNCHANGED <<bound, attempts, promise, failures>>

\* Its catch: the composition rejected, or a supplied bridge did not list.
Fail(m) ==
  /\ Settled(m)
  /\ \/ /\ attempts[mounts[m].awaits].status = "rejected"
        /\ UNCHANGED failures
     \/ /\ attempts[mounts[m].awaits].status = "resolved" /\ Ensured # PageBridge
        /\ failures < MaxFailures /\ failures' = failures + 1
  /\ mounts' = [mounts EXCEPT ![m].state = "failed"]
  /\ UNCHANGED <<bridge, bound, attempts, promise>>

\* The browser or an extension assigns document.modelContext; nobody
\* subscribes to onBridgeReplaced, so no tool moves.
SupplyBridge ==
  /\ BetweenTasks
  /\ \E n \in DOMAIN Supplied :
       /\ IF n = 1 THEN bridge \in {NoBridge, PageBridge} ELSE bridge = Supplied[n - 1]
       /\ bridge' = Supplied[n]
  /\ UNCHANGED <<bound, attempts, promise, mounts, failures>>

-----------------------------------------------------------------------------
CompositionInit ==
  /\ bridge = NoBridge
  /\ bound = [b \in Bridges |-> [t \in Tools |-> 0]]
  /\ attempts = <<>> /\ promise = 0 /\ failures = 0
  /\ mounts = [m \in Mounts |-> Absent]

CompositionNext ==
  \/ \E m \in Mounts : Mount(m) \/ Retry(m) \/ Unmount(m) \/ Connect(m) \/ Fail(m)
  \/ \E a \in DOMAIN attempts : RegisterTool(a) \/ RefuseTool(a)
  \/ SupplyBridge

\* The page goes on with what it has begun and a bridge answers; a person who
\* keeps seeing the Retry button presses it in the end, between whatever else
\* the page does (SF).  Failures are transient: there are MaxFailures of them.
CompositionFairness ==
  /\ \A m \in Mounts :
       /\ SF_compositionVars(Retry(m))
       /\ WF_compositionVars(Connect(m))
       /\ WF_compositionVars(Fail(m) /\ UNCHANGED failures)
  /\ \A a \in 1..MaxAttempts : WF_compositionVars(a \in DOMAIN attempts /\ RegisterTool(a))

CompositionSpec == CompositionInit /\ [][CompositionNext]_compositionVars /\ CompositionFairness

-----------------------------------------------------------------------------
(* Properties *)

\* While a route shows a runtime, every tool an agent reaches belongs to that
\* runtime, and none of its tools was left unregistered: there is one
\* composition, however mounts, retries and late bridges interleave ("every
\* tool name would rebind to it, stranding any in-flight call").
ToolsDriveTheScreen ==
  \A m \in Mounts : mounts[m].runtime # 0 =>
    \A t \in Tools :
      /\ bridge # NoBridge /\ bound[bridge][t] \in {0, mounts[m].runtime}
      /\ \E b \in Bridges : bound[b][t] = mounts[m].runtime

\* A route that stays mounted gets its runtime in the end, though attempts
\* failed before ("a transient failure used to strand every later ensure()
\* call on the same rejection forever").
Recovers ==
  \A m \in Mounts : mounts[m].state # "absent" ~> mounts[m].state \in {"connected", "absent"}
=============================================================================

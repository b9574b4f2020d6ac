----------------------------- MODULE Parts_proofs -----------------------------
(***************************************************************************)
(* Proofs about the start of the page, the pages of an answer, the         *)
(* backtests and the watchlists, which share no state: for any number of   *)
(* mounted routes, tools, supplied bridges, refusals and attempts; any     *)
(* runs, sorts and page sizes; any callers, keys, universes and bounds of  *)
(* the job store; any screeners, instruments and lists.                    *)
(***************************************************************************)
EXTENDS Composition, ResultsPages, Backtests, Watchlists, PanelMerge, Enumeration_proofs

-----------------------------------------------------------------------------
(* Composition.  A bridge that is assigned again after another one would   *)
(* still hold what an abandoned attempt registered there, so the result is *)
(* about bridges that are assigned once.                                   *)

NoBridgeTwice == \A i, j \in DOMAIN Supplied : Supplied[i] = Supplied[j] => i = j

Attempt == [group: Nat \ {0}, tool: Nat \ {0}, held: Bridges \union {NoBridge},
            status: {"running", "resolved", "rejected"}]

MountState == [state: {"absent", "connecting", "connected", "failed"}, awaits: Nat, runtime: Nat]

AttemptOK(at) ==
  /\ at \in Attempt
  /\ at.status = "running" => at.group \in DOMAIN ToolGroups /\ at.tool \in DOMAIN ToolGroups[at.group]
  /\ at.status = "resolved" => at.group = Len(ToolGroups) + 1

StartTypes ==
  /\ bridge \in Bridges \union {NoBridge}
  /\ bound \in [Bridges -> [Tools -> Nat]]
  /\ attempts \in Seq(Attempt) /\ \A a \in DOMAIN attempts : AttemptOK(attempts[a])
  /\ promise \in Nat
  /\ mounts \in [Mounts -> MountState]

\* Of all the compositions, the one the guard holds is the only one that runs
\* or has a runtime.
OneComposition ==
  /\ promise # 0 => promise \in DOMAIN attempts
  /\ \A a \in DOMAIN attempts : attempts[a].status # "rejected" <=> a = promise

\* The bridges that may still arrive, which hold no tool.
ToCome(b) ==
  \/ b = PageBridge /\ bridge = NoBridge
  \/ \E n \in DOMAIN Supplied :
       /\ b = Supplied[n]
       /\ bridge \in {NoBridge, PageBridge} \/ \E k \in DOMAIN Supplied : k < n /\ bridge = Supplied[k]
Untouched == \A b \in Bridges, t \in Tools : ToCome(b) => bound[b][t] = 0

\* The registration of tool i of group g comes before the next one of `at`.
Before(g, i, at) == g < at.group \/ (g = at.group /\ i < at.tool)

Registered(a) ==
  \A g \in DOMAIN ToolGroups : \A i \in DOMAIN ToolGroups[g] :
    Before(g, i, attempts[a]) => \E b \in Bridges : bound[b][ToolGroups[g][i]] = a

\* Tool t on the current bridge still belongs to an abandoned composition only
\* as long as the present one will register it there.
WillTake(a, t) ==
  /\ \A g \in DOMAIN ToolGroups : \A i \in DOMAIN ToolGroups[g] :
       ToolGroups[g][i] = t => ~Before(g, i, attempts[a])
  /\ attempts[a].tool > 1 => attempts[a].held = bridge

Takes(a) ==
  /\ Registered(a)
  /\ \A t \in Tools : bridge # NoBridge => bound[bridge][t] \in {0, a} \/ WillTake(a, t)
  /\ attempts[a].group > 1 \/ attempts[a].tool > 1 => bridge # NoBridge
  /\ attempts[a].tool > 1 => attempts[a].held \in Bridges /\ ~ToCome(attempts[a].held)

Taking == promise # 0 => Takes(promise)

Shows ==
  \A m \in Mounts :
    /\ mounts[m].state = "connecting" => mounts[m].awaits \in DOMAIN attempts
    /\ mounts[m].runtime # 0 => /\ mounts[m].runtime = promise
                                /\ attempts[promise].status = "resolved"

StartInv == StartTypes /\ OneComposition /\ Untouched /\ Taking /\ Shows

-----------------------------------------------------------------------------
\* Every tool has a place in the registrations.
LEMMA ToolPlaced ==
  ASSUME NEW t \in Tools
  PROVE  \E g \in DOMAIN ToolGroups : \E i \in DOMAIN ToolGroups[g] : ToolGroups[g][i] = t
BY DEF Tools, ToSet

LEMMA PlaceIsTool ==
  ASSUME NEW g \in DOMAIN ToolGroups, NEW i \in DOMAIN ToolGroups[g]
  PROVE  ToolGroups[g][i] \in Tools /\ g \in Nat \ {0} /\ i \in Nat \ {0}
BY CompositionAssumption DEF Tools, ToSet

\* The current bridge is not one to come, and no bridge comes twice.
LEMMA BridgeHasCome ==
  ASSUME NoBridgeTwice, StartTypes, bridge # NoBridge
  PROVE  ~ToCome(bridge)
<1>1. \A n \in DOMAIN Supplied : Supplied[n] \in ToSet(Supplied) /\ Supplied[n] \notin {NoBridge, PageBridge}
  BY CompositionAssumption DEF ToSet
<1>2. DOMAIN Supplied \subseteq Int
  BY CompositionAssumption
<1> QED BY <1>1, <1>2 DEF ToCome, NoBridgeTwice, NoBridge, PageBridge

LEMMA EnsuredHasCome ==
  ASSUME NoBridgeTwice, StartTypes, bridge' = Ensured
  PROVE  /\ bridge' \in Bridges
         /\ \A b : ToCome(b)' => ToCome(b)
         /\ ~ToCome(bridge)'
<1>1. \A n \in DOMAIN Supplied : Supplied[n] \notin {NoBridge, PageBridge}
  BY CompositionAssumption DEF ToSet
<1>2. CASE bridge = NoBridge
  <2>1. bridge' = PageBridge /\ PageBridge # NoBridge
    BY <1>2 DEF Ensured, PageBridge, NoBridge
  <2>2. bridge' \in Bridges
    BY <2>1 DEF Bridges
  <2> QED BY <1>1, <1>2, <2>1, <2>2 DEF ToCome
<1>3. CASE bridge # NoBridge
  <2>1. bridge' = bridge /\ bridge \in Bridges
    BY <1>3 DEF Ensured, StartTypes
  <2> QED BY <1>3, <2>1, BridgeHasCome DEF ToCome
<1> QED BY <1>2, <1>3

LEMMA SuppliedHasCome ==
  ASSUME NoBridgeTwice, StartTypes, SupplyBridge
  PROVE  /\ bridge' \in Bridges /\ bridge' # NoBridge /\ ToCome(bridge')
         /\ \A b : ToCome(b)' => ToCome(b)
<1>1. PICK n \in DOMAIN Supplied :
        /\ IF n = 1 THEN bridge \in {NoBridge, PageBridge} ELSE bridge = Supplied[n - 1]
        /\ bridge' = Supplied[n]
  BY DEF SupplyBridge
<1>2. \A j \in DOMAIN Supplied : Supplied[j] \in ToSet(Supplied) /\ Supplied[j] \notin {NoBridge, PageBridge}
  BY CompositionAssumption DEF ToSet
<1>3. DOMAIN Supplied = 1..Len(Supplied) /\ Len(Supplied) \in Nat
  BY CompositionAssumption
<1>4. bridge' \in Bridges /\ bridge' # NoBridge /\ bridge' # PageBridge
  BY <1>1, <1>2 DEF Bridges
<1>5. bridge \in {NoBridge, PageBridge} \/ (n - 1 \in DOMAIN Supplied /\ bridge = Supplied[n - 1])
  BY <1>1, <1>3
<1>6. ToCome(bridge')
  BY <1>1, <1>3, <1>5 DEF ToCome
<1>7. ASSUME NEW b, ToCome(b)' PROVE ToCome(b)
  <2>1. PICK j \in DOMAIN Supplied, k \in DOMAIN Supplied :
          b = Supplied[j] /\ k < j /\ bridge' = Supplied[k]
    BY <1>4, <1>7 DEF ToCome
  <2>2. k = n
    BY <1>1, <2>1 DEF NoBridgeTwice
  <2> QED BY <1>3, <1>5, <2>1, <2>2 DEF ToCome
<1> QED BY <1>4, <1>6, <1>7

-----------------------------------------------------------------------------
(* The steps *)

\* A route asks for the runtime: what there is of it stays, and a new
\* composition starts only when no other runs or has one.
LEMMA EnsureKeeps ==
  ASSUME StartInv, NEW m \in Mounts, Ensure(m), UNCHANGED <<bridge, bound>>
  PROVE  StartInv'
<1>1. attempts \in Seq(Attempt) /\ DOMAIN attempts = 1..Len(attempts) /\ Len(attempts) \in Nat
  BY DEF StartInv, StartTypes
<1>2. CASE /\ promise # 0
           /\ mounts' = [mounts EXCEPT ![m] = [state |-> "connecting", awaits |-> promise, runtime |-> 0]]
           /\ UNCHANGED <<attempts, promise, failures>>
  <2>1. StartTypes'
    <3>1. mounts' \in [Mounts -> MountState]
      BY <1>2 DEF StartInv, StartTypes, MountState
    <3> QED BY <1>2, <3>1 DEF StartInv, StartTypes
  <2>0. OneComposition' /\ Untouched'
    BY <1>2 DEF StartInv, OneComposition, Untouched, ToCome
  <2>2. Taking'
    BY <1>2 DEF StartInv, Taking, Takes, Registered, WillTake, ToCome
  <2>3. Shows'
    BY <1>2 DEF StartInv, StartTypes, OneComposition, Shows
  <2> QED BY <2>0, <2>1, <2>2, <2>3 DEF StartInv
<1>3. ASSUME NEW status \in {"running", "rejected"}, promise = 0, NEW n, n = Len(attempts) + 1,
             attempts' = Append(attempts, NewAttempt(status)),
             mounts' = [mounts EXCEPT ![m] = [state |-> "connecting", awaits |-> n, runtime |-> 0]],
             promise' = IF status = "running" THEN n ELSE promise
      PROVE  StartInv'
  <2>1. NewAttempt(status) \in Attempt /\ AttemptOK(NewAttempt(status))
    <3>1. Len(ToolGroups) \in Nat \ {0} /\ Len(ToolGroups[1]) \in Nat \ {0}
      BY CompositionAssumption
    <3> QED BY <3>1, CompositionAssumption DEF NewAttempt, Attempt, AttemptOK
  <2>2. /\ attempts' \in Seq(Attempt) /\ DOMAIN attempts' = 1..n
        /\ attempts'[n] = NewAttempt(status)
        /\ \A a \in DOMAIN attempts : attempts'[a] = attempts[a]
    BY <1>1, <1>3, <2>1
  <2>3. StartTypes'
    <3>1. mounts' \in [Mounts -> MountState]
      BY <1>1, <1>3 DEF StartInv, StartTypes, MountState
    <3>2. \A a \in DOMAIN attempts' : AttemptOK(attempts'[a])
      BY <1>1, <1>3, <2>1, <2>2 DEF StartInv, StartTypes
    <3> QED BY <1>1, <1>3, <2>2, <3>1, <3>2 DEF StartInv, StartTypes
  <2>4. OneComposition'
    BY <1>1, <1>3, <2>2 DEF StartInv, OneComposition, NewAttempt
  <2>5. Untouched'
    BY DEF StartInv, Untouched, ToCome
  <2>6. Taking'
    <3>1. ASSUME promise' # 0 PROVE Takes(n)'
      <4>1. attempts'[n].group = 1 /\ attempts'[n].tool = 1
        BY <2>2 DEF NewAttempt
      <4>2. \A g \in DOMAIN ToolGroups : \A i \in DOMAIN ToolGroups[g] : ~Before(g, i, attempts'[n])
        BY <4>1, PlaceIsTool DEF Before
      <4> QED BY <4>1, <4>2 DEF Takes, Registered, WillTake
    <3> QED BY <1>3, <3>1 DEF Taking
  <2>7. Shows'
    BY <1>1, <1>3, <2>2 DEF StartInv, StartTypes, Shows, OneComposition
  <2> QED BY <2>3, <2>4, <2>5, <2>6, <2>7 DEF StartInv
<1> QED BY <1>2, <1>3 DEF Ensure

\* The places after the next one, once it has been registered.
LEMMA AdvanceOrder ==
  ASSUME StartTypes, NEW a \in DOMAIN attempts, Running(a),
         NEW g \in DOMAIN ToolGroups, NEW i \in DOMAIN ToolGroups[g]
  PROVE  Before(g, i, Advance(a)) <=>
           Before(g, i, attempts[a]) \/ (g = attempts[a].group /\ i = attempts[a].tool)
<1>1. attempts[a] \in Attempt /\ attempts[a].group \in DOMAIN ToolGroups
        /\ attempts[a].tool \in DOMAIN ToolGroups[attempts[a].group]
  BY DEF StartTypes, Running, AttemptOK
<1>2. g \in Nat /\ i \in 1..Len(ToolGroups[g]) /\ Len(ToolGroups[g]) \in Nat
  BY CompositionAssumption
<1>3. CASE attempts[a].tool < Len(ToolGroups[attempts[a].group])
  <2>1. Advance(a).group = attempts[a].group /\ Advance(a).tool = attempts[a].tool + 1
    BY <1>1, <1>3 DEF Advance, Attempt
  <2> QED BY <1>1, <1>2, <2>1 DEF Before, Attempt
<1>4. CASE ~(attempts[a].tool < Len(ToolGroups[attempts[a].group]))
  <2>1. Advance(a).group = attempts[a].group + 1 /\ Advance(a).tool = 1
    BY <1>1, <1>4 DEF Advance, Attempt
  <2>2. attempts[a].tool = Len(ToolGroups[attempts[a].group])
    BY <1>1, <1>4, CompositionAssumption
  <2> QED BY <1>1, <1>2, <2>1, <2>2 DEF Before, Attempt
<1> QED BY <1>3, <1>4

\* A registration binds a tool to the composition the guard holds: no other
\* one runs, and a tool that an abandoned one left on the current bridge is
\* either passed on the way or still to come.
LEMMA RegisterKeeps ==
  ASSUME NoBridgeTwice, StartInv, NEW a \in DOMAIN attempts, RegisterTool(a)
  PROVE  StartInv'
<1>0. PICK at, t0, b0 : /\ at = attempts[a] /\ b0 = NextBridge(a)
                         /\ t0 = ToolGroups[attempts[a].group][attempts[a].tool]
  OBVIOUS
<1>1. /\ StartTypes /\ Running(a) /\ a = promise /\ promise # 0 /\ a \in Nat
      /\ at \in Attempt /\ at.group \in DOMAIN ToolGroups /\ at.tool \in DOMAIN ToolGroups[at.group]
      /\ t0 \in Tools /\ Takes(a)
  <2>1. StartTypes /\ Running(a) /\ attempts \in Seq(Attempt)
    BY DEF RegisterTool, StartInv, StartTypes
  <2>2. a = promise /\ a \in Nat \ {0}
    BY <2>1 DEF StartInv, OneComposition, Running
  <2>3. at \in Attempt /\ at.group \in DOMAIN ToolGroups /\ at.tool \in DOMAIN ToolGroups[at.group]
    BY <1>0, <2>1 DEF StartTypes, AttemptOK, Running
  <2>4. t0 \in Tools
    BY <1>0, <2>3, PlaceIsTool
  <2> QED BY <2>1, <2>2, <2>3, <2>4 DEF StartInv, Taking
<1>2. /\ bridge' = Ensured /\ UNCHANGED <<promise, mounts>>
      /\ bound' = [bound EXCEPT ![b0][t0] = a]
      /\ attempts' = [attempts EXCEPT ![a] = Advance(a)]
  BY <1>0 DEF RegisterTool
<1>3. /\ bridge' \in Bridges /\ bridge' # NoBridge /\ ~ToCome(bridge)'
      /\ \A b : ToCome(b)' => ToCome(b)
  <2>1. NoBridge \notin Bridges
    BY CompositionAssumption DEF Bridges, NoBridge, PageBridge
  <2> QED BY <1>1, <1>2, <2>1, EnsuredHasCome
<1>4. /\ b0 \in Bridges /\ ~ToCome(b0)'
      /\ at.tool = 1 => b0 = bridge'
      /\ at.tool > 1 => b0 = at.held
  <2>1. at.tool = 1 => b0 = bridge'
    BY <1>0, <1>2 DEF NextBridge
  <2>2. at.tool > 1 => b0 = at.held /\ b0 \in Bridges /\ ~ToCome(b0)
    BY <1>0, <1>1 DEF NextBridge, Takes
  <2>3. at.tool = 1 \/ at.tool > 1
    BY <1>1 DEF Attempt
  <2> QED BY <1>3, <2>1, <2>2, <2>3
<1>5. /\ bound' \in [Bridges -> [Tools -> Nat]]
      /\ bound'[b0][t0] = a
      /\ \A b \in Bridges, t \in Tools : b # b0 \/ t # t0 => bound'[b][t] = bound[b][t]
  BY <1>1, <1>2, <1>4 DEF StartTypes
<1>6. /\ Advance(a) \in Attempt /\ AttemptOK(Advance(a)) /\ Advance(a).status # "rejected"
      /\ Advance(a).tool > 1 => Advance(a).held = b0
  <2>1. Len(ToolGroups) \in Nat /\ DOMAIN ToolGroups = 1..Len(ToolGroups)
        /\ \A g \in DOMAIN ToolGroups : Len(ToolGroups[g]) \in Nat \ {0}
                                          /\ DOMAIN ToolGroups[g] = 1..Len(ToolGroups[g])
    BY CompositionAssumption
  <2>2. CASE at.tool < Len(ToolGroups[at.group])
    <3>1. Advance(a) = [group |-> at.group, tool |-> at.tool + 1, held |-> b0, status |-> at.status]
      BY <1>0, <1>1, <2>2 DEF Advance, Attempt
    <3>2. Advance(a) \in Attempt /\ Advance(a).group = at.group /\ Advance(a).tool = at.tool + 1
            /\ Advance(a).held = b0 /\ Advance(a).status = "running"
      BY <1>0, <1>1, <1>4, <3>1 DEF Attempt, Running
    <3> QED BY <1>1, <2>1, <2>2, <3>2 DEF AttemptOK
  <2>3. CASE ~(at.tool < Len(ToolGroups[at.group]))
    <3>1. Advance(a) = [group |-> at.group + 1, tool |-> 1, held |-> NoBridge,
                        status |-> IF at.group = Len(ToolGroups) THEN "resolved" ELSE at.status]
      BY <1>0, <1>1, <2>3 DEF Advance, Attempt
    <3>2. /\ Advance(a) \in Attempt /\ Advance(a).group = at.group + 1 /\ Advance(a).tool = 1
          /\ Advance(a).status = IF at.group = Len(ToolGroups) THEN "resolved" ELSE "running"
      BY <1>0, <1>1, <3>1 DEF Attempt, Running
    <3> QED BY <1>1, <2>1, <3>2 DEF AttemptOK
  <2> QED BY <2>2, <2>3
<1>7. /\ attempts' \in Seq(Attempt) /\ DOMAIN attempts' = DOMAIN attempts
      /\ attempts'[a] = Advance(a)
      /\ \A c \in DOMAIN attempts : c # a => attempts'[c] = attempts[c]
  BY <1>1, <1>2, <1>6 DEF StartTypes
<1>8. \A g \in DOMAIN ToolGroups : \A i \in DOMAIN ToolGroups[g] :
        Before(g, i, attempts'[a]) <=> Before(g, i, at) \/ (g = at.group /\ i = at.tool)
  BY <1>0, <1>1, <1>7, AdvanceOrder
<1>9. ASSUME NEW t \in Tools PROVE bound'[bridge'][t] \in {0, a} \/ WillTake(a, t)'
  <2>1. CASE bridge = NoBridge
    <3>1. bridge' = PageBridge /\ ToCome(PageBridge)
      BY <1>2, <2>1 DEF Ensured, ToCome
    <3>2. bound[bridge'][t] = 0
      BY <1>3, <3>1 DEF StartInv, Untouched
    <3> QED BY <1>3, <1>4, <1>5, <3>2
  <2>2. CASE bridge # NoBridge
    <3>1. bridge' = bridge
      BY <1>2, <2>2 DEF Ensured
    <3>2. CASE bound[bridge][t] \in {0, a}
      BY <1>3, <1>4, <1>5, <3>1, <3>2
    <3>3. CASE bound[bridge][t] \notin {0, a}
      <4>1. WillTake(a, t)
        BY <1>1, <2>2, <3>3 DEF Takes
      <4>2. b0 = bridge
        BY <1>0, <1>1, <1>4, <3>1, <4>1 DEF WillTake, Attempt
      <4>3. CASE t = t0
        BY <1>5, <3>1, <4>2, <4>3
      <4>4. CASE t # t0
        <5>1. \A g \in DOMAIN ToolGroups : \A i \in DOMAIN ToolGroups[g] :
                ToolGroups[g][i] = t => ~Before(g, i, attempts'[a])
          BY <1>0, <1>8, <4>1, <4>4 DEF WillTake
        <5> QED BY <1>6, <1>7, <3>1, <4>2, <5>1 DEF WillTake
      <4> QED BY <4>3, <4>4
    <3> QED BY <3>2, <3>3
  <2> QED BY <2>1, <2>2
<1>10. StartTypes'
  <2>1. \A c \in DOMAIN attempts' : AttemptOK(attempts'[c])
    BY <1>1, <1>6, <1>7 DEF StartTypes
  <2> QED BY <1>1, <1>2, <1>3, <1>5, <1>7, <2>1 DEF StartTypes
<1>11. OneComposition'
  BY <1>1, <1>2, <1>6, <1>7 DEF StartInv, OneComposition
<1>12. Untouched'
  <2> SUFFICES ASSUME NEW b \in Bridges, NEW t \in Tools, ToCome(b)' PROVE bound'[b][t] = 0
    BY DEF Untouched
  <2>1. ToCome(b) /\ b # b0
    BY <1>3, <1>4
  <2> QED BY <1>5, <2>1 DEF StartInv, Untouched
<1>13. Takes(a)'
  <2>1. Registered(a)'
    <3> SUFFICES ASSUME NEW g \in DOMAIN ToolGroups, NEW i \in DOMAIN ToolGroups[g],
                        Before(g, i, attempts'[a])
                 PROVE  \E b \in Bridges : bound'[b][ToolGroups[g][i]] = a
      BY DEF Registered
    <3>1. ToolGroups[g][i] \in Tools
      BY PlaceIsTool
    <3>2. CASE Before(g, i, at)
      <4>1. PICK b \in Bridges : bound[b][ToolGroups[g][i]] = a
        BY <1>0, <1>1, <3>2 DEF Takes, Registered
      <4> QED BY <1>5, <3>1, <4>1
    <3>3. CASE g = at.group /\ i = at.tool
      BY <1>0, <1>4, <1>5, <3>3
    <3> QED BY <1>8, <3>2, <3>3
  <2>2. (attempts[a].tool > 1 => attempts[a].held \in Bridges /\ ~ToCome(attempts[a].held))'
    BY <1>4, <1>6, <1>7
  <2> QED BY <1>3, <1>9, <2>1, <2>2 DEF Takes
<1>14. Taking'
  BY <1>1, <1>2, <1>13 DEF Taking
<1>15. Shows'
  <2>1. \A m \in Mounts : mounts[m].runtime = 0
    BY <1>1 DEF StartInv, Shows, Running
  <2> QED BY <1>2, <1>7, <2>1 DEF StartInv, Shows
<1> QED BY <1>10, <1>11, <1>12, <1>14, <1>15 DEF StartInv

\* The guard forgets a composition that a bridge refused.
LEMMA RefuseKeeps ==
  ASSUME StartInv, NEW a \in DOMAIN attempts, RefuseTool(a)
  PROVE  StartInv'
<1>1. /\ Running(a) /\ a = promise /\ attempts \in Seq(Attempt) /\ attempts[a] \in Attempt
      /\ attempts' = [attempts EXCEPT ![a].status = "rejected"]
      /\ promise' = 0 /\ UNCHANGED <<bridge, bound, mounts>>
  BY DEF RefuseTool, StartInv, StartTypes, OneComposition, Running, AttemptOK
<1>2. /\ DOMAIN attempts' = DOMAIN attempts
      /\ attempts'[a] = [attempts[a] EXCEPT !.status = "rejected"]
      /\ \A c \in DOMAIN attempts : c # a => attempts'[c] = attempts[c]
  BY <1>1
<1>3. attempts'[a] \in Attempt /\ attempts'[a].status = "rejected"
  BY <1>1, <1>2 DEF Attempt
<1>4. attempts' \in Seq(Attempt)
  BY <1>1, <1>2, <1>3
<1>5. \A c \in DOMAIN attempts' : AttemptOK(attempts'[c])
  BY <1>2, <1>3 DEF AttemptOK, StartInv, StartTypes
<1>6. StartTypes'
  BY <1>1, <1>4, <1>5 DEF StartInv, StartTypes
<1>7. OneComposition'
  BY <1>1, <1>2, <1>3, <1>4 DEF StartInv, OneComposition
<1>8. Untouched' /\ Taking'
  BY <1>1 DEF StartInv, Untouched, ToCome, Taking
<1>9. \A m \in Mounts : mounts[m].runtime = 0
  BY <1>1 DEF StartInv, Shows, Running
<1>10. Shows'
  BY <1>1, <1>2, <1>9 DEF StartInv, Shows
<1> QED BY <1>6, <1>7, <1>8, <1>10 DEF StartInv

\* A bridge that arrives holds no tool.
LEMMA SupplyKeeps ==
  ASSUME NoBridgeTwice, StartInv, SupplyBridge
  PROVE  StartInv'
<1>1. /\ bridge' \in Bridges /\ bridge' # NoBridge /\ ToCome(bridge')
      /\ \A b : ToCome(b)' => ToCome(b)
  BY SuppliedHasCome DEF StartInv
<1>2. UNCHANGED <<bound, attempts, promise, mounts>>
  BY DEF SupplyBridge
<1>3. StartTypes' /\ OneComposition' /\ Shows'
  BY <1>1, <1>2 DEF StartInv, StartTypes, OneComposition, Shows
<1>4. Untouched'
  BY <1>1, <1>2 DEF StartInv, Untouched
<1>5. Taking'
  <2> SUFFICES ASSUME promise # 0 PROVE Takes(promise)'
    BY <1>2 DEF Taking
  <2>1. Takes(promise)
    BY DEF StartInv, Taking
  <2>2. Registered(promise)'
    BY <1>2, <2>1 DEF Takes, Registered
  <2>3. \A t \in Tools : bound'[bridge'][t] = 0
    BY <1>1, <1>2 DEF StartInv, Untouched
  <2>4. (attempts[promise].tool > 1 => attempts[promise].held \in Bridges /\ ~ToCome(attempts[promise].held))'
    BY <1>1, <1>2, <2>1 DEF Takes
  <2> QED BY <1>1, <1>2, <2>2, <2>3, <2>4 DEF Takes
<1> QED BY <1>3, <1>4, <1>5 DEF StartInv

\* Showing the runtime, a refused listing, and leaving the route.
LEMMA MountKeeps ==
  ASSUME NoBridgeTwice, StartInv, NEW m \in Mounts, Connect(m) \/ Fail(m) \/ Unmount(m)
  PROVE  StartInv'
<1>1. ASSUME NEW s \in MountState, mounts' = [mounts EXCEPT ![m] = s],
             s.state # "connecting",
             s.runtime # 0 => s.runtime = promise /\ attempts[promise].status = "resolved",
             UNCHANGED <<bridge, bound, attempts, promise>>
      PROVE  StartInv'
  <2>1. StartTypes'
    BY <1>1 DEF StartInv, StartTypes
  <2>2. OneComposition' /\ Untouched'
    BY <1>1 DEF StartInv, OneComposition, Untouched, ToCome
  <2>3. Taking'
    BY <1>1 DEF StartInv, Taking, Takes, Registered, WillTake, ToCome
  <2>4. Shows'
    BY <1>1 DEF StartInv, StartTypes, Shows
  <2> QED BY <2>1, <2>2, <2>3, <2>4 DEF StartInv
<1>2. mounts \in [Mounts -> MountState] /\ mounts[m] \in MountState
  BY DEF StartInv, StartTypes
<1>3. CASE Connect(m)
  <2> DEFINE a == mounts[m].awaits
             s == [mounts[m] EXCEPT !.state = "connected", !.runtime = a]
  <2>1. a \in DOMAIN attempts /\ attempts[a].status = "resolved"
    BY <1>3 DEF Connect, Settled, StartInv, Shows
  <2>2. a = promise /\ promise # 0 /\ AttemptOK(attempts[a])
    BY <2>1 DEF StartInv, StartTypes, OneComposition
  <2>3. attempts[a].group > 1
    <3>1. Len(ToolGroups) \in Nat \ {0}
      BY CompositionAssumption
    <3> QED BY <2>1, <2>2, <3>1 DEF AttemptOK
  <2>4. bridge # NoBridge
    BY <2>2, <2>3 DEF StartInv, Taking, Takes
  <2>5. UNCHANGED <<bridge, bound, attempts, promise>>
    BY <1>3, <2>4 DEF Connect, Ensured
  <2>6. s \in MountState /\ s.state = "connected" /\ s.runtime = a
    BY <1>2 DEF MountState
  <2>7. mounts' = [mounts EXCEPT ![m] = s]
    BY <1>2, <1>3 DEF Connect
  <2> HIDE DEF s
  <2> QED BY <1>1, <2>1, <2>2, <2>5, <2>6, <2>7
<1>4. CASE Fail(m)
  <2> DEFINE s == [mounts[m] EXCEPT !.state = "failed"]
  <2>1. s \in MountState /\ s.state = "failed" /\ s.runtime = mounts[m].runtime
    BY <1>2 DEF MountState
  <2>2. mounts' = [mounts EXCEPT ![m] = s] /\ UNCHANGED <<bridge, bound, attempts, promise>>
    BY <1>2, <1>4 DEF Fail
  <2>3. s.runtime # 0 => s.runtime = promise /\ attempts[promise].status = "resolved"
    BY <2>1 DEF StartInv, Shows
  <2> HIDE DEF s
  <2> QED BY <1>1, <2>1, <2>2, <2>3
<1>5. CASE Unmount(m)
  <2>1. Absent \in MountState /\ Absent.state = "absent" /\ Absent.runtime = 0
    BY DEF Absent, MountState
  <2>2. mounts' = [mounts EXCEPT ![m] = Absent] /\ UNCHANGED <<bridge, bound, attempts, promise>>
    BY <1>5 DEF Unmount
  <2> QED BY <1>1, <2>1, <2>2
<1> QED BY <1>3, <1>4, <1>5

LEMMA StartInductive ==
  ASSUME NoBridgeTwice
  PROVE  CompositionSpec => []StartInv
<1>1. CompositionInit => StartInv
  <2> SUFFICES ASSUME CompositionInit PROVE StartInv
    OBVIOUS
  <2>1. Absent \in MountState /\ Absent.state = "absent" /\ Absent.runtime = 0
    BY DEF Absent, MountState
  <2>2. bound \in [Bridges -> [Tools -> Nat]] /\ \A b \in Bridges, t \in Tools : bound[b][t] = 0
    BY DEF CompositionInit
  <2>3. StartTypes
    BY <2>1, <2>2 DEF CompositionInit, StartTypes
  <2>4. OneComposition /\ Untouched /\ Taking /\ Shows
    BY <2>1, <2>2 DEF CompositionInit, OneComposition, Untouched, Taking, Shows
  <2> QED BY <2>3, <2>4 DEF StartInv
<1>2. StartInv /\ [CompositionNext]_compositionVars => StartInv'
  <2> SUFFICES ASSUME StartInv, [CompositionNext]_compositionVars PROVE StartInv'
    OBVIOUS
  <2>1. ASSUME NEW m \in Mounts, Mount(m) \/ Retry(m) PROVE StartInv'
    BY <2>1, EnsureKeeps DEF Mount, Retry
  <2>2. ASSUME NEW m \in Mounts, Connect(m) \/ Fail(m) \/ Unmount(m) PROVE StartInv'
    BY <2>2, MountKeeps
  <2>3. ASSUME NEW a \in DOMAIN attempts, RegisterTool(a) PROVE StartInv'
    BY <2>3, RegisterKeeps
  <2>4. ASSUME NEW a \in DOMAIN attempts, RefuseTool(a) PROVE StartInv'
    BY <2>4, RefuseKeeps
  <2>5. CASE SupplyBridge
    BY <2>5, SupplyKeeps
  <2>6. CASE UNCHANGED compositionVars
    <3>1. UNCHANGED <<bridge, bound, attempts, promise, mounts>>
      BY <2>6 DEF compositionVars
    <3>2. StartTypes' /\ OneComposition' /\ Untouched' /\ Shows'
      BY <3>1 DEF StartInv, StartTypes, OneComposition, Untouched, ToCome, Shows
    <3>3. Taking'
      BY <3>1 DEF StartInv, Taking, Takes, Registered, WillTake, ToCome
    <3> QED BY <3>2, <3>3 DEF StartInv
  <2> QED BY <2>1, <2>2, <2>3, <2>4, <2>5, <2>6 DEF CompositionNext
<1> QED BY <1>1, <1>2, PTL DEF CompositionSpec

\* However routes mount, retry and leave, attempts are refused and bridges
\* arrive, a runtime on the screen is the one every reachable tool belongs to,
\* and none of its tools was left out (createCompositionGuard).
THEOREM OneRuntimeServes == ASSUME NoBridgeTwice PROVE CompositionSpec => []ToolsDriveTheScreen
<1>1. StartInv => ToolsDriveTheScreen
  <2> SUFFICES ASSUME StartInv, NEW m \in Mounts, mounts[m].runtime # 0, NEW t \in Tools
               PROVE  /\ bridge # NoBridge /\ bound[bridge][t] \in {0, mounts[m].runtime}
                      /\ \E b \in Bridges : bound[b][t] = mounts[m].runtime
    BY DEF ToolsDriveTheScreen
  <2> DEFINE a == mounts[m].runtime
  <2>1. a = promise /\ promise # 0 /\ a \in DOMAIN attempts /\ attempts[a].status = "resolved"
    BY DEF StartInv, Shows, OneComposition
  <2>2. Takes(a)
    BY <2>1 DEF StartInv, Taking
  <2>3. attempts[a].group = Len(ToolGroups) + 1
    BY <2>1 DEF StartInv, StartTypes, AttemptOK
  <2>4. PICK g \in DOMAIN ToolGroups : \E i \in DOMAIN ToolGroups[g] : ToolGroups[g][i] = t
    BY ToolPlaced
  <2>5. PICK i \in DOMAIN ToolGroups[g] : ToolGroups[g][i] = t
    BY <2>4
  <2>6. g \in 1..Len(ToolGroups) /\ Len(ToolGroups) \in Nat \ {0}
    BY CompositionAssumption
  <2>7. Before(g, i, attempts[a])
    BY <2>3, <2>6 DEF Before
  <2>8. bridge # NoBridge
    BY <2>2, <2>3, <2>6 DEF Takes
  <2>9. ~WillTake(a, t)
    BY <2>5, <2>7 DEF WillTake
  <2> QED BY <2>2, <2>5, <2>7, <2>8, <2>9 DEF Takes, Registered
<1> QED BY <1>1, StartInductive, PTL

-----------------------------------------------------------------------------
(* ResultsPages.  The sort of a table is a strict total order of the rows,  *)
(* so the number of rows before a row tells its place, and every place has  *)
(* its row.                                                                 *)

Measured(matches, sort) ==
  /\ matches \in Seq(Range(matches))
  /\ \A i \in DOMAIN matches, column \in {sort.key, sort.tieBreak} :
       ValueForCompare(matches, column, i) \in Int \union {NoNumber}

\* A strict weak order of the values, nothing being last in both directions.
LEMMA ValuesAreOrdered ==
  ASSUME NEW direction,
         NEW a \in Int \union {NoNumber}, NEW b \in Int \union {NoNumber}, NEW c \in Int \union {NoNumber}
  PROVE  /\ ~Precedes(a, a, direction)
         /\ Precedes(a, b, direction) => ~Precedes(b, a, direction)
         /\ ~Precedes(a, b, direction) /\ ~Precedes(b, c, direction) => ~Precedes(a, c, direction)
BY DEF Precedes

LEMMA RowsAreOrdered ==
  ASSUME NEW matches, NEW sort, Measured(matches, sort),
         NEW p \in DOMAIN matches, NEW q \in DOMAIN matches, NEW r \in DOMAIN matches
  PROVE  /\ ~RowBefore(matches, sort, p, p)
         /\ RowBefore(matches, sort, p, q) /\ RowBefore(matches, sort, q, r) => RowBefore(matches, sort, p, r)
         /\ p # q => RowBefore(matches, sort, p, q) \/ RowBefore(matches, sort, q, p)
<1> DEFINE D == DOMAIN matches
           key(j, k) == ByKey(matches, sort, j, k)
           tie(j, k) == ByTieBreak(matches, sort, j, k)
<1>1. \A i \in D : /\ ValueForCompare(matches, sort.key, i) \in Int \union {NoNumber}
                  /\ ValueForCompare(matches, sort.tieBreak, i) \in Int \union {NoNumber}
  BY DEF Measured
<1>2. \A i, j, k \in D : /\ ~key(i, i) /\ (key(i, j) => ~key(j, i))
                         /\ ~key(i, j) /\ ~key(j, k) => ~key(i, k)
  <2> TAKE i, j, k \in D
  <2> DEFINE value(n) == ValueForCompare(matches, sort.key, n)
  <2>1. value(i) \in Int \union {NoNumber} /\ value(j) \in Int \union {NoNumber} /\ value(k) \in Int \union {NoNumber}
    BY <1>1
  <2>2. \A m, n : key(m, n) <=> Precedes(value(m), value(n), sort.direction)
    BY DEF ByKey, ByColumn
  <2> HIDE DEF value, key
  <2>3. /\ ~Precedes(value(i), value(i), sort.direction)
        /\ Precedes(value(i), value(j), sort.direction) => ~Precedes(value(j), value(i), sort.direction)
        /\ ~Precedes(value(i), value(j), sort.direction) /\ ~Precedes(value(j), value(k), sort.direction) => ~Precedes(value(i), value(k), sort.direction)
    BY <2>1, ValuesAreOrdered
  <2> QED BY <2>2, <2>3, Zenon
<1>3. \A i, j, k \in D : /\ ~tie(i, i) /\ (tie(i, j) => ~tie(j, i))
                         /\ ~tie(i, j) /\ ~tie(j, k) => ~tie(i, k)
  <2> TAKE i, j, k \in D
  <2> DEFINE value(n) == ValueForCompare(matches, sort.tieBreak, n)
  <2>1. value(i) \in Int \union {NoNumber} /\ value(j) \in Int \union {NoNumber} /\ value(k) \in Int \union {NoNumber}
    BY <1>1
  <2>2. \A m, n : tie(m, n) <=> Precedes(value(m), value(n), sort.tieBreakDirection)
    BY DEF ByTieBreak, ByColumn
  <2> HIDE DEF value, tie
  <2>3. /\ ~Precedes(value(i), value(i), sort.tieBreakDirection)
        /\ Precedes(value(i), value(j), sort.tieBreakDirection) => ~Precedes(value(j), value(i), sort.tieBreakDirection)
        /\ ~Precedes(value(i), value(j), sort.tieBreakDirection) /\ ~Precedes(value(j), value(k), sort.tieBreakDirection) => ~Precedes(value(i), value(k), sort.tieBreakDirection)
    BY <2>1, ValuesAreOrdered
  <2> QED BY <2>2, <2>3, Zenon
<1>4. p \in Int /\ q \in Int /\ r \in Int
  BY DEF Measured
<1>5. ~RowBefore(matches, sort, p, p)
  BY <1>2, <1>3, <1>4 DEF RowBefore
<1>6. ASSUME RowBefore(matches, sort, p, q), RowBefore(matches, sort, q, r)
      PROVE  RowBefore(matches, sort, p, r)
  <2>1. ~key(q, p) /\ ~key(r, q) /\ ~key(r, p)
    BY <1>2, <1>6, Zenon DEF RowBefore
  <2>2. CASE key(p, q) \/ key(q, r)
    <3>1. key(p, r)
      BY <1>2, <2>1, <2>2
    <3> QED BY <3>1 DEF RowBefore
  <2>3. CASE ~key(p, q) /\ ~key(q, r)
    <3>1. /\ tie(p, q) \/ (~tie(q, p) /\ p < q)
          /\ tie(q, r) \/ (~tie(r, q) /\ q < r)
      <4>1. tie(p, q) \/ (~tie(q, p) /\ p < q)
        BY <1>6, <2>3 DEF RowBefore
      <4>2. tie(q, r) \/ (~tie(r, q) /\ q < r)
        BY <1>6, <2>3 DEF RowBefore
      <4> QED BY <4>1, <4>2
    <3>2. ~tie(q, p) /\ ~tie(r, q) /\ ~tie(r, p)
      BY <1>3, <3>1, Zenon
    <3>3. CASE tie(p, q) \/ tie(q, r)
      <4>1. tie(p, r)
        BY <1>3, <3>2, <3>3
      <4> QED BY <2>1, <4>1 DEF RowBefore
    <3>4. CASE ~tie(p, q) /\ ~tie(q, r)
      <4>1. p < r
        BY <1>4, <3>1, <3>4
      <4> QED BY <2>1, <3>2, <4>1 DEF RowBefore
    <3> QED BY <3>3, <3>4
  <2> QED BY <2>2, <2>3
<1>7. ASSUME p # q
      PROVE  RowBefore(matches, sort, p, q) \/ RowBefore(matches, sort, q, p)
  <2>1. p < q \/ q < p
    BY <1>4, <1>7
  <2> QED BY <2>1, Zenon DEF RowBefore
<1> QED BY <1>5, <1>6, <1>7

LEMMA RowsAreCounted ==
  ASSUME NEW matches, NEW sort, Measured(matches, sort),
         NEW p \in DOMAIN matches
  PROVE  /\ IsFiniteSet(RowsBefore(matches, sort, p))
         /\ Cardinality(RowsBefore(matches, sort, p)) \in 0..Len(matches) - 1
         /\ \A q \in DOMAIN matches : RowBefore(matches, sort, p, q) =>
              Cardinality(RowsBefore(matches, sort, p)) < Cardinality(RowsBefore(matches, sort, q))
<1> DEFINE all == DOMAIN matches
           before(q) == RowsBefore(matches, sort, q)
<1>1. all = 1..Len(matches) /\ Len(matches) \in Nat
  BY DEF Measured
<1>2. IsFiniteSet(all) /\ Cardinality(all) = Len(matches)
  <2> DEFINE n == Len(matches)
  <2>1. n \in Nat /\ all = 1..n
    BY <1>1
  <2> HIDE DEF n
  <2>2. IsFiniteSet(1..n) /\ Cardinality(1..n) = IF 1 > n THEN 0 ELSE n - 1 + 1
    BY <2>1, FS_Interval
  <2>3. Cardinality(1..n) = n
    BY <2>1, <2>2
  <2> QED BY <2>1, <2>2, <2>3 DEF n
<1>3. ASSUME NEW q \in all
      PROVE  before(q) \subseteq all /\ q \notin before(q) /\ IsFiniteSet(before(q)) /\ Cardinality(before(q)) \in Nat
  <2>1. before(q) \subseteq all /\ q \notin before(q)
    BY RowsAreOrdered DEF RowsBefore
  <2> QED BY <2>1, <1>2, FS_Subset, FS_CardinalityType
<1>4. Cardinality(before(p)) < Cardinality(all)
  <2>1. before(p) \in SUBSET all /\ before(p) # all
    BY <1>3
  <2>2. Cardinality(before(p)) <= Cardinality(all) /\ Cardinality(before(p)) # Cardinality(all)
    BY <2>1, <1>2, FS_Subset
  <2> QED BY <2>2, <1>3, <1>2, <1>1
<1>5. ASSUME NEW q \in all, RowBefore(matches, sort, p, q)
      PROVE  Cardinality(before(p)) < Cardinality(before(q))
  <2>1. before(p) \in SUBSET before(q) /\ before(p) # before(q)
    <3>1. p \in before(q) /\ p \notin before(p)
      BY <1>3, <1>5 DEF RowsBefore
    <3>2. \A r \in all : RowBefore(matches, sort, r, p) => RowBefore(matches, sort, r, q)
      BY <1>5, RowsAreOrdered
    <3> QED BY <3>1, <3>2 DEF RowsBefore
  <2>2. Cardinality(before(p)) <= Cardinality(before(q)) /\ Cardinality(before(p)) # Cardinality(before(q))
    BY <2>1, <1>3, FS_Subset
  <2> QED BY <2>2, <1>3
<1> QED BY <1>1, <1>2, <1>3, <1>4, <1>5

LEMMA EveryPlaceHasItsRow ==
  ASSUME NEW matches, NEW sort, Measured(matches, sort), sort # Unsorted,
         NEW k \in 1..Len(matches)
  PROVE  /\ RowAt(matches, sort, k) \in DOMAIN matches
         /\ Cardinality(RowsBefore(matches, sort, RowAt(matches, sort, k))) = k - 1
<1> DEFINE n == Len(matches)
           count(p) == Cardinality(RowsBefore(matches, sort, p))
           place == [p \in 1..n |-> count(p) + 1]
<1>1. DOMAIN matches = 1..n /\ n \in Nat
  BY DEF Measured
<1>2. \A p \in 1..n : count(p) \in 0..n - 1
  BY <1>1, RowsAreCounted
<1>3. ASSUME NEW p \in 1..n, NEW q \in 1..n, p # q
      PROVE  count(p) # count(q)
  <2>1. RowBefore(matches, sort, p, q) \/ RowBefore(matches, sort, q, p)
    BY <1>1, <1>3, RowsAreOrdered
  <2>2. count(p) < count(q) \/ count(q) < count(p)
    BY <1>1, <2>1, RowsAreCounted
  <2> QED BY <2>2, <1>2
<1> HIDE DEF count
<1>4. place \in Injection(1..n, 1..n)
  <2>1. place \in [1..n -> 1..n]
    BY <1>1, <1>2
  <2>2. \A p, q \in 1..n : place[p] = place[q] => p = q
    BY <1>1, <1>2, <1>3
  <2> QED BY <2>1, <2>2 DEF Injection, IsInjective
<1>5. place \in Surjection(1..n, 1..n)
  BY <1>1, <1>4, FS_Interval, FS_Injection
<1>6. PICK p \in 1..n : place[p] = k
  BY <1>5 DEF Surjection
<1>7. count(p) = k - 1
  BY <1>1, <1>2, <1>6
<1> QED BY <1>1, <1>7 DEF RowAt, count

\* A row without a value has no row with one after it.
LEMMA NothingComesLast ==
  ASSUME NEW matches, NEW sort, Measured(matches, sort), sort # Unsorted,
         NEW j \in 1..Len(matches), NEW k \in 1..Len(matches), j < k,
         ValueForCompare(matches, sort.key, RowAt(matches, sort, j)) = NoNumber
  PROVE  ValueForCompare(matches, sort.key, RowAt(matches, sort, k)) = NoNumber
<1> DEFINE p == RowAt(matches, sort, j)
           q == RowAt(matches, sort, k)
<1>1. /\ p \in DOMAIN matches /\ q \in DOMAIN matches
      /\ Cardinality(RowsBefore(matches, sort, p)) = j - 1
      /\ Cardinality(RowsBefore(matches, sort, q)) = k - 1
  BY EveryPlaceHasItsRow
<1> HIDE DEF p, q
<1>2. Len(matches) \in Nat
  BY DEF Measured
<1>3. ~RowBefore(matches, sort, q, p)
  BY <1>1, <1>2, RowsAreCounted
<1>4. ~ByKey(matches, sort, q, p)
  BY <1>3 DEF RowBefore
<1>5. ValueForCompare(matches, sort.key, p) = NoNumber
  BY DEF p
<1> QED BY <1>4, <1>5 DEF ByKey, ByColumn, Precedes, q

-----------------------------------------------------------------------------
(* The walk: what was shown is a beginning of the sorted run, and the cursor *)
(* stands at its end.                                                        *)

PageRow == [runId: DOMAIN StoredRuns, rank: Nat]
Total(runId) == Len(StoredRuns[runId])

Cursors == [runId: DOMAIN StoredRuns \union {""}, offset: Nat]
Walks == [runId: DOMAIN StoredRuns, sort: Sorts \union {Unsorted}, steady: BOOLEAN,
          rows: Seq(PageRow), next: Cursors]

WalkHolds ==
  walk # NoWalk =>
    /\ walk \in Walks
    /\ Len(walk.rows) <= Total(walk.runId)
    /\ walk.next = NextCursor(walk.runId, Len(walk.rows), Total(walk.runId))
    /\ \A k \in DOMAIN walk.rows : walk.rows[k].runId = walk.runId
    /\ walk.steady =>
         \A k \in DOMAIN walk.rows : walk.rows[k] = ProjectResultRows(walk.runId, walk.sort)[k]

PagesInv ==
  /\ boundRun \in DOMAIN StoredRuns /\ tableSort \in Sorts \union {Unsorted}
  /\ WalkHolds

LEMMA RunsAreMeasured ==
  ASSUME NEW runId \in DOMAIN StoredRuns, NEW sort \in Sorts
  PROVE  Measured(StoredRuns[runId], sort)
<1> DEFINE matches == StoredRuns[runId]
<1>1. matches \in Seq(Range(matches))
  BY ResultsPagesAssumption, Zenon DEF ResultsPagesAssumption
<1>2. ASSUME NEW i \in DOMAIN matches, NEW column \in {sort.key, sort.tieBreak}
      PROVE  ValueForCompare(matches, column, i) \in Int \union {NoNumber}
  <2>1. CASE column = "result_id"
    BY <1>1, <2>1 DEF ValueForCompare
  <2>2. CASE column # "result_id"
    <3>1. matches[i][column] = NoNumber \/ matches[i][column] \in Int
      BY <2>2, ResultsPagesAssumption DEF ResultsPagesAssumption
    <3> QED BY <2>2, <3>1 DEF ValueForCompare
  <2> QED BY <2>1, <2>2
<1> QED BY <1>1, <1>2 DEF Measured

LEMMA RunsAreFinite ==
  ASSUME NEW runId \in DOMAIN StoredRuns
  PROVE  Total(runId) \in Nat /\ DOMAIN StoredRuns[runId] = 1..Total(runId)
<1>1. StoredRuns[runId] \in Seq(Range(StoredRuns[runId]))
  BY ResultsPagesAssumption, Zenon DEF ResultsPagesAssumption
<1> QED BY <1>1 DEF Total

\* A run id is never empty, so a cursor into a run is not the absent one.
LEMMA CursorsTell ==
  ASSUME NEW runId \in DOMAIN StoredRuns, NEW at \in Nat, NEW total \in Nat, at <= total
  PROVE  LET following == NextCursor(runId, at, total)
         IN  /\ following \in Cursors /\ (following = NoCursor <=> at = total)
             /\ following # NoCursor => following.runId = runId /\ following.offset = at
<1>1. runId # ""
  BY ResultsPagesAssumption, Zenon DEF ResultsPagesAssumption
<1> DEFINE mine == [runId |-> runId, offset |-> at]
<1>2. mine \in Cursors /\ NoCursor \in Cursors
  BY DEF Cursors, NoCursor
<1>3. mine # NoCursor
  <2>1. mine.runId = runId /\ NoCursor.runId = ""
    BY DEF NoCursor
  <2> QED BY <2>1, <1>1
<1>4. mine.runId = runId /\ mine.offset = at
  OBVIOUS
<1>5. NextCursor(runId, at, total) = IF at < total THEN mine ELSE NoCursor
  BY DEF NextCursor
<1> HIDE DEF mine
<1> QED BY <1>2, <1>3, <1>4, <1>5

\* What is known of a walk, piece by piece.
LEMMA WalksAre ==
  ASSUME WalkHolds, walk # NoWalk
  PROVE  /\ walk \in Walks
         /\ walk.runId \in DOMAIN StoredRuns /\ walk.sort \in Sorts \union {Unsorted}
         /\ walk.steady \in BOOLEAN /\ walk.rows \in Seq(PageRow) /\ Total(walk.runId) \in Nat
         /\ Len(walk.rows) \in 0..Total(walk.runId) /\ DOMAIN walk.rows = 1..Len(walk.rows)
         /\ walk.next = NoCursor <=> Len(walk.rows) = Total(walk.runId)
         /\ walk.next # NoCursor => walk.next.runId = walk.runId /\ walk.next.offset = Len(walk.rows)
         /\ \A k \in DOMAIN walk.rows : walk.rows[k].runId = walk.runId
         /\ walk.steady =>
              \A k \in DOMAIN walk.rows : walk.rows[k] = ProjectResultRows(walk.runId, walk.sort)[k]
<1>1. walk \in Walks
  BY DEF WalkHolds
<1>2. /\ walk.runId \in DOMAIN StoredRuns /\ walk.sort \in Sorts \union {Unsorted}
      /\ walk.steady \in BOOLEAN /\ walk.rows \in Seq(PageRow)
  BY <1>1 DEF Walks
<1>3. Total(walk.runId) \in Nat
  BY <1>2, RunsAreFinite
<1>4. Len(walk.rows) \in Nat /\ DOMAIN walk.rows = 1..Len(walk.rows)
  BY <1>2
<1>5. Len(walk.rows) <= Total(walk.runId)
  BY DEF WalkHolds
<1>6. walk.next = NextCursor(walk.runId, Len(walk.rows), Total(walk.runId))
  BY DEF WalkHolds
<1>7. /\ \A k \in DOMAIN walk.rows : walk.rows[k].runId = walk.runId
      /\ walk.steady =>
           \A k \in DOMAIN walk.rows : walk.rows[k] = ProjectResultRows(walk.runId, walk.sort)[k]
  BY DEF WalkHolds
<1>8. /\ walk.next = NoCursor <=> Len(walk.rows) = Total(walk.runId)
      /\ walk.next # NoCursor => walk.next.runId = walk.runId /\ walk.next.offset = Len(walk.rows)
  BY <1>2, <1>3, <1>4, <1>5, <1>6, CursorsTell
<1> QED BY <1>1, <1>2, <1>3, <1>4, <1>5, <1>7, <1>8

\* The rows of a page, and where it ends.
LEMMA PagesAreCut ==
  ASSUME NEW runId \in DOMAIN StoredRuns, NEW sort \in Sorts \union {Unsorted},
         NEW offset \in 0..Total(runId), NEW size \in Nat
  PROVE  LET whole == ProjectResultRows(runId, sort)
             page == Slice(whole, offset, size)
         IN  /\ page \in Seq(PageRow) /\ offset + Len(page) <= Total(runId)
             /\ \A k \in DOMAIN page : page[k] = whole[offset + k] /\ page[k].runId = runId
<1> DEFINE whole == ProjectResultRows(runId, sort)
           n == Total(runId)
           last == Min({offset + size, n})
<1>1. n \in Nat /\ DOMAIN StoredRuns[runId] = 1..n
  BY RunsAreFinite
<1>2. \A k \in 1..n : RowAt(StoredRuns[runId], sort, k) \in 1..n
  <2>1. CASE sort = Unsorted
    BY <2>1 DEF RowAt
  <2>2. CASE sort # Unsorted
    BY <2>2, <1>1, RunsAreMeasured, EveryPlaceHasItsRow DEF Total
  <2> QED BY <2>1, <2>2
<1>3. whole \in [1..n -> PageRow] /\ \A k \in 1..n : whole[k].runId = runId
  BY <1>1, <1>2 DEF ProjectResultRows, PageRow
<1>4. last \in Nat /\ offset <= last /\ last <= n
  <2> DEFINE low == IF offset + size <= n THEN offset + size ELSE n
  <2>1. low \in {offset + size, n} /\ \A y \in {offset + size, n} : low =< y
    BY <1>1
  <2>2. last \in {offset + size, n} /\ \A y \in {offset + size, n} : last =< y
    BY <2>1 DEF Min
  <2> QED BY <2>2, <1>1
<1> HIDE DEF whole, n, last
<1>5. whole \in Seq(PageRow) /\ Len(whole) = n
  BY <1>1, <1>3
<1>6. SubSeq(whole, offset + 1, last) \in Seq(PageRow)
      /\ Len(SubSeq(whole, offset + 1, last)) = last - offset
      /\ \A k \in 1..last - offset : SubSeq(whole, offset + 1, last)[k] = whole[offset + k]
  BY <1>1, <1>4, <1>5 DEF n
<1>7. Slice(whole, offset, size) = SubSeq(whole, offset + 1, last)
  BY <1>5 DEF Slice, last
<1> QED BY <1>1, <1>3, <1>4, <1>6, <1>7 DEF whole, n

LEMMA SequencesJoin ==
  ASSUME NEW S, NEW s \in Seq(S), NEW t \in Seq(S)
  PROVE  /\ s \o t \in Seq(S) /\ Len(s \o t) = Len(s) + Len(t) /\ Len(s) \in Nat /\ Len(t) \in Nat
         /\ \A k \in DOMAIN (s \o t) :
              \/ k \in DOMAIN s /\ (s \o t)[k] = s[k]
              \/ k - Len(s) \in DOMAIN t /\ (s \o t)[k] = t[k - Len(s)] /\ Len(s) + (k - Len(s)) = k
OBVIOUS

LEMMA PagesInvNext == PagesInv /\ [PagesNext]_pagesVars => PagesInv'
<1> SUFFICES ASSUME PagesInv, [PagesNext]_pagesVars
             PROVE  PagesInv'
  OBVIOUS
<1>1. ASSUME NEW n \in PageSizes, ReadFirst(n)
      PROVE  PagesInv'
  <2> DEFINE page == Slice(ProjectResultRows(boundRun, tableSort), 0, n)
  <2>1. boundRun \in DOMAIN StoredRuns /\ tableSort \in Sorts \union {Unsorted} /\ n \in Nat
    BY ResultsPagesAssumption DEF PagesInv, ResultsPagesAssumption
  <2>2. Total(boundRun) \in Nat
    BY <2>1, RunsAreFinite
  <2>3. /\ page \in Seq(PageRow) /\ Len(page) <= Total(boundRun) /\ Len(page) \in Nat
        /\ \A k \in DOMAIN page : page[k] = ProjectResultRows(boundRun, tableSort)[k] /\ page[k].runId = boundRun
    <3>1. /\ page \in Seq(PageRow) /\ 0 + Len(page) <= Total(boundRun)
          /\ \A k \in DOMAIN page : page[k] = ProjectResultRows(boundRun, tableSort)[0 + k] /\ page[k].runId = boundRun
      BY <2>1, <2>2, PagesAreCut
    <3> HIDE DEF page
    <3> QED BY <3>1
  <2>4. /\ UNCHANGED <<boundRun, tableSort>>
        /\ walk' = [runId |-> boundRun, sort |-> tableSort, steady |-> TRUE, rows |-> page,
                    next |-> NextCursor(boundRun, Len(page), Total(boundRun))]
    BY <1>1 DEF ReadFirst, PageRows, Total
  <2> HIDE DEF page
  <2>5. NextCursor(boundRun, Len(page), Total(boundRun)) \in Cursors
    BY <2>1, <2>2, <2>3, CursorsTell
  <2>6. WalkHolds'
    BY <2>1, <2>3, <2>4, <2>5 DEF WalkHolds, Walks
  <2> QED BY <2>1, <2>4, <2>6 DEF PagesInv
<1>2. ASSUME NEW n \in PageSizes, ReadNext(n)
      PROVE  PagesInv'
  <2> DEFINE start == walk.next.offset
             page == Slice(ProjectResultRows(boundRun, tableSort), start, n)
             rows == walk.rows \o page
             total == Total(boundRun)
  <2>1. boundRun \in DOMAIN StoredRuns /\ tableSort \in Sorts \union {Unsorted} /\ n \in Nat
    BY ResultsPagesAssumption DEF PagesInv, ResultsPagesAssumption
  <2>2. /\ walk # NoWalk /\ walk.next # NoCursor /\ walk.next.runId = boundRun
        /\ UNCHANGED <<boundRun, tableSort>>
        /\ walk' = [walk EXCEPT !.rows = rows, !.steady = walk.steady /\ tableSort = walk.sort,
                                !.next = NextCursor(boundRun, start + Len(page), total)]
    BY <1>2 DEF ReadNext, PageRows, Total, DecodeCursor
  <2>3. total \in Nat
    BY <2>1, RunsAreFinite
  <2>4. /\ walk \in Walks /\ walk.runId = boundRun /\ walk.rows \in Seq(PageRow)
        /\ start = Len(walk.rows) /\ start \in 0..total /\ DOMAIN walk.rows = 1..start
        /\ \A k \in DOMAIN walk.rows : walk.rows[k].runId = boundRun
        /\ walk.steady =>
             \A k \in DOMAIN walk.rows : walk.rows[k] = ProjectResultRows(walk.runId, walk.sort)[k]
    BY <2>2, WalksAre DEF PagesInv
  <2>5. /\ page \in Seq(PageRow) /\ start + Len(page) <= total
        /\ \A k \in DOMAIN page :
             page[k] = ProjectResultRows(boundRun, tableSort)[start + k] /\ page[k].runId = boundRun
    <3> DEFINE P(o) == Slice(ProjectResultRows(boundRun, tableSort), o, n)
    <3>1. start \in 0..Total(boundRun)
      BY <2>4
    <3> HIDE DEF start, total
    <3>2. \A o \in 0..Total(boundRun) :
            /\ P(o) \in Seq(PageRow) /\ o + Len(P(o)) <= Total(boundRun)
            /\ \A k \in DOMAIN P(o) :
                 P(o)[k] = ProjectResultRows(boundRun, tableSort)[o + k] /\ P(o)[k].runId = boundRun
      BY <2>1, PagesAreCut
    <3> QED BY <3>1, <3>2 DEF total
  <2> HIDE DEF page, start, total
  <2>6. /\ rows \in Seq(PageRow) /\ Len(rows) = start + Len(page) /\ Len(page) \in Nat
        /\ \A k \in DOMAIN rows :
             \/ k \in DOMAIN walk.rows /\ rows[k] = walk.rows[k]
             \/ k - start \in DOMAIN page /\ rows[k] = page[k - start] /\ start + (k - start) = k
    BY <2>4, <2>5, SequencesJoin
  <2> HIDE DEF rows
  <2>7. \A k \in DOMAIN rows :
          /\ rows[k].runId = boundRun
          /\ walk.steady /\ tableSort = walk.sort => rows[k] = ProjectResultRows(walk.runId, walk.sort)[k]
    <3> SUFFICES ASSUME NEW k \in DOMAIN rows
                 PROVE  /\ rows[k].runId = boundRun
                        /\ walk.steady /\ tableSort = walk.sort =>
                             rows[k] = ProjectResultRows(walk.runId, walk.sort)[k]
      OBVIOUS
    <3>1. CASE k \in DOMAIN walk.rows /\ rows[k] = walk.rows[k]
      BY <2>4, <3>1
    <3>2. CASE k - start \in DOMAIN page /\ rows[k] = page[k - start] /\ start + (k - start) = k
      <4>1. page[k - start] = ProjectResultRows(boundRun, tableSort)[k] /\ page[k - start].runId = boundRun
        BY <2>5, <3>2
      <4> QED BY <2>4, <3>2, <4>1
    <3> QED BY <2>6, <3>1, <3>2
  <2>8. NextCursor(boundRun, Len(rows), total) \in Cursors
    BY <2>1, <2>3, <2>4, <2>5, <2>6, CursorsTell
  <2>9. /\ walk' \in Walks
        /\ walk'.runId = boundRun /\ walk'.sort = walk.sort /\ walk'.rows = rows
        /\ walk'.steady = (walk.steady /\ tableSort = walk.sort)
        /\ walk'.next = NextCursor(boundRun, Len(rows), total)
    BY <2>2, <2>4, <2>6, <2>8 DEF Walks
  <2>10. WalkHolds'
    <3>1. Len(walk'.rows) <= Total(walk'.runId)
      BY <2>5, <2>6, <2>9 DEF total
    <3>2. walk'.next = NextCursor(walk'.runId, Len(walk'.rows), Total(walk'.runId))
      BY <2>9 DEF total
    <3>3. /\ \A k \in DOMAIN walk'.rows : walk'.rows[k].runId = walk'.runId
          /\ walk'.steady =>
               \A k \in DOMAIN walk'.rows : walk'.rows[k] = ProjectResultRows(walk'.runId, walk'.sort)[k]
      BY <2>4, <2>7, <2>9
    <3> QED BY <2>9, <3>1, <3>2, <3>3 DEF WalkHolds
  <2> QED BY <2>1, <2>2, <2>10 DEF PagesInv
<1>3. ASSUME NEW r \in DOMAIN StoredRuns, BindPanelSource(r) \/ Evict(r)
      PROVE  PagesInv'
  BY <1>3 DEF BindPanelSource, Evict, PagesInv, WalkHolds
<1>4. ASSUME NEW s \in Sorts \union {Unsorted}, ConfigurePanelView(s)
      PROVE  PagesInv'
  BY <1>4 DEF ConfigurePanelView, PagesInv, WalkHolds
<1>5. CASE UNCHANGED pagesVars
  BY <1>5 DEF pagesVars, PagesInv, WalkHolds
<1> QED BY <1>1, <1>2, <1>3, <1>4, <1>5 DEF PagesNext

\* However a panel is bound, sorted and read meanwhile, and whatever the run
\* store lets go, a chain of cursors tiles one run (getScreenerResults.ts,
\* page.ts, projection.ts): for any runs, sorts and page sizes.
THEOREM PagesTileTheRun == PagesSpec => []PagesTile
<1>1. PagesInit => PagesInv
  BY DEF PagesInit, PagesInv, WalkHolds
<1>2. PagesInv => PagesTile
  <2> SUFFICES ASSUME PagesInv, walk # NoWalk
               PROVE  PagesTile
    BY DEF PagesTile
  <2> DEFINE whole == ProjectResultRows(walk.runId, walk.sort)
             n == Total(walk.runId)
  <2>1. /\ walk.runId \in DOMAIN StoredRuns /\ walk.sort \in Sorts \union {Unsorted}
        /\ walk.rows \in Seq(PageRow) /\ Len(walk.rows) \in 0..n /\ DOMAIN walk.rows = 1..Len(walk.rows)
        /\ walk.next = NoCursor <=> Len(walk.rows) = n
        /\ \A k \in DOMAIN walk.rows : walk.rows[k].runId = walk.runId
        /\ walk.steady => \A k \in DOMAIN walk.rows : walk.rows[k] = whole[k]
    BY WalksAre DEF PagesInv
  <2>2. n \in Nat /\ DOMAIN StoredRuns[walk.runId] = 1..n
    BY <2>1, RunsAreFinite
  <2>4. ASSUME walk.steady
        PROVE  IsPrefix(walk.rows, whole)
    <3>1. whole \in Seq(Range(whole)) /\ Len(whole) = n
      BY <2>2 DEF ProjectResultRows, Range
    <3> HIDE DEF whole, n
    <3> QED BY <2>1, <2>2, <2>4, <3>1 DEF IsPrefix
  <2>5. ASSUME walk.steady, walk.sort # Unsorted,
               NEW p \in DOMAIN walk.rows, NEW q \in DOMAIN walk.rows, p < q,
               ValueForCompare(StoredRuns[walk.runId], walk.sort.key, walk.rows[p].rank) = NoNumber
        PROVE  ValueForCompare(StoredRuns[walk.runId], walk.sort.key, walk.rows[q].rank) = NoNumber
    <3>1. p \in 1..n /\ q \in 1..n
      BY <2>1, <2>2
    <3>2. /\ walk.rows[p].rank = RowAt(StoredRuns[walk.runId], walk.sort, p)
          /\ walk.rows[q].rank = RowAt(StoredRuns[walk.runId], walk.sort, q)
      <4>1. \A k \in 1..n : whole[k].rank = RowAt(StoredRuns[walk.runId], walk.sort, k)
        BY <2>2 DEF ProjectResultRows
      <4> HIDE DEF whole
      <4> QED BY <2>1, <2>5, <3>1, <4>1
    <3>3. Measured(StoredRuns[walk.runId], walk.sort)
      BY <2>1, <2>5, RunsAreMeasured
    <3> QED BY <2>5, <3>1, <3>2, <3>3, NothingComesLast DEF Total
  <2> QED BY <2>1, <2>4, <2>5 DEF PagesTile, Total
<1> QED BY <1>1, <1>2, PagesInvNext, PTL DEF PagesSpec

-----------------------------------------------------------------------------
(* Backtests.  An answer must agree with its job from the moment it is      *)
(* given, so the invariant follows the call that is about to be answered    *)
(* as well; and since ids restart with the backend, that no id above        *)
(* lastJob is known to anyone.                                              *)

JobRecords == [status : {"created", "running", "completed", "failed"}, revision : Revisions,
               criteria : SUBSET Criteria]
CallRecords == [phase : {"idle", "sent", "served"}, key : Keys \union {NoKey},
                asked : Revisions \union {Current}, revision : Revisions \union {Current}, job : Nat]

BacktestsTyped ==
  /\ screener \in [current : Revisions, retained : SUBSET Revisions]
  /\ starting \in [Callers -> CallRecords]
  /\ jobs \in [DOMAIN jobs -> JobRecords]
  /\ lastJob \in Nat /\ DOMAIN jobs \subseteq 1..lastJob

\* A job applies what the engine can apply of its revision.
JobsApply == \A id \in DOMAIN jobs : jobs[id].criteria = UniverseOf[jobs[id].revision] \intersect EngineCriteria

\* What is told of a job, now or when the call returns, is of that job.
Tells(id, revision) ==
  /\ id \in 1..lastJob /\ (id \in Stored \union evicted \/ IsLost(id))
  /\ id \in Stored => jobs[id].revision = revision

CallsHold == \A c \in Callers :
  /\ starting[c].phase # "idle" => starting[c].revision \in Revisions
  /\ starting[c].phase = "served" => Tells(starting[c].job, starting[c].revision)

AnswersTell == \A a \in answers :
  Tells(a.job, a.revision) /\ a.dropped = DroppedCriteria(a.revision)

BacktestsInv == BacktestsTyped /\ JobsApply /\ CallsHold /\ AnswersTell

LEMMA BacktestsInvInit == BacktestsInit => BacktestsInv
  BY BacktestsAssumption
  DEF BacktestsInit, BacktestsInv, BacktestsTyped, JobsApply, CallsHold, AnswersTell, CallRecords, NoCall, Revisions

\* A job that goes is the one the eviction is at, or is remembered, and those
\* that stay keep all but their status: what was told stays true.
LEMMA StillTold ==
  ASSUME NEW gone, NEW id, NEW revision, Tells(id, revision),
         lastJob' = lastJob, DOMAIN jobs' = DOMAIN jobs \ gone,
         \A i \in DOMAIN jobs' : jobs'[i].revision = jobs[i].revision,
         evicted \subseteq evicted', \A i \in gone : IsLost(i)', IsLost(id) => (id \in evicted' \/ IsLost(id)')
  PROVE  Tells(id, revision)'
  BY DEF Tells, Stored

LEMMA JobsMove ==
  ASSUME BacktestsInv, NEW gone, UNCHANGED <<screener, starting, answers, lastJob>>,
         jobs' \in [DOMAIN jobs \ gone -> JobRecords],
         \A i \in DOMAIN jobs' : jobs'[i].revision = jobs[i].revision /\ jobs'[i].criteria = jobs[i].criteria,
         evicted \subseteq evicted', \A i \in gone : IsLost(i)',
         \A i : IsLost(i) => (i \in evicted' \/ IsLost(i)')
  PROVE  BacktestsInv'
<1>1. DOMAIN jobs' = DOMAIN jobs \ gone
  OBVIOUS
<1>2. BacktestsTyped' /\ JobsApply'
  BY <1>1 DEF BacktestsInv, BacktestsTyped, JobsApply
<1>3. CallsHold'
  BY <1>1, StillTold DEF BacktestsInv, CallsHold
<1>4. AnswersTell'
  BY <1>1, StillTold DEF BacktestsInv, AnswersTell
<1> QED BY <1>2, <1>3, <1>4 DEF BacktestsInv

\* A status is set, and the event loop may begin to evict.
LEMMA StatusMoves ==
  ASSUME BacktestsInv, NEW id \in DOMAIN jobs,
         NEW status \in {"created", "running", "completed", "failed"}
  PROVE  /\ WithStatus(id, status) \in [DOMAIN jobs -> JobRecords]
         /\ \A i \in DOMAIN jobs : /\ WithStatus(id, status)[i].revision = jobs[i].revision
                                   /\ WithStatus(id, status)[i].criteria = jobs[i].criteria
  BY DEF BacktestsInv, BacktestsTyped, WithStatus, JobRecords

LEMMA StatusKept ==
  ASSUME BacktestsInv, NEW id \in DOMAIN jobs, LoopIsFree,
         NEW status \in {"created", "running", "completed", "failed"},
         jobs' = WithStatus(id, status), UNCHANGED <<screener, starting, answers, evicted, lastJob>>
  PROVE  BacktestsInv'
<1> PICK none : none = {}
  OBVIOUS
<1>1. \A i : IsLost(i) => (i \in evicted' \/ IsLost(i)')
  BY DEF IsLost
<1>2. jobs' \in [DOMAIN jobs \ none -> JobRecords]
  BY StatusMoves
<1>3. \A i \in DOMAIN jobs' : jobs'[i].revision = jobs[i].revision /\ jobs'[i].criteria = jobs[i].criteria
  BY <1>2, StatusMoves
<1>4. (\A i \in none : IsLost(i)') /\ evicted \subseteq evicted'
  OBVIOUS
<1> QED BY <1>1, <1>2, <1>3, <1>4, JobsMove

LEMMA BacktestsInvNext == BacktestsInv /\ [BacktestsNext]_backtestVars => BacktestsInv'
<1> SUFFICES ASSUME BacktestsInv, [BacktestsNext]_backtestVars
             PROVE  BacktestsInv'
  OBVIOUS
<1> USE BacktestsAssumption
<1>1. CASE EditScreener
  BY <1>1 DEF EditScreener, serverVars, BacktestsInv, BacktestsTyped, JobsApply, CallsHold, AnswersTell, Tells, Stored, IsLost, LoopIsFree
<1>2. ASSUME NEW revision \in Revisions, ForgetRevision(revision)
      PROVE  BacktestsInv'
  BY <1>2 DEF ForgetRevision, serverVars, BacktestsInv, BacktestsTyped, JobsApply, CallsHold, AnswersTell, Tells, Stored, IsLost, LoopIsFree
<1>3. ASSUME NEW c \in Callers, NEW key \in Keys \union {NoKey}, NEW asked \in Revisions \union {Current},
             CallBacktest(c, key, asked)
      PROVE  BacktestsInv'
  BY <1>3 DEF CallBacktest, serverVars, BacktestsInv, BacktestsTyped, JobsApply, CallsHold, AnswersTell, Tells, Stored, IsLost, LoopIsFree, CallRecords
<1>4. ASSUME NEW c \in Callers, StartBacktest(c)
      PROVE  BacktestsInv'
  <2> DEFINE new == lastJob + 1
             revision == starting[c].revision
             job == [status |-> "created", revision |-> revision,
                     criteria |-> UniverseOf[revision] \intersect EngineCriteria]
  <2>1. /\ lastJob' = new /\ new \notin DOMAIN jobs
        /\ jobs' = [id \in DOMAIN jobs \union {new} |-> IF id = new THEN job ELSE jobs[id]]
        /\ UNCHANGED <<screener, answers, evicted>>
    BY <1>4 DEF StartBacktest, CreateJob, Stored, BacktestsInv, BacktestsTyped
  <2>9. \A i : ~IsLost(i) /\ ~IsLost(i)'
    BY <1>4 DEF StartBacktest, IsLost, LoopIsFree
  <2>10. /\ starting' \in [Callers -> CallRecords]
         /\ \A d \in Callers \ {c} : starting'[d] = starting[d]
         /\ starting'[c].phase = "served" /\ starting'[c].job = new /\ starting'[c].revision = revision
    <3>1. starting \in [Callers -> CallRecords] /\ new \in Nat
      BY DEF BacktestsInv, BacktestsTyped
    <3>2. starting' = [starting EXCEPT ![c].phase = "served", ![c].job = new]
      BY <1>4 DEF StartBacktest
    <3> DEFINE marked == [starting EXCEPT ![c].phase = "served"]
    <3> HIDE DEF new
    <3>3. /\ marked \in [Callers -> CallRecords]
          /\ \A d \in Callers \ {c} : marked[d] = starting[d]
          /\ marked[c].phase = "served" /\ marked[c].revision = starting[c].revision
      BY <3>1 DEF CallRecords
    <3>4. starting' = [marked EXCEPT ![c].job = new]
      BY <3>1, <3>2
    <3> HIDE DEF marked
    <3> QED BY <3>1, <3>3, <3>4 DEF CallRecords
  <2>2. revision \in Revisions /\ job \in JobRecords
    BY <1>4 DEF StartBacktest, BacktestsInv, CallsHold, BacktestsTyped, CallRecords, JobRecords, Revisions
  <2> HIDE DEF job
  <2>3. BacktestsTyped'
    <3>1. jobs' \in [DOMAIN jobs' -> JobRecords] /\ DOMAIN jobs' \subseteq 1..lastJob' /\ lastJob' \in Nat
      BY <2>1, <2>2 DEF BacktestsInv, BacktestsTyped
    <3> QED BY <2>1, <2>10, <3>1 DEF BacktestsInv, BacktestsTyped
  <2>4. JobsApply'
    BY <2>1 DEF BacktestsInv, JobsApply, job
  <2>5. \A id, r : Tells(id, r) => Tells(id, r)'
    BY <2>1, <2>9 DEF Tells, Stored, BacktestsInv, BacktestsTyped
  <2>6. new \in 1..lastJob' /\ new \in DOMAIN jobs' /\ jobs'[new].revision = revision
    <3>1. new \in 1..lastJob'
      BY <2>1 DEF BacktestsInv, BacktestsTyped
    <3> QED BY <2>1, <3>1 DEF job
  <2>7. CallsHold'
    <3> SUFFICES ASSUME NEW d \in Callers
                 PROVE  /\ starting'[d].phase # "idle" => starting'[d].revision \in Revisions
                        /\ starting'[d].phase = "served" =>
                             /\ starting'[d].job \in 1..lastJob'
                             /\ starting'[d].job \in DOMAIN jobs' \union evicted'
                             /\ starting'[d].job \in DOMAIN jobs' =>
                                  jobs'[starting'[d].job].revision = starting'[d].revision
      BY DEF CallsHold, Tells, Stored, Revisions
    <3>1. CASE d = c
      BY <3>1, <2>10, <2>2, <2>6, Zenon
    <3>2. CASE d # c
      <4>1. starting'[d] = starting[d]
        BY <2>10, <3>2
      <4>2. /\ starting[d].phase # "idle" => starting[d].revision \in Revisions
            /\ starting[d].phase = "served" => Tells(starting[d].job, starting[d].revision)
        BY DEF BacktestsInv, CallsHold
      <4>3. PICK id, r : id = starting[d].job /\ r = starting[d].revision
        OBVIOUS
      <4>4. Tells(id, r) => /\ id \in 1..lastJob' /\ id \in DOMAIN jobs' \union evicted'
                            /\ id \in DOMAIN jobs' => jobs'[id].revision = r
        BY <2>5, <2>9 DEF Tells, Stored
      <4> QED BY <4>1, <4>2, <4>3, <4>4 DEF Tells
    <3> QED BY <3>1, <3>2
  <2>8. AnswersTell'
    BY <2>1, <2>5 DEF BacktestsInv, AnswersTell
  <2> QED BY <2>3, <2>4, <2>7, <2>8 DEF BacktestsInv
<1>5. ASSUME NEW c \in Callers, AnswerCall(c)
      PROVE  BacktestsInv'
  BY <1>5 DEF AnswerCall, serverVars, BacktestsInv, BacktestsTyped, JobsApply, CallsHold, AnswersTell, Tells, Stored, IsLost, LoopIsFree, CallRecords, NoCall
<1>6. ASSUME NEW c \in Callers, LoseCall(c)
      PROVE  BacktestsInv'
  BY <1>6 DEF LoseCall, serverVars, BacktestsInv, BacktestsTyped, JobsApply, CallsHold, AnswersTell, Tells, Stored, IsLost, LoopIsFree, CallRecords, NoCall
<1>7. ASSUME NEW id \in BacktestIds, BeginEvaluation(id)
      PROVE  BacktestsInv'
  <2>1. id \in DOMAIN jobs /\ jobs' = WithStatus(id, "running")
    BY <1>7 DEF BeginEvaluation, Stored
  <2> QED BY <1>7, <2>1, StatusKept DEF BeginEvaluation
<1>8. ASSUME NEW id \in BacktestIds, FinishEvaluation(id)
      PROVE  BacktestsInv'
  <2>1. id \in DOMAIN jobs /\ jobs' = WithStatus(id, Outcome(id))
    BY <1>8 DEF FinishEvaluation, Stored
  <2>2. Outcome(id) \in {"failed", "completed"}
    BY DEF Outcome
  <2> QED BY <1>8, <2>1, <2>2, StatusKept DEF FinishEvaluation
<1>9. ASSUME NEW id \in BacktestIds, NEW other \in BacktestIds, FinishDisturbed(id, other)
      PROVE  BacktestsInv'
  <2>1. id \in DOMAIN jobs /\ jobs' = WithStatus(id, Outcome(id))
    BY <1>9 DEF FinishDisturbed, Stored
  <2>2. Outcome(id) \in {"failed", "completed"}
    BY DEF Outcome
  <2> QED BY <1>9, <2>1, <2>2, StatusKept DEF FinishDisturbed
<1>10. ASSUME NEW id \in BacktestIds, ReadBacktest(id)
       PROVE  BacktestsInv'
  BY <1>10 DEF ReadBacktest, BacktestsInv, BacktestsTyped, JobsApply, CallsHold, AnswersTell, Tells, Stored, IsLost, LoopIsFree
<1>11. CASE DeleteOldest
  <2> DEFINE oldest == Head(evicting)
  <2>1. /\ UNCHANGED <<screener, starting, answers, evicted, evicting, lastJob>> /\ evicting # <<>>
        /\ jobs' = [i \in DOMAIN jobs \ {oldest} |-> jobs[i]]
    BY <1>11 DEF DeleteOldest, Stored, LoopIsFree
  <2>2. \A i \in {oldest} : IsLost(i)'
    BY <2>1 DEF IsLost, LoopIsFree, Stored
  <2>3. \A i : IsLost(i) => IsLost(i)'
    BY <2>1 DEF IsLost, LoopIsFree, Stored
  <2>4. jobs' \in [DOMAIN jobs \ {oldest} -> JobRecords]
    BY <2>1 DEF BacktestsInv, BacktestsTyped
  <2>5. \A i \in DOMAIN jobs' : jobs'[i].revision = jobs[i].revision /\ jobs'[i].criteria = jobs[i].criteria
    BY <2>1
  <2> HIDE DEF oldest
  <2> QED BY <2>1, <2>2, <2>3, <2>4, <2>5, JobsMove
<1>12. CASE RememberOldest
  <2> PICK none : none = {}
    OBVIOUS
  <2>1. /\ UNCHANGED <<screener, starting, answers, jobs, lastJob>>
        /\ evicted' = evicted \union {Head(evicting)}
    BY <1>12 DEF RememberOldest
  <2>2. (\A i : IsLost(i) => (i \in evicted' \/ IsLost(i)')) /\ evicted \subseteq evicted'
    BY <2>1 DEF IsLost
  <2>3. jobs' \in [DOMAIN jobs \ none -> JobRecords]
    BY <2>1 DEF BacktestsInv, BacktestsTyped
  <2>4. /\ \A i \in none : IsLost(i)'
        /\ \A i \in DOMAIN jobs' : jobs'[i].revision = jobs[i].revision /\ jobs'[i].criteria = jobs[i].criteria
    BY <2>1
  <2> QED BY <2>1, <2>2, <2>3, <2>4, JobsMove
<1>13. CASE RestartBackend
  BY <1>13 DEF RestartBackend, BacktestsInv, BacktestsTyped, JobsApply, CallsHold, AnswersTell, Tells, Stored, IsLost, LoopIsFree, CallRecords, NoCall
<1>14. CASE ReloadBacktests
  BY <1>14 DEF ReloadBacktests, serverVars, BacktestsInv, BacktestsTyped, JobsApply, CallsHold, AnswersTell, Tells, Stored, IsLost, LoopIsFree, CallRecords, NoCall
<1>15. CASE UNCHANGED backtestVars
  BY <1>15 DEF backtestVars, BacktestsInv, BacktestsTyped, JobsApply, CallsHold, AnswersTell, Tells, Stored, IsLost, LoopIsFree
<1> QED
  BY <1>1, <1>2, <1>3, <1>4, <1>5, <1>6, <1>7, <1>8, <1>9, <1>10, <1>11, <1>12, <1>13, <1>14, <1>15 DEF BacktestsNext

\* Whatever is edited, pruned, lost, evicted or restarted, an answer names the
\* revision its job evaluates and the criteria it leaves out, and its job can
\* be read or is known to be evicted (backtestScreener.ts, backtest_jobs.py).
THEOREM AnswersStayTrue == BacktestsSpec => []AnswersHold
<1>1. BacktestsInv => AnswersHold
  BY BacktestsAssumption
  DEF BacktestsInv, BacktestsTyped, JobsApply, AnswersTell, Tells, AnswersHold, DroppedCriteria, Stored
<1> QED
  BY BacktestsInvInit, BacktestsInvNext, <1>1, PTL DEF BacktestsSpec

-----------------------------------------------------------------------------
(* Watchlists.                                                             *)

\* What FirstOf returns: instruments of ids not known before, none of them twice.
LEMMA FirstsAreNew ==
  ASSUME NEW T, NEW ids \in Seq(T), NEW known
  PROVE  LET new == FirstOf(ids, known)
         IN  /\ new \in Seq(T) /\ Len(new) \in Nat /\ DOMAIN new = 1..Len(new)
             /\ \A i, j \in DOMAIN new : new[i] = new[j] => i = j
             /\ \A i \in DOMAIN new : new[i] \in T /\ new[i] \in ToSet(ids) /\ new[i] \notin known
<1> DEFINE first == {i \in DOMAIN ids : ids[i] \notin known /\ \A j \in 1..i - 1 : ids[j] # ids[i]}
           c == Cardinality(first)
           at == Ascending(first)
           new == FirstOf(ids, known)
<1>1. DOMAIN ids = 1..Len(ids) /\ Len(ids) \in Nat /\ \A i \in DOMAIN ids : ids[i] \in T
  OBVIOUS
<1>2. first \in SUBSET Int /\ first \in SUBSET (1..Len(ids))
  BY <1>1
<1>3. IsFiniteSet(first)
  <2>1. IsFiniteSet(1..Len(ids))
    BY <1>1, FS_Interval
  <2> HIDE DEF first
  <2> QED BY <2>1, <1>2, FS_Subset
<1>4. \A i \in first : /\ i \in DOMAIN ids /\ ids[i] \notin known /\ i \in Int
                       /\ \A j \in first : j < i => ids[j] # ids[i]
  BY <1>1
<1>5. new = [n \in 1..c |-> ids[at[n]]]
  BY DEF FirstOf, Picked
<1> HIDE DEF first
<1>6. c \in Nat /\ at \in [1..c -> first] /\ \A m, n \in 1..c : m < n => at[m] < at[n]
  BY <1>2, <1>3, AscendingEnumerates
<1> HIDE DEF c, at, new
<1>7. \A n \in 1..c : at[n] \in first
  BY <1>6
<1>8. \A n \in 1..c : new[n] \in T /\ new[n] \in ToSet(ids) /\ new[n] \notin known
  BY <1>1, <1>4, <1>5, <1>7 DEF ToSet
<1>9. new \in Seq(T) /\ Len(new) = c /\ DOMAIN new = 1..c
  BY <1>5, <1>6, <1>8
<1>10. ASSUME NEW i \in 1..c, NEW j \in 1..c, new[i] = new[j] PROVE i = j
  <2>1. new[i] = ids[at[i]] /\ new[j] = ids[at[j]] /\ at[i] \in first /\ at[j] \in first
    BY <1>5, <1>7
  <2>2. ~(at[i] < at[j]) /\ ~(at[j] < at[i])
    BY <2>1, <1>4, <1>10
  <2>3. ~(i < j) /\ ~(j < i)
    BY <2>2, <1>6
  <2> QED BY <2>3, <1>6
<1> QED BY <1>6, <1>8, <1>9, <1>10 DEF new

-----------------------------------------------------------------------------
(* The members of a list: no instrument twice, and each from where it says.  *)

Members == [instrument: Instruments, source: DOMAIN RunMatches \union {Manual}]
Honest(members) ==
  /\ members \in Seq(Members)
  /\ \A i, j \in DOMAIN members : members[i].instrument = members[j].instrument => i = j
  /\ \A i \in DOMAIN members :
       members[i].source # Manual => members[i].instrument \in ToSet(RunMatches[members[i].source])
Agree(members, others) ==
  \A i \in DOMAIN members, j \in DOMAIN others :
    members[i].instrument = others[j].instrument => members[i].source = others[j].source

LEMMA MemberIs ==
  ASSUME NEW i \in Instruments, NEW s \in DOMAIN RunMatches \union {Manual}
  PROVE  Member(i, s) \in Members /\ Member(i, s).instrument = i /\ Member(i, s).source = s
BY DEF Member, Members

LEMMA BuiltIsHonest ==
  ASSUME NEW ids \in Seq(Instruments), NEW former, Honest(former)
  PROVE  LET built == BuildStaticMembers(ids, former)
         IN  Honest(built) /\ Agree(former, built)
<1> DEFINE distinct == Deduped(ids)
           built == BuildStaticMembers(ids, former)
           had(id) == {m \in ToSet(former) : m.instrument = id}
<1>1. /\ distinct \in Seq(Instruments) /\ Len(distinct) \in Nat /\ DOMAIN distinct = 1..Len(distinct)
      /\ \A i, j \in DOMAIN distinct : distinct[i] = distinct[j] => i = j
      /\ \A i \in DOMAIN distinct : distinct[i] \in Instruments
  BY FirstsAreNew DEF Deduped
<1>2. built = [i \in DOMAIN distinct |->
                 IF distinct[i] \in InstrumentsOf(former)
                 THEN CHOOSE m \in ToSet(former) : m.instrument = distinct[i]
                 ELSE Member(distinct[i], Manual)]
  BY DEF BuildStaticMembers
<1> HIDE DEF distinct, built
<1>3. ASSUME NEW i \in DOMAIN distinct
      PROVE  /\ built[i] \in Members /\ built[i].instrument = distinct[i]
             /\ built[i].source # Manual => built[i].instrument \in ToSet(RunMatches[built[i].source])
             /\ \A j \in DOMAIN former : former[j].instrument = distinct[i] => built[i] = former[j]
  <2>1. CASE distinct[i] \in InstrumentsOf(former)
    <3>1. \E m \in ToSet(former) : m.instrument = distinct[i]
      BY <2>1 DEF InstrumentsOf
    <3>2. built[i] \in ToSet(former) /\ built[i].instrument = distinct[i]
      BY <3>1, <2>1, <1>2
    <3>3. PICK k \in DOMAIN former : built[i] = former[k]
      BY <3>2 DEF ToSet
    <3> QED BY <3>2, <3>3 DEF Honest
  <2>2. CASE distinct[i] \notin InstrumentsOf(former)
    <3>1. built[i] = Member(distinct[i], Manual) /\ distinct[i] \in Instruments
      BY <2>2, <1>2, <1>1
    <3>2. \A j \in DOMAIN former : former[j].instrument # distinct[i]
      BY <2>2 DEF InstrumentsOf, ToSet
    <3> QED BY <3>1, <3>2, MemberIs
  <2> QED BY <2>1, <2>2
<1>4. built \in Seq(Members) /\ DOMAIN built = DOMAIN distinct
  <2>1. DOMAIN built = 1..Len(distinct) /\ built = [i \in 1..Len(distinct) |-> built[i]]
    BY <1>1, <1>2
  <2>2. \A i \in 1..Len(distinct) : built[i] \in Members
    BY <1>1, <1>3
  <2> QED BY <1>1, <2>1, <2>2
<1>5. Honest(built)
  BY <1>1, <1>3, <1>4 DEF Honest
<1>6. Agree(former, built)
  BY <1>3, <1>4 DEF Agree
<1> QED BY <1>5, <1>6 DEF built

LEMMA JoinIs ==
  ASSUME NEW S, NEW s \in Seq(S), NEW t \in Seq(S)
  PROVE  /\ Len(s) \in Nat /\ Len(t) \in Nat /\ DOMAIN s = 1..Len(s) /\ DOMAIN t = 1..Len(t)
         /\ s \o t \in Seq(S) /\ DOMAIN (s \o t) = 1..Len(s) + Len(t)
         /\ \A i \in DOMAIN s : i \in DOMAIN (s \o t) /\ (s \o t)[i] = s[i]
         /\ \A i \in DOMAIN (s \o t) \ DOMAIN s : i - Len(s) \in DOMAIN t /\ (s \o t)[i] = t[i - Len(s)]
OBVIOUS

LEMMA AddedIsHonest ==
  ASSUME NEW run \in DOMAIN RunMatches, NEW ids \in Seq(Instruments), ToSet(ids) \subseteq ToSet(RunMatches[run]),
         NEW members, Honest(members)
  PROVE  LET all == AddMembers(members, ids, run)
         IN  Honest(all) /\ Agree(members, all)
<1> DEFINE new == FirstOf(ids, InstrumentsOf(members))
           tail == [i \in DOMAIN new |-> Member(new[i], run)]
           all == AddMembers(members, ids, run)
<1>1. /\ new \in Seq(Instruments) /\ Len(new) \in Nat /\ DOMAIN new = 1..Len(new)
      /\ \A i, j \in DOMAIN new : new[i] = new[j] => i = j
      /\ \A i \in DOMAIN new : new[i] \in Instruments /\ new[i] \in ToSet(ids) /\ new[i] \notin InstrumentsOf(members)
  BY FirstsAreNew
<1>2. all = members \o tail
  BY DEF AddMembers
<1> HIDE DEF new
<1>3. \A i \in DOMAIN new : tail[i] \in Members /\ tail[i].instrument = new[i] /\ tail[i].source = run
  BY <1>1, MemberIs
<1>4. tail \in Seq(Members) /\ Len(tail) = Len(new) /\ DOMAIN tail = DOMAIN new
  BY <1>1, <1>3
<1> HIDE DEF tail, all
<1>5. /\ members \in Seq(Members) /\ Len(members) \in Nat /\ DOMAIN members = 1..Len(members)
      /\ all \in Seq(Members) /\ DOMAIN all = 1..Len(members) + Len(tail)
      /\ \A i \in DOMAIN members : i \in DOMAIN all /\ all[i] = members[i]
      /\ \A i \in DOMAIN all \ DOMAIN members : i - Len(members) \in DOMAIN tail /\ all[i] = tail[i - Len(members)]
  <2>1. members \in Seq(Members)
    BY Zenon DEF Honest
  <2>2. tail \in Seq(Members)
    BY <1>4
  <2>3. PICK m0, t0, a0 : m0 = members /\ t0 = tail /\ a0 = all
    OBVIOUS
  <2>4. m0 \in Seq(Members) /\ t0 \in Seq(Members) /\ a0 = m0 \o t0
    BY <2>1, <2>2, <2>3, <1>2
  <2> QED BY <2>3, <2>4, JoinIs
<1>6. \A i \in DOMAIN members, j \in DOMAIN tail : members[i].instrument # tail[j].instrument
  BY <1>1, <1>3, <1>4 DEF InstrumentsOf, ToSet
<1>7. \A i, j \in DOMAIN all : all[i].instrument = all[j].instrument => i = j
  <2> SUFFICES ASSUME NEW i \in DOMAIN all, NEW j \in DOMAIN all, all[i].instrument = all[j].instrument
               PROVE  i = j
    OBVIOUS
  <2>1. CASE i \in DOMAIN members /\ j \in DOMAIN members
    BY <2>1, <1>5 DEF Honest
  <2>2. CASE i \notin DOMAIN members /\ j \notin DOMAIN members
    <3> DEFINE k == i - Len(members)
               l == j - Len(members)
    <3>1. k \in DOMAIN tail /\ l \in DOMAIN tail /\ tail[k].instrument = tail[l].instrument
      BY <2>2, <1>5
    <3>2. k = l
      BY <3>1, <1>1, <1>3, <1>4
    <3> QED BY <3>2, <1>5
  <2> QED BY <2>1, <2>2, <1>5, <1>6
<1>8. \A i \in DOMAIN all : all[i].source # Manual => all[i].instrument \in ToSet(RunMatches[all[i].source])
  <2> SUFFICES ASSUME NEW i \in DOMAIN all, all[i].source # Manual
               PROVE  all[i].instrument \in ToSet(RunMatches[all[i].source])
    OBVIOUS
  <2>1. CASE i \in DOMAIN members
    BY <2>1, <1>5 DEF Honest
  <2>2. CASE i \notin DOMAIN members
    BY <2>2, <1>5, <1>4, <1>3, <1>1
  <2> QED BY <2>1, <2>2
<1>9. Agree(members, all)
  <2> SUFFICES ASSUME NEW i \in DOMAIN members, NEW j \in DOMAIN all, members[i].instrument = all[j].instrument
               PROVE  members[i].source = all[j].source
    BY DEF Agree
  <2> QED BY <1>5, <1>7
<1> QED BY <1>5, <1>7, <1>8, <1>9 DEF Honest, all

-----------------------------------------------------------------------------
(* The document, and the one that undo would bring back: they differ in no   *)
(* member's source, in either direction.                                     *)

HonestLists ==
  {list \in [kind: {"static"}, members: Seq(Members)] : Honest(list.members)}
    \union [kind: {"dynamic"}, screener: Screeners]
Desks == [lists: UNION {[held -> HonestLists] : held \in SUBSET ListIds}, universe: [Screeners -> SUBSET ListIds]]
SameSources(list, other) ==
  list.kind = "static" /\ other.kind = "static" => Agree(list.members, other.members)
DesksAgree(doc, other) ==
  \A w \in DOMAIN doc.lists \intersect DOMAIN other.lists : SameSources(doc.lists[w], other.lists[w])

WatchInv ==
  /\ lastList \in 0..MaxLists /\ heldRuns \subseteq DOMAIN RunMatches
  /\ desk \in Desks /\ DOMAIN desk.lists \subseteq 1..lastList
  /\ deskBefore # NoDesk =>
       /\ deskBefore \in Desks /\ DOMAIN deskBefore.lists \subseteq 1..lastList
       /\ DesksAgree(desk, deskBefore)

LEMMA ListsAre ==
  ASSUME NEW list \in HonestLists
  PROVE  /\ list.kind \in {"static", "dynamic"}
         /\ list.kind = "static" => Honest(list.members)
         /\ list.kind = "dynamic" => list.screener \in Screeners
         /\ SameSources(list, list)
BY DEF HonestLists, SameSources, Agree, Honest

LEMMA StaticIs ==
  ASSUME NEW members, Honest(members)
  PROVE  /\ Static(members) \in HonestLists /\ Static(members).kind = "static"
         /\ Static(members).members = members
<1>1. members \in Seq(Members)
  BY Zenon DEF Honest
<1> HIDE DEF Honest
<1> QED BY <1>1 DEF Static, HonestLists

LEMMA DynamicIs ==
  ASSUME NEW s \in Screeners
  PROVE  Dynamic(s) \in HonestLists /\ Dynamic(s).kind = "dynamic" /\ Dynamic(s).screener = s
BY DEF Dynamic, HonestLists

LEMMA NothingIsHonest == Honest(<<>>) /\ \A members : Agree(members, <<>>) /\ Agree(<<>>, members)
BY DEF Honest, Agree

LEMMA DesksAre ==
  ASSUME NEW doc \in Desks
  PROVE  /\ doc = [lists |-> doc.lists, universe |-> doc.universe]
         /\ doc.universe \in [Screeners -> SUBSET ListIds]
         /\ DOMAIN doc.lists \subseteq ListIds /\ doc.lists \in [DOMAIN doc.lists -> HonestLists]
         /\ \A w \in DOMAIN doc.lists : doc.lists[w] \in HonestLists
BY DEF Desks

\* A list is written: the rest of the document is as it was.
LEMMA WrittenIs ==
  ASSUME desk \in Desks, NEW w \in ListIds, NEW list \in HonestLists
  PROVE  LET doc == WriteWatchlist(w, list)
         IN  /\ doc \in Desks /\ doc.universe = desk.universe
             /\ DOMAIN doc.lists = DOMAIN desk.lists \union {w} /\ doc.lists[w] = list
             /\ \A v \in DOMAIN desk.lists \ {w} : doc.lists[v] = desk.lists[v]
<1> DEFINE lists == [v \in DOMAIN desk.lists \union {w} |-> IF v = w THEN list ELSE desk.lists[v]]
<1>1. /\ desk = [lists |-> desk.lists, universe |-> desk.universe]
      /\ desk.universe \in [Screeners -> SUBSET ListIds]
      /\ DOMAIN desk.lists \subseteq ListIds /\ \A v \in DOMAIN desk.lists : desk.lists[v] \in HonestLists
  BY DesksAre
<1>2. lists \in [DOMAIN desk.lists \union {w} -> HonestLists]
  BY <1>1
<1>3. lists \in UNION {[held -> HonestLists] : held \in SUBSET ListIds}
  BY <1>1, <1>2
<1>4. WriteWatchlist(w, list) = [lists |-> lists, universe |-> desk.universe]
  <2>1. WriteWatchlist(w, list) = [desk EXCEPT !.lists = lists]
    BY DEF WriteWatchlist
  <2> HIDE DEF lists
  <2>2. [desk EXCEPT !.lists = lists] = [lists |-> lists, universe |-> desk.universe]
    BY <1>1
  <2> QED BY <2>1, <2>2
<1>5. /\ DOMAIN lists = DOMAIN desk.lists \union {w} /\ lists[w] = list
      /\ \A v \in DOMAIN desk.lists \ {w} : lists[v] = desk.lists[v]
  OBVIOUS
<1> HIDE DEF lists
<1> QED BY <1>1, <1>3, <1>4, <1>5 DEF Desks

LEMMA WriteKeeps ==
  ASSUME WatchInv, NEW w \in ListIds, NEW list \in HonestLists, Change(WriteWatchlist(w, list)),
         lastList' \in lastList..MaxLists, w <= lastList', UNCHANGED heldRuns,
         w \in DOMAIN desk.lists => SameSources(desk.lists[w], list)
  PROVE  WatchInv' /\ DesksAgree(desk, desk') /\ desk'.universe = desk.universe
<1>1. /\ desk' \in Desks /\ desk'.universe = desk.universe
      /\ DOMAIN desk'.lists = DOMAIN desk.lists \union {w} /\ desk'.lists[w] = list
      /\ \A v \in DOMAIN desk.lists \ {w} : desk'.lists[v] = desk.lists[v]
  BY WrittenIs DEF WatchInv, Change
<1>2. deskBefore' = desk
  BY DEF Change
<1>3. \A v \in DOMAIN desk.lists : SameSources(desk.lists[v], desk.lists[v])
  BY DesksAre, ListsAre DEF WatchInv
<1>4. DesksAgree(desk, desk')
  BY <1>1, <1>3 DEF DesksAgree
<1>5. DesksAgree(desk', desk)
  BY <1>4 DEF DesksAgree, SameSources, Agree
<1>6. lastList \in Int /\ MaxLists \in Int /\ w \in Int /\ 1 <= w
  BY WatchlistsAssumption DEF WatchInv, WatchlistsAssumption, ListIds
<1>7. /\ lastList' \in 0..MaxLists /\ DOMAIN desk'.lists \subseteq 1..lastList'
      /\ DOMAIN desk.lists \subseteq 1..lastList'
  BY <1>1, <1>6 DEF WatchInv
<1> QED BY <1>1, <1>2, <1>4, <1>5, <1>7 DEF WatchInv

\* A set of numbers within bounds has a greatest one.
LEMMA HighestThere ==
  ASSUME NEW n \in Nat, NEW S \in SUBSET (1..n), S # {}
  PROVE  \E w \in S : \A v \in S : v <= w
<1> DEFINE c == Cardinality(S)
           top == Ascending(S)[c]
<1>1. S \in SUBSET Int /\ IsFiniteSet(S)
  <2>1. IsFiniteSet(1..n)
    BY FS_Interval
  <2>2. IsFiniteSet(S)
    BY <2>1, FS_Subset
  <2>3. \A k \in S : k \in Int
    OBVIOUS
  <2> QED BY <2>2, <2>3
<1>2. /\ c \in Nat /\ c # 0 /\ \A k \in S : Rank(S, k) + 1 \in 1..c /\ Ascending(S)[Rank(S, k) + 1] = k
      /\ Ascending(S) \in [1..c -> S] /\ \A i, j \in 1..c : i < j => Ascending(S)[i] < Ascending(S)[j]
  BY <1>1, AscendingEnumerates, FS_EmptySet
<1> HIDE DEF c
<1>3. top \in S /\ \A k \in S : k = top \/ k < top
  <2>1. ASSUME NEW k \in S PROVE k = top \/ k < top
    <3> DEFINE i == Rank(S, k) + 1
    <3>1. i \in 1..c /\ Ascending(S)[i] = k
      BY <1>2
    <3> HIDE DEF i
    <3> QED BY <3>1, <1>2
  <2> QED BY <2>1, <1>2
<1>4. \A k \in S : k \in Int
  OBVIOUS
<1> HIDE DEF top
<1> QED BY <1>3, <1>4

LEMMA WatchInvNext ==
  ASSUME WatchInv, [WatchlistsNext]_watchlistVars
  PROVE  WatchInv' /\ DesksAgree(desk, desk')
<1> USE WatchlistsAssumption DEF WatchlistsAssumption
<1>0. /\ \A w \in DOMAIN desk.lists : w \in ListIds /\ w \in Int /\ w <= lastList /\ desk.lists[w] \in HonestLists
      /\ lastList \in Nat /\ MaxLists \in Nat /\ lastList <= MaxLists
  BY DesksAre DEF WatchInv, ListIds
<1>a. DesksAgree(desk, desk)
  BY DesksAre, ListsAre DEF WatchInv, DesksAgree
<1>1. ASSUME NEW list \in HonestLists, CreateWatchlist(list)
      PROVE  WatchInv' /\ DesksAgree(desk, desk')
  <2>1. /\ lastList + 1 \in ListIds /\ lastList' \in lastList..MaxLists /\ lastList + 1 <= lastList'
        /\ lastList + 1 \notin DOMAIN desk.lists
        /\ Change(WriteWatchlist(lastList + 1, list)) /\ UNCHANGED heldRuns
    BY <1>0, <1>1 DEF CreateWatchlist, ListIds
  <2> QED BY <2>1, WriteKeeps
<1>2. ASSUME NEW w \in ListIds, NEW list \in HonestLists, w \in DOMAIN desk.lists,
             Change(WriteWatchlist(w, list)), UNCHANGED <<lastList, heldRuns>>,
             SameSources(desk.lists[w], list)
      PROVE  WatchInv' /\ DesksAgree(desk, desk')
  <2>1. lastList' \in lastList..MaxLists /\ w <= lastList' /\ UNCHANGED heldRuns
    BY <1>0, <1>2
  <2> QED BY <2>1, <1>2, WriteKeeps
<1>3. ASSUME NEW ids \in Selections, CreateWatchlist(Static(BuildStaticMembers(ids, <<>>)))
      PROVE  WatchInv' /\ DesksAgree(desk, desk')
  BY <1>1, <1>3, NothingIsHonest, BuiltIsHonest, StaticIs
<1>4. ASSUME NEW leader \in Screeners, CreateWatchlist(Dynamic(leader))
      PROVE  WatchInv' /\ DesksAgree(desk, desk')
  BY <1>1, <1>4, DynamicIs
<1>5. ASSUME NEW w \in ListIds, NEW ids \in Selections, SetMembers(w, ids)
      PROVE  WatchInv' /\ DesksAgree(desk, desk')
  <2> DEFINE base == StaticBase(desk.lists[w])
             built == BuildStaticMembers(ids, base)
  <2>1. /\ w \in DOMAIN desk.lists /\ Change(WriteWatchlist(w, Static(built)))
        /\ UNCHANGED <<lastList, heldRuns>>
    BY <1>5 DEF SetMembers
  <2>2. Honest(base) /\ desk.lists[w].kind = "static" => base = desk.lists[w].members
    BY <2>1, <1>0, ListsAre, NothingIsHonest DEF StaticBase
  <2>3. Honest(base)
    BY <2>1, <1>0, ListsAre, NothingIsHonest DEF StaticBase
  <2>4. Honest(built) /\ Agree(base, built) /\ ids \in Seq(Instruments)
    BY <2>3, BuiltIsHonest
  <2>5. Static(built) \in HonestLists /\ SameSources(desk.lists[w], Static(built))
    BY <2>2, <2>3, <2>4, StaticIs DEF SameSources
  <2> QED BY <2>1, <2>5, <1>2
<1>6. ASSUME NEW w \in ListIds, KeepMembers(w)
      PROVE  WatchInv' /\ DesksAgree(desk, desk')
  <2>1. /\ w \in DOMAIN desk.lists /\ desk.lists[w].kind = "static" /\ desk.lists[w] \in HonestLists
        /\ Change(WriteWatchlist(w, Static(desk.lists[w].members)))
        /\ UNCHANGED <<lastList, heldRuns>>
    BY <1>6, <1>0 DEF KeepMembers
  <2>2. Static(desk.lists[w].members) \in HonestLists
        /\ SameSources(desk.lists[w], Static(desk.lists[w].members))
    BY <2>1, ListsAre, StaticIs DEF SameSources
  <2> QED BY <2>1, <2>2, <1>2
<1>7. ASSUME NEW w \in ListIds, NEW leader \in Screeners, FollowScreener(w, leader)
      PROVE  WatchInv' /\ DesksAgree(desk, desk')
  <2>1. /\ w \in DOMAIN desk.lists /\ Change(WriteWatchlist(w, Dynamic(leader)))
        /\ UNCHANGED <<lastList, heldRuns>>
    BY <1>7 DEF FollowScreener
  <2>2. Dynamic(leader) \in HonestLists /\ SameSources(desk.lists[w], Dynamic(leader))
    BY DynamicIs DEF SameSources
  <2> QED BY <2>1, <2>2, <1>2
<1>8. ASSUME NEW w \in ListIds, NEW run \in DOMAIN RunMatches,
             NEW ids \in Selections \union {RunMatches[r] : r \in DOMAIN RunMatches},
             NEW convertDynamic \in BOOLEAN, SaveResults(w, run, ids, convertDynamic)
      PROVE  WatchInv' /\ DesksAgree(desk, desk')
  <2> DEFINE base == StaticBase(desk.lists[w])
             all == AddMembers(base, ids, run)
  <2>1. /\ w \in DOMAIN desk.lists /\ Change(WriteWatchlist(w, Static(all)))
        /\ ToSet(ids) \subseteq ToSet(RunMatches[run])
        /\ UNCHANGED <<lastList, heldRuns>>
    BY <1>8 DEF SaveResults
  <2>2. Honest(base) /\ (desk.lists[w].kind = "static" => base = desk.lists[w].members)
    BY <2>1, <1>0, ListsAre, NothingIsHonest DEF StaticBase
  <2>3. ids \in Seq(Instruments)
    OBVIOUS
  <2>4. Honest(all) /\ Agree(base, all)
    BY <2>1, <2>2, <2>3, AddedIsHonest
  <2>5. Static(all) \in HonestLists /\ SameSources(desk.lists[w], Static(all))
    BY <2>2, <2>4, StaticIs DEF SameSources
  <2> QED BY <2>1, <2>5, <1>2
<1>9. ASSUME NEW leader \in Screeners, NEW watchlists \in SUBSET ListIds,
             SetScreenerUniverse(leader, watchlists)
      PROVE  WatchInv' /\ DesksAgree(desk, desk')
  <2>1. /\ desk = [lists |-> desk.lists, universe |-> desk.universe]
        /\ desk.universe \in [Screeners -> SUBSET ListIds]
        /\ desk.lists \in UNION {[held -> HonestLists] : held \in SUBSET ListIds}
    BY DEF WatchInv, Desks
  <2>2. /\ desk' = [desk EXCEPT !.universe[leader] = watchlists] /\ deskBefore' = desk
        /\ UNCHANGED <<lastList, heldRuns>>
    BY <1>9 DEF SetScreenerUniverse, Change
  <2>3. desk' = [lists |-> desk.lists, universe |-> [desk.universe EXCEPT ![leader] = watchlists]]
    BY <2>1, <2>2
  <2>4. [desk.universe EXCEPT ![leader] = watchlists] \in [Screeners -> SUBSET ListIds]
    BY <2>1
  <2>5. desk' \in Desks /\ desk'.lists = desk.lists
    BY <2>1, <2>3, <2>4 DEF Desks
  <2>6. DesksAgree(desk, desk') /\ DesksAgree(desk', desk)
    BY <2>5, <1>a DEF DesksAgree
  <2> QED BY <2>2, <2>5, <2>6 DEF WatchInv
<1>10. CASE UndoWatchlistChange
  <2>1. /\ deskBefore # NoDesk /\ desk' = deskBefore /\ deskBefore' = desk /\ UNCHANGED <<lastList, heldRuns>>
    BY <1>10 DEF UndoWatchlistChange
  <2>2. DesksAgree(deskBefore, desk) /\ DesksAgree(desk, deskBefore)
    BY <2>1 DEF WatchInv, DesksAgree, SameSources, Agree
  <2> QED BY <2>1, <2>2 DEF WatchInv
<1>11. ASSUME NEW run \in DOMAIN RunMatches, EvictRun(run)
       PROVE  WatchInv' /\ DesksAgree(desk, desk')
  BY <1>11, <1>a DEF EvictRun, WatchInv, NoDesk, DesksAgree, Desks, SameSources, Agree
<1>12. CASE ReloadWatchlists
  <2>1. UNCHANGED desk /\ deskBefore' = NoDesk /\ heldRuns' = {}
    BY <1>12 DEF ReloadWatchlists
  <2>2. lastList' \in 0..MaxLists /\ \A w \in DOMAIN desk.lists : w <= lastList'
    <3>1. CASE DOMAIN desk.lists = {}
      BY <3>1, <1>12 DEF ReloadWatchlists
    <3>2. CASE DOMAIN desk.lists # {}
      <4>1. DOMAIN desk.lists \subseteq 1..MaxLists
        BY <1>0 DEF ListIds
      <4>2. \E w \in DOMAIN desk.lists : \A v \in DOMAIN desk.lists : v <= w
        BY <3>2, <4>1, HighestThere
      <4>3. lastList' = CHOOSE w \in DOMAIN desk.lists : \A v \in DOMAIN desk.lists : v <= w
        BY <3>2, <1>12 DEF ReloadWatchlists
      <4> QED BY <4>1, <4>2, <4>3
    <3> QED BY <3>1, <3>2
  <2>3. DOMAIN desk.lists \subseteq 1..lastList'
    BY <2>2, <1>0 DEF ListIds
  <2> QED BY <2>1, <2>2, <2>3, <1>a DEF WatchInv
<1>13. CASE UNCHANGED watchlistVars
  BY <1>13, <1>a DEF watchlistVars, WatchInv, NoDesk, DesksAgree, SameSources, Agree
<1> QED
  BY <1>3, <1>4, <1>5, <1>6, <1>7, <1>8, <1>9, <1>10, <1>11, <1>12, <1>13 DEF WatchlistsNext

LEMMA WatchInvInit == WatchlistsInit => WatchInv
<1> SUFFICES ASSUME WatchlistsInit PROVE WatchInv
  OBVIOUS
<1>1. /\ desk = [lists |-> <<>>, universe |-> [s \in Screeners |-> {}]]
      /\ deskBefore = NoDesk /\ lastList = 0 /\ heldRuns = DOMAIN RunMatches
  BY DEF WatchlistsInit
<1>2. <<>> \in [{} -> HonestLists] /\ {} \in SUBSET ListIds
  OBVIOUS
<1>3. <<>> \in UNION {[held -> HonestLists] : held \in SUBSET ListIds}
  BY <1>2
<1>4. [s \in Screeners |-> {}] \in [Screeners -> SUBSET ListIds]
  OBVIOUS
<1>5. desk \in Desks /\ desk.lists = <<>>
  BY <1>1, <1>3, <1>4 DEF Desks
<1> QED BY <1>1, <1>5, WatchlistsAssumption DEF WatchInv, WatchlistsAssumption

\* Members keep their source, and it is the true one, for any runs, screeners and
\* selections, however lists were converted, saved to and undone.
THEOREM SourcesStayTrue == WatchlistsSpec => MembersKeepTheirSource
<1>2. WatchInv => MembersAreHonest
  <2> SUFFICES ASSUME WatchInv, NEW w \in DOMAIN desk.lists, desk.lists[w].kind = "static"
               PROVE  /\ Cardinality(InstrumentsOf(desk.lists[w].members)) = Len(desk.lists[w].members)
                      /\ \A m \in ToSet(desk.lists[w].members) :
                           m.source # Manual => m.instrument \in ToSet(RunMatches[m.source])
    BY DEF MembersAreHonest
  <2> DEFINE ms == desk.lists[w].members
  <2>1. Honest(ms)
    BY DesksAre, ListsAre DEF WatchInv
  <2> HIDE DEF ms
  <2>2. Len(ms) \in Nat /\ DOMAIN ms = 1..Len(ms)
    BY <2>1 DEF Honest
  <2> DEFINE f == [i \in 1..Len(ms) |-> ms[i].instrument]
  <2>3. \A i, j \in 1..Len(ms) : f[i] = f[j] => i = j
    BY <2>1, <2>2 DEF Honest
  <2>4. InstrumentsOf(ms) = {f[i] : i \in 1..Len(ms)}
    BY <2>2 DEF InstrumentsOf, ToSet
  <2>5. DOMAIN f = 1..Len(ms)
    OBVIOUS
  <2> HIDE DEF f
  <2>6. Cardinality(InstrumentsOf(ms)) = Len(ms)
    BY <2>2, <2>3, <2>4, <2>5, ImagesCount
  <2>7. \A m \in ToSet(ms) : m.source # Manual => m.instrument \in ToSet(RunMatches[m.source])
    BY <2>1 DEF Honest, ToSet
  <2> QED BY <2>6, <2>7 DEF ms
<1>3. ASSUME WatchInv, [WatchlistsNext]_watchlistVars
      PROVE  SourcesAreKept
  <2>1. DesksAgree(desk, desk')
    BY <1>3, WatchInvNext
  <2> SUFFICES ASSUME NEW w \in DOMAIN desk.lists \intersect DOMAIN desk'.lists,
                      desk.lists[w].kind = "static", desk'.lists[w].kind = "static",
                      NEW m \in ToSet(desk.lists[w].members), NEW n \in ToSet(desk'.lists[w].members),
                      m.instrument = n.instrument
               PROVE  m.source = n.source
    BY DEF SourcesAreKept
  <2>2. Agree(desk.lists[w].members, desk'.lists[w].members)
    BY <2>1 DEF DesksAgree, SameSources
  <2> QED BY <2>2 DEF Agree, ToSet
<1> QED
  BY WatchInvInit, <1>2, <1>3, WatchInvNext, PTL DEF WatchlistsSpec, MembersKeepTheirSource

-----------------------------------------------------------------------------
(* Loops.  Fewer lists to be made of, fewer loops.  A list that comes to     *)
(* follow a screener which does not reach it is in no loop: what the         *)
(* screener reaches is closed and lacks it.                                  *)

LEMMA FewerLoops ==
  ASSUME NEW doc, NEW next, DOMAIN next.lists = DOMAIN doc.lists,
         \A w : MadeOf(next, w) \subseteq MadeOf(doc, w)
  PROVE  Loops(next) \subseteq Loops(doc)
<1> SUFFICES ASSUME NEW w \in DOMAIN doc.lists, w \notin Loops(doc)
             PROVE  w \notin Loops(next)
  BY DEF Loops
<1>1. PICK closed \in SUBSET ListIds :
        MadeOf(doc, w) \subseteq closed /\ (\A v \in closed : MadeOf(doc, v) \subseteq closed) /\ w \notin closed
  BY DEF Loops
<1>2. MadeOf(next, w) \subseteq closed /\ \A v \in closed : MadeOf(next, v) \subseteq closed
  BY <1>1
<1> QED BY <1>1, <1>2 DEF Loops

\* What a screener reaches.
Reach(doc, leader) == UNION {doc.universe[s] : s \in Visited(doc, leader)}

LEMMA ReachIsClosed ==
  ASSUME NEW doc \in Desks, NEW leader \in Screeners
  PROVE  /\ Reach(doc, leader) \in SUBSET ListIds /\ doc.universe[leader] \subseteq Reach(doc, leader)
         /\ \A v \in Reach(doc, leader) : MadeOf(doc, v) \subseteq Reach(doc, leader)
<1> DEFINE seen == Visited(doc, leader)
           closes(c) == leader \in c /\ Followed(doc, UNION {doc.universe[t] : t \in c}) \subseteq c
<1>1. /\ doc.universe \in [Screeners -> SUBSET ListIds]
      /\ \A w \in DOMAIN doc.lists : doc.lists[w] \in HonestLists
  BY DesksAre
<1>2. seen = {s \in Screeners : \A c \in SUBSET Screeners : closes(c) => s \in c}
  BY DEF Visited
<1>3. leader \in seen /\ seen \in SUBSET Screeners
  BY <1>2
<1>4. ASSUME NEW v \in Reach(doc, leader), v \in DOMAIN doc.lists, doc.lists[v].kind = "dynamic"
      PROVE  doc.lists[v].screener \in seen
  <2> DEFINE s == doc.lists[v].screener
  <2>1. s \in Screeners
    BY <1>1, <1>4, ListsAre
  <2>2. PICK t \in seen : v \in doc.universe[t]
    BY DEF Reach
  <2>3. ASSUME NEW c \in SUBSET Screeners, closes(c) PROVE s \in c
    <3>1. t \in c
      BY <2>3, <2>2, <1>2
    <3>2. v \in UNION {doc.universe[u] : u \in c}
      BY <3>1, <2>2
    <3>3. s \in Followed(doc, UNION {doc.universe[u] : u \in c})
      BY <3>2, <1>4 DEF Followed
    <3> QED BY <3>3, <2>3
  <2> HIDE DEF closes, s
  <2>4. s \in seen
    BY <2>1, <2>3, <1>2
  <2> QED BY <2>4 DEF s
<1> HIDE DEF seen
<1>5. Reach(doc, leader) = UNION {doc.universe[s] : s \in seen}
  BY DEF Reach, seen
<1>6. Reach(doc, leader) \in SUBSET ListIds /\ doc.universe[leader] \subseteq Reach(doc, leader)
  BY <1>1, <1>3, <1>5
<1>7. ASSUME NEW v \in Reach(doc, leader) PROVE MadeOf(doc, v) \subseteq Reach(doc, leader)
  BY <1>4, <1>5 DEF MadeOf
<1> QED BY <1>6, <1>7

LEMMA FollowingMakesNoLoop ==
  ASSUME NEW doc \in Desks, NEW next \in Desks, NEW w \in DOMAIN doc.lists, NEW leader \in Screeners,
         ~ReachesWatchlist(doc, leader, w),
         DOMAIN next.lists = DOMAIN doc.lists, next.universe = doc.universe,
         next.lists[w] = Dynamic(leader), \A v \in DOMAIN doc.lists \ {w} : next.lists[v] = doc.lists[v]
  PROVE  Loops(next) \subseteq Loops(doc)
<1> DEFINE r == Reach(doc, leader)
<1>1. /\ r \in SUBSET ListIds /\ doc.universe[leader] \subseteq r
      /\ \A v \in r : MadeOf(doc, v) \subseteq r
  BY ReachIsClosed
<1>2. w \notin r
  BY DEF Reach, ReachesWatchlist
<1>3. MadeOf(next, w) = doc.universe[leader] /\ \A v : v # w => MadeOf(next, v) = MadeOf(doc, v)
  BY DynamicIs DEF MadeOf
<1> HIDE DEF r
<1> SUFFICES ASSUME NEW v \in DOMAIN doc.lists, v \notin Loops(doc)
             PROVE  v \notin Loops(next)
  BY DEF Loops
<1>4. PICK closed \in SUBSET ListIds :
        MadeOf(doc, v) \subseteq closed /\ (\A u \in closed : MadeOf(doc, u) \subseteq closed) /\ v \notin closed
  BY DEF Loops
<1>5. CASE v \in r
  <2> DEFINE both == closed \intersect r
  <2>1. /\ both \in SUBSET ListIds /\ v \notin both /\ MadeOf(next, v) \subseteq both
        /\ \A u \in both : MadeOf(next, u) \subseteq both
    BY <1>1, <1>2, <1>3, <1>4, <1>5
  <2> QED BY <2>1 DEF Loops
<1>6. CASE v \notin r
  <2> DEFINE either == closed \union r
  <2>1. /\ either \in SUBSET ListIds /\ v \notin either /\ MadeOf(next, v) \subseteq either
        /\ \A u \in either : MadeOf(next, u) \subseteq either
    BY <1>1, <1>2, <1>3, <1>4, <1>6
  <2> QED BY <2>1 DEF Loops
<1> QED BY <1>5, <1>6

LoopStep ==
  \/ Loops(desk') \subseteq Loops(desk) \union Loops(deskBefore)
  \/ desk'.universe # desk.universe
  \/ DOMAIN desk'.lists # DOMAIN desk.lists

\* A list that there is is written: no list appears or goes.
LEMMA RewrittenIs ==
  ASSUME desk \in Desks, NEW w \in DOMAIN desk.lists, w \in ListIds, NEW list \in HonestLists,
         Change(WriteWatchlist(w, list))
  PROVE  /\ desk' \in Desks /\ desk'.universe = desk.universe /\ DOMAIN desk'.lists = DOMAIN desk.lists
         /\ desk'.lists[w] = list /\ \A v \in DOMAIN desk.lists \ {w} : desk'.lists[v] = desk.lists[v]
<1>1. /\ desk' \in Desks /\ desk'.universe = desk.universe
      /\ DOMAIN desk'.lists = DOMAIN desk.lists \union {w} /\ desk'.lists[w] = list
      /\ \A v \in DOMAIN desk.lists \ {w} : desk'.lists[v] = desk.lists[v]
  BY WrittenIs DEF Change
<1>2. DOMAIN desk.lists \union {w} = DOMAIN desk.lists
  OBVIOUS
<1> QED BY <1>1, <1>2

\* A list that becomes static is made of nothing.
LEMMA StaticMakesNoLoop ==
  ASSUME WatchInv, NEW w \in DOMAIN desk.lists, NEW members, Honest(members), Change(WriteWatchlist(w, Static(members)))
  PROVE  LoopStep
<1>1. w \in ListIds /\ desk \in Desks /\ Static(members) \in HonestLists /\ Static(members).kind = "static"
  BY StaticIs, DesksAre DEF WatchInv
<1>2. /\ desk'.universe = desk.universe /\ DOMAIN desk'.lists = DOMAIN desk.lists
      /\ desk'.lists[w] = Static(members) /\ \A v \in DOMAIN desk.lists \ {w} : desk'.lists[v] = desk.lists[v]
  BY <1>1, RewrittenIs
<1>3. \A v : MadeOf(desk', v) \subseteq MadeOf(desk, v)
  BY <1>1, <1>2 DEF MadeOf
<1>4. PICK old, new : old = desk /\ new = desk'
  OBVIOUS
<1>5. Loops(new) \subseteq Loops(old)
  BY <1>2, <1>3, <1>4, FewerLoops
<1> QED BY <1>4, <1>5 DEF LoopStep

LEMMA LoopsNext ==
  ASSUME WatchInv, WatchlistsNext
  PROVE  LoopStep
<1> USE WatchlistsAssumption DEF WatchlistsAssumption
<1>0. /\ desk \in Desks /\ \A w \in DOMAIN desk.lists : w \in ListIds /\ w <= lastList /\ desk.lists[w] \in HonestLists
      /\ lastList \in Nat
  BY DesksAre DEF WatchInv, ListIds
<1>1. ASSUME NEW list \in HonestLists, CreateWatchlist(list)
      PROVE  LoopStep
  <2>1. lastList + 1 \in ListIds /\ lastList + 1 \notin DOMAIN desk.lists
    BY <1>0, <1>1 DEF CreateWatchlist, ListIds
  <2>2. DOMAIN desk'.lists = DOMAIN desk.lists \union {lastList + 1}
    BY <1>0, <1>1, <2>1, WrittenIs DEF CreateWatchlist, Change
  <2> QED BY <2>1, <2>2 DEF LoopStep
<1>2. ASSUME NEW ids \in Selections, CreateWatchlist(Static(BuildStaticMembers(ids, <<>>)))
      PROVE  LoopStep
  BY <1>1, <1>2, NothingIsHonest, BuiltIsHonest, StaticIs
<1>3. ASSUME NEW leader \in Screeners, CreateWatchlist(Dynamic(leader))
      PROVE  LoopStep
  BY <1>1, <1>3, DynamicIs
<1>4. ASSUME NEW w \in ListIds, NEW ids \in Selections, SetMembers(w, ids)
      PROVE  LoopStep
  <2>1. w \in DOMAIN desk.lists /\ Honest(StaticBase(desk.lists[w])) /\ ids \in Seq(Instruments)
        /\ Change(WriteWatchlist(w, Static(BuildStaticMembers(ids, StaticBase(desk.lists[w])))))
    BY <1>4, <1>0, ListsAre, NothingIsHonest DEF SetMembers, StaticBase
  <2>2. Honest(BuildStaticMembers(ids, StaticBase(desk.lists[w])))
    BY <2>1, BuiltIsHonest
  <2> QED BY <2>1, <2>2, StaticMakesNoLoop
<1>5. ASSUME NEW w \in ListIds, KeepMembers(w)
      PROVE  LoopStep
  <2>1. w \in DOMAIN desk.lists /\ Honest(desk.lists[w].members)
        /\ Change(WriteWatchlist(w, Static(desk.lists[w].members)))
    BY <1>5, <1>0, ListsAre DEF KeepMembers
  <2> QED BY <2>1, StaticMakesNoLoop
<1>6. ASSUME NEW w \in ListIds, NEW leader \in Screeners, FollowScreener(w, leader)
      PROVE  LoopStep
  <2>1. /\ w \in DOMAIN desk.lists /\ ~ReachesWatchlist(desk, leader, w)
        /\ Change(WriteWatchlist(w, Dynamic(leader)))
    BY <1>6 DEF FollowScreener
  <2>2. /\ desk' \in Desks /\ desk'.universe = desk.universe /\ DOMAIN desk'.lists = DOMAIN desk.lists
        /\ desk'.lists[w] = Dynamic(leader) /\ \A v \in DOMAIN desk.lists \ {w} : desk'.lists[v] = desk.lists[v]
    BY <1>0, <2>1, DynamicIs, RewrittenIs
  <2>3. PICK old, new : old = desk /\ new = desk'
    OBVIOUS
  <2>4. Loops(new) \subseteq Loops(old)
    BY <1>0, <2>1, <2>2, <2>3, FollowingMakesNoLoop
  <2> QED BY <2>3, <2>4 DEF LoopStep
<1>7. ASSUME NEW w \in ListIds, NEW run \in DOMAIN RunMatches,
             NEW ids \in Selections \union {RunMatches[r] : r \in DOMAIN RunMatches},
             NEW convertDynamic \in BOOLEAN, SaveResults(w, run, ids, convertDynamic)
      PROVE  LoopStep
  <2>1. w \in DOMAIN desk.lists /\ Honest(StaticBase(desk.lists[w])) /\ ids \in Seq(Instruments)
        /\ ToSet(ids) \subseteq ToSet(RunMatches[run])
        /\ Change(WriteWatchlist(w, Static(AddMembers(StaticBase(desk.lists[w]), ids, run))))
    BY <1>7, <1>0, ListsAre, NothingIsHonest DEF SaveResults, StaticBase
  <2>2. Honest(AddMembers(StaticBase(desk.lists[w]), ids, run))
    BY <2>1, AddedIsHonest
  <2> QED BY <2>1, <2>2, StaticMakesNoLoop
<1>8. ASSUME NEW leader \in Screeners, NEW watchlists \in SUBSET ListIds,
             SetScreenerUniverse(leader, watchlists)
      PROVE  LoopStep
  <2>1. /\ desk' = [desk EXCEPT !.universe[leader] = watchlists]
        /\ desk = [lists |-> desk.lists, universe |-> desk.universe]
        /\ desk.universe \in [Screeners -> SUBSET ListIds]
    BY <1>0, <1>8, DesksAre DEF SetScreenerUniverse, Change
  <2>2. desk' = [lists |-> desk.lists, universe |-> [desk.universe EXCEPT ![leader] = watchlists]]
    BY <2>1
  <2>3. desk'.universe = desk.universe => desk' = desk
    BY <2>1, <2>2
  <2> QED BY <2>3 DEF LoopStep
<1>9. CASE UndoWatchlistChange
  BY <1>9 DEF UndoWatchlistChange, LoopStep
<1>10. ASSUME NEW run \in DOMAIN RunMatches, EvictRun(run)
       PROVE  LoopStep
  BY <1>10 DEF EvictRun, LoopStep
<1>11. CASE ReloadWatchlists
  BY <1>11 DEF ReloadWatchlists, LoopStep
<1> QED
  BY <1>2, <1>3, <1>4, <1>5, <1>6, <1>7, <1>8, <1>9, <1>10, <1>11 DEF WatchlistsNext

\* No update of a list makes a list depend on itself, for any lists, screeners and
\* universes, chains of lists of any length included.
THEOREM UpdatesStayAcyclic == WatchlistsSpec => UpdatesMakeNoLoop
<1>1. ASSUME WatchInv, [WatchlistsNext]_watchlistVars
      PROVE  WatchInv' /\ [LoopStep]_watchlistVars
  BY <1>1, WatchInvNext, LoopsNext
<1> QED
  BY WatchInvInit, <1>1, PTL DEF WatchlistsSpec, UpdatesMakeNoLoop, LoopStep

-----------------------------------------------------------------------------
(* PanelMerge.  Keys are told by their ranks: a key stands, on either side   *)
(* and in the merged panel, after as many keys as are less.  A batch and its *)
(* share of the delta are the keys between two bounds, and their splice is   *)
(* what the merged panel has between those bounds.                           *)

\* What the binary searches of a batch find.
LEMMA PositionsAre ==
  ASSUME NEW B \in SUBSET Int, IsFiniteSet(B), NEW rows, DOMAIN rows = 1..Cardinality(B),
         \A i \in DOMAIN rows : rows[i].key = Ascending(B)[i], NEW k \in Int
  PROVE  Position(rows, k) = Rank(B, k) /\ (Collides(rows, k) <=> k \in B)
<1> DEFINE at == Ascending(B)
           p == {i \in DOMAIN rows : rows[i].key < k}
<1>1. /\ at \in [1..Cardinality(B) -> B] /\ Cardinality(B) \in Nat
      /\ \A m, n \in 1..Cardinality(B) : m < n => at[m] < at[n]
      /\ \A j \in B : Rank(B, j) + 1 \in 1..Cardinality(B) /\ at[Rank(B, j) + 1] = j
  BY AscendingEnumerates
<1>2. \A j \in B : j \in Int
  OBVIOUS
<1>3. IsFiniteSet(p) /\ p \in SUBSET (1..Cardinality(B))
  <2>1. IsFiniteSet(1..Cardinality(B))
    BY <1>1, FS_Interval
  <2> QED BY <2>1, FS_Subset
<1>4. \A i, j \in p : at[i] = at[j] => i = j
  <2> SUFFICES ASSUME NEW i \in p, NEW j \in p, at[i] = at[j] PROVE i = j
    OBVIOUS
  <2> HIDE DEF at
  <2>1. at[i] \in Int /\ i \in 1..Cardinality(B) /\ j \in 1..Cardinality(B)
    BY <1>1, <1>2
  <2> HIDE DEF p
  <2>2. ~(i < j) /\ ~(j < i)
    BY <2>1, <1>1
  <2> QED BY <2>1, <2>2, <1>1
<1> HIDE DEF at
<1>5. {at[i] : i \in p} = {j \in B : j < k}
  BY <1>1 DEF at
<1>6. Cardinality({at[i] : i \in p}) = Cardinality(p)
  BY <1>3, <1>4, ImagesAreAsMany
<1>7. Position(rows, k) = Rank(B, k)
  BY <1>5, <1>6 DEF Position, Rank
<1>8. Collides(rows, k) <=> k \in B
  BY <1>1 DEF Collides, at
<1> QED BY <1>7, <1>8

\* What _splice returns: both sets in order, the row of the delta where it has one.
InKeyOrder(rows, S) ==
  /\ DOMAIN rows = 1..Cardinality(S) /\ Len(rows) = Cardinality(S)
  /\ \A i \in DOMAIN rows : rows[i].key = Ascending(S)[i]
Spliced(out, rows, B, delta, C) ==
  /\ out = [i \in 1..Cardinality(B \union C) |-> out[i]]
  /\ \A k \in C : out[Rank(B \union C, k) + 1] = delta[Rank(C, k) + 1]
  /\ \A k \in B \ C : out[Rank(B \union C, k) + 1] = rows[Rank(B, k) + 1]

LEMMA SpliceIs ==
  ASSUME NEW B \in SUBSET Int, IsFiniteSet(B), NEW C \in SUBSET Int, IsFiniteSet(C),
         NEW rows, InKeyOrder(rows, B), NEW delta, InKeyOrder(delta, C)
  PROVE  Spliced(Splice(rows, delta), rows, B, delta, C)
<1> USE DEF InKeyOrder
<1> DEFINE U == B \union C
           b == Cardinality(B)
           c == Cardinality(C)
           dropped == {Position(rows, delta[n].key) :
                         n \in {m \in DOMAIN delta : Collides(rows, delta[m].key)}}
           keep == {i \in DOMAIN rows : i - 1 \notin dropped}
           insertAt(n) == LET p == Position(rows, delta[n].key) IN p - Rank(dropped, p)
           places == {insertAt(n) + n : n \in DOMAIN delta}
           out == [i \in 1..Cardinality(keep) + Len(delta) |->
                     IF i \in places THEN delta[CHOOSE n \in DOMAIN delta : insertAt(n) + n = i]
                     ELSE rows[Ascending(keep)[i - Rank(places, i)]]]
<1>0. Splice(rows, delta) = out
  BY DEF Splice
<1>1. \A k \in B \union C : k \in Int
  OBVIOUS
<1>2. /\ b \in Nat /\ c \in Nat
      /\ \A n \in 1..c : Ascending(C)[n] \in C /\ Rank(C, Ascending(C)[n]) = n - 1
      /\ \A k \in C : Rank(C, k) + 1 \in 1..c /\ Ascending(C)[Rank(C, k) + 1] = k
      /\ \A i \in 1..b : Ascending(B)[i] \in B /\ Rank(B, Ascending(B)[i]) = i - 1
      /\ \A k \in B : Rank(B, k) + 1 \in 1..b /\ Ascending(B)[Rank(B, k) + 1] = k
  BY AscendingEnumerates
<1>a. ASSUME NEW k \in C
      PROVE  Rank(C, k) + 1 \in DOMAIN delta /\ delta[Rank(C, k) + 1].key = k
  <2> DEFINE n == Rank(C, k) + 1
  <2>1. n \in DOMAIN delta /\ Ascending(C)[n] = k
    BY <1>2
  <2> HIDE DEF n
  <2>2. delta[n].key = k
    BY <2>1
  <2> QED BY <2>1, <2>2 DEF n
<1>b. ASSUME NEW n \in DOMAIN delta
      PROVE  delta[n].key \in C /\ delta[n].key \in Int /\ Rank(C, delta[n].key) = n - 1
  <2>1. n \in 1..c /\ delta[n].key = Ascending(C)[n]
    OBVIOUS
  <2>2. Ascending(C)[n] \in C /\ Rank(C, Ascending(C)[n]) = n - 1
    BY <2>1, <1>2
  <2> QED BY <2>1, <2>2, <1>1
<1>3. \A k \in Int : Position(rows, k) = Rank(B, k) /\ (Collides(rows, k) <=> k \in B)
  BY PositionsAre
<1>4. dropped = {Rank(B, k) : k \in B \intersect C}
  <2>1. ASSUME NEW k \in B \intersect C PROVE Rank(B, k) \in dropped
    <3> DEFINE n == Rank(C, k) + 1
    <3>1. n \in DOMAIN delta /\ delta[n].key = k /\ k \in Int
      BY <1>a, <1>1
    <3> HIDE DEF n
    <3>2. Position(rows, delta[n].key) = Rank(B, k) /\ Collides(rows, delta[n].key)
      BY <3>1, <1>3
    <3> QED BY <3>1, <3>2
  <2>2. ASSUME NEW n \in DOMAIN delta, Collides(rows, delta[n].key)
        PROVE  Position(rows, delta[n].key) \in {Rank(B, k) : k \in B \intersect C}
    <3> DEFINE k == delta[n].key
    <3>1. k \in C /\ k \in Int
      BY <1>b
    <3>2. k \in B /\ Position(rows, k) = Rank(B, k)
      BY <3>1, <2>2, <1>3
    <3> QED BY <3>1, <3>2
  <2> QED BY <2>1, <2>2
<1> HIDE DEF dropped
<1>5. \A j \in B, k \in Int : Rank(B, j) \in Nat /\ (Rank(B, j) < Rank(B, k) <=> j < k)
  BY RanksOrder
<1>6. \A i, j \in B : Rank(B, i) = Rank(B, j) => i = j
  BY <1>2
<1>7. ASSUME NEW k \in Int PROVE Rank(dropped, Rank(B, k)) = Rank(B \intersect C, k)
  <2> DEFINE S == B \intersect C
             f == [j \in S |-> Rank(B, j)]
  <2>1. S \in SUBSET Int /\ IsFiniteSet(S)
    BY RanksOfBoth
  <2>2. dropped = {f[j] : j \in S}
    BY <1>4
  <2>3. /\ \A i, j \in S : f[i] = f[j] => i = j
        /\ \A j \in S : f[j] < Rank(B, k) <=> j < k
    BY <1>5, <1>6
  <2> HIDE DEF f, S
  <2>4. PICK r : r = Rank(B, k)
    OBVIOUS
  <2>5. Rank({f[j] : j \in S}, r) = Rank(S, k)
    <3>1. \A j \in S : f[j] < r <=> j < k
      BY <2>3, <2>4
    <3> QED BY ONLY <2>1, <2>3, <3>1, RanksCarry
  <2> QED BY <2>2, <2>4, <2>5 DEF S
<1>8. ASSUME NEW n \in DOMAIN delta
      PROVE  insertAt(n) + n = Rank(U, delta[n].key) + 1
  <2> DEFINE k == delta[n].key
  <2>1. k \in Int /\ k \in C /\ Rank(C, k) = n - 1 /\ n \in Int
    BY <1>b
  <2>2. insertAt(n) = Position(rows, k) - Rank(dropped, Position(rows, k))
    OBVIOUS
  <2> HIDE DEF k, insertAt
  <2>3. insertAt(n) = Rank(B, k) - Rank(B \intersect C, k)
    BY <2>1, <2>2, <1>3, <1>7
  <2>4. /\ Rank(B, k) = Rank(B \intersect C, k) + Rank(B \ C, k) /\ Rank(U, k) = Rank(B \ C, k) + Rank(C, k)
        /\ Rank(B \ C, k) \in Nat /\ Rank(B \intersect C, k) \in Nat
    BY <2>1, RanksOfBoth
  <2> HIDE DEF U
  <2> QED BY <2>1, <2>3, <2>4 DEF k
<1> HIDE DEF insertAt
<1>9. places = {Rank(U, k) + 1 : k \in C}
  <2>1. ASSUME NEW k \in C PROVE Rank(U, k) + 1 \in places
    <3> DEFINE n == Rank(C, k) + 1
    <3>1. n \in DOMAIN delta /\ delta[n].key = k
      BY <1>a
    <3> HIDE DEF n, U
    <3>2. insertAt(n) + n = Rank(U, k) + 1
      BY <3>1, <1>8
    <3>3. insertAt(n) + n \in places
      BY <3>1
    <3> QED BY <3>2, <3>3
  <2>2. ASSUME NEW n \in DOMAIN delta PROVE insertAt(n) + n \in {Rank(U, k) + 1 : k \in C}
    <3> HIDE DEF U
    <3>1. delta[n].key \in C /\ insertAt(n) + n = Rank(U, delta[n].key) + 1
      BY <1>b, <1>8
    <3> QED BY <3>1
  <2> QED BY <2>1, <2>2
<1>10. keep = {Rank(B, k) + 1 : k \in B \ C}
  <2>1. ASSUME NEW k \in B PROVE Rank(B, k) + 1 \in DOMAIN rows /\ (Rank(B, k) \in dropped <=> k \in C)
    BY <1>2, <1>4, <1>6
  <2>2. ASSUME NEW k \in B \ C PROVE Rank(B, k) + 1 \in keep
    <3>1. Rank(B, k) + 1 \in DOMAIN rows /\ Rank(B, k) \notin dropped /\ (Rank(B, k) + 1) - 1 = Rank(B, k)
      BY <2>1, <1>5, <1>1
    <3> QED BY <3>1
  <2>3. ASSUME NEW i \in keep PROVE i \in {Rank(B, k) + 1 : k \in B \ C}
    <3> DEFINE k == Ascending(B)[i]
    <3>1. i \in 1..b /\ i - 1 \notin dropped
      OBVIOUS
    <3>2. k \in B /\ Rank(B, k) = i - 1
      BY <3>1, <1>2
    <3> HIDE DEF k
    <3>3. k \notin C /\ i = Rank(B, k) + 1
      BY <3>1, <3>2, <2>1
    <3> QED BY <3>2, <3>3
  <2> QED BY <2>2, <2>3
<1> HIDE DEF keep, places
<1>11. /\ IsFiniteSet(U) /\ U \in SUBSET Int /\ IsFiniteSet(B \ C) /\ B \ C \in SUBSET Int
       /\ Cardinality(U) = Cardinality(B \ C) + c
       /\ \A k \in Int : Rank(U, k) = Rank(B \ C, k) + Rank(C, k) /\ Rank(C, k) \in Nat /\ Rank(B \ C, k) \in Nat
  <2>1. 0 \in Int /\ B \ C \in SUBSET Int
    OBVIOUS
  <2> QED BY <2>1, RanksOfBoth
<1>12. /\ keep \in SUBSET Int /\ IsFiniteSet(keep) /\ Cardinality(keep) = Cardinality(B \ C)
       /\ \A k \in B \ C : Rank(keep, Rank(B, k) + 1) = Rank(B \ C, k)
  <2> DEFINE S == B \ C
             f == [j \in S |-> Rank(B, j) + 1]
  <2>1. S \in SUBSET Int /\ IsFiniteSet(S) /\ keep = {f[j] : j \in S} /\ \A j \in S : j \in Int /\ j \in B
    BY <1>10, <1>11
  <2>2. \A j \in S : Rank(B, j) \in Int
    BY <1>1, <1>5
  <2>3. \A i, j \in S : f[i] = f[j] => i = j
    BY <2>2, <1>6
  <2>4. \A j, k \in S : f[j] < Rank(B, k) + 1 <=> j < k
    BY <2>1, <2>2, <1>5
  <2>5. \A j \in S : f[j] \in Int
    BY <2>2
  <2> HIDE DEF f, S
  <2>6. IsFiniteSet({f[j] : j \in S}) /\ Cardinality({f[j] : j \in S}) = Cardinality(S)
    <3>1. IsFiniteSet(S)
      BY <2>1
    <3> QED BY ONLY <2>3, <3>1, ImagesAreAsMany
  <2>7. ASSUME NEW k \in S PROVE Rank({f[j] : j \in S}, Rank(B, k) + 1) = Rank(S, k)
    <3>1. PICK y : y = Rank(B, k) + 1
      OBVIOUS
    <3>2. \A j \in S : f[j] < y <=> j < k
      BY <3>1, <2>4
    <3>3. Rank({f[j] : j \in S}, y) = Rank(S, k)
      BY ONLY <2>1, <2>3, <3>2, RanksCarry
    <3> QED BY <3>1, <3>3
  <2>8. keep \in SUBSET Int
    BY <2>1, <2>5
  <2> QED BY <2>1, <2>6, <2>7, <2>8 DEF S
<1>u. /\ \A k \in C : k \in U /\ k \in Int
      /\ \A k \in B \ C : k \in U /\ k \in Int
      /\ \A k \in U : k \in B \ C \/ k \in C
  BY <1>1
<1> HIDE DEF U
<1>v. \A j, k \in U : /\ Rank(U, j) \in Nat /\ Rank(U, j) + 1 \in 1..Cardinality(U)
                      /\ (Rank(U, j) < Rank(U, k) <=> j < k) /\ (Rank(U, j) = Rank(U, k) => j = k)
  <2>1. \A k \in U : k \in Int
    BY <1>11
  <2>2. \A k \in U : Rank(U, k) + 1 \in 1..Cardinality(U)
    BY <1>11, AscendingEnumerates
  <2> QED BY <2>1, <2>2, <1>11, RanksOrder
<1>13. ASSUME NEW k \in B \ C
       PROVE  LET i == Rank(U, k) + 1
              IN  i \notin places /\ Ascending(keep)[i - Rank(places, i)] = Rank(B, k) + 1
  <2> DEFINE f == [j \in C |-> Rank(U, j) + 1]
  <2>1. PICK i : i = Rank(U, k) + 1
    OBVIOUS
  <2>2. k \in U /\ k \in Int /\ k \notin C
    BY <1>u
  <2>3. \A j \in C : f[j] = Rank(U, j) + 1 /\ f[j] # i /\ (f[j] < i <=> j < k)
    BY <2>1, <2>2, <1>u, <1>v
  <2>4. \A j, l \in C : f[j] = f[l] => j = l
    BY <1>u, <1>v
  <2>5. places = {f[j] : j \in C}
    BY <1>9
  <2> HIDE DEF f
  <2>6. i \notin places
    BY <2>3, <2>5
  <2>7. Rank({f[j] : j \in C}, i) = Rank(C, k)
    BY <2>2, <2>3, <2>4, RanksCarry
  <2>8. i - Rank(places, i) = Rank(B \ C, k) + 1
    <3>1. Rank(places, i) = Rank(C, k)
      BY <2>5, <2>7
    <3>2. Rank(U, k) = Rank(B \ C, k) + Rank(C, k) /\ Rank(C, k) \in Nat /\ Rank(B \ C, k) \in Nat
      BY <2>2, <1>11
    <3> QED BY <3>1, <3>2, <2>1
  <2>9. PICK p : p = Rank(B, k) + 1
    OBVIOUS
  <2>10. p \in keep /\ Rank(keep, p) = Rank(B \ C, k)
    BY <2>9, <1>10, <1>12
  <2>11. Ascending(keep)[Rank(B \ C, k) + 1] = p
    BY <2>10, <1>12, AscendingEnumerates
  <2> QED BY <2>1, <2>6, <2>8, <2>9, <2>11
<1>15. Cardinality(keep) + Len(delta) = Cardinality(U)
  BY <1>11, <1>12
<1>16. ASSUME NEW k \in C PROVE out[Rank(U, k) + 1] = delta[Rank(C, k) + 1]
  <2>1. PICK i : i = Rank(U, k) + 1
    OBVIOUS
  <2>2. PICK m : m = Rank(C, k) + 1
    OBVIOUS
  <2>3. i \in places /\ i \in 1..Cardinality(U)
    BY <2>1, <1>9, <1>u, <1>v
  <2>4. m \in DOMAIN delta /\ insertAt(m) + m = i
    BY <2>1, <2>2, <1>a, <1>8
  <2>5. ASSUME NEW n \in DOMAIN delta, insertAt(n) + n = i PROVE n = m
    <3>1. PICK l : l = delta[n].key
      OBVIOUS
    <3>2. l \in C /\ Rank(C, l) = n - 1 /\ Rank(U, l) + 1 = i
      BY <3>1, <2>5, <1>b, <1>8
    <3>3. l = k
      BY <3>2, <2>1, <1>u, <1>v
    <3> QED BY <3>2, <3>3, <2>2
  <2>6. (CHOOSE n \in DOMAIN delta : insertAt(n) + n = i) = m
    BY <2>4, <2>5
  <2>7. out[i] = delta[CHOOSE n \in DOMAIN delta : insertAt(n) + n = i]
    BY <2>3, <1>15
  <2> QED BY <2>1, <2>2, <2>6, <2>7
<1>17. ASSUME NEW k \in B \ C PROVE out[Rank(U, k) + 1] = rows[Rank(B, k) + 1]
  <2>1. PICK i : i = Rank(U, k) + 1
    OBVIOUS
  <2>2. i \in 1..Cardinality(U) /\ i \notin places /\ Ascending(keep)[i - Rank(places, i)] = Rank(B, k) + 1
    BY <2>1, <1>u, <1>v, <1>13
  <2> QED BY <2>1, <2>2, <1>15
<1>18. out = [i \in 1..Cardinality(U) |-> out[i]]
  BY <1>15
<1> HIDE DEF out
<1> QED BY <1>0, <1>16, <1>17, <1>18 DEF U, Spliced

\* Whole groups in a number of rows, and products with the size of a group.
LEMMA WholeGroups ==
  ASSUME NEW n \in Nat, NEW d \in Nat \ {0}
  PROVE  n \div d \in Nat /\ (n \div d) * d <= n /\ n < (n \div d) * d + d
OBVIOUS

LEMMA TimesIs ==
  ASSUME NEW a \in Int, NEW b \in Int, NEW d \in Nat
  PROVE  /\ a * d \in Int /\ (a + b) * d = a * d + b * d /\ (a - b) * d = a * d - b * d
         /\ a <= b => a * d <= b * d
         /\ 0 * d = 0 /\ 1 * d = d
<1>1. (a + b) * d = a * d + b * d
  OBVIOUS
<1>2. (a - b) * d = a * d - b * d
  OBVIOUS
<1>3. a <= b => a * d <= b * d
  OBVIOUS
<1> QED BY <1>1, <1>2, <1>3

\* A stretch of a sequence.
IsStretch(t, s, S, lo, hi) ==
  t \in Seq(S) /\ Len(t) = hi - lo /\ DOMAIN t = 1..hi - lo /\ \A i \in 1..hi - lo : t[i] = s[lo + i]
LEMMA StretchIs ==
  ASSUME NEW S, NEW s \in Seq(S), NEW lo \in Nat, NEW hi \in Nat, lo <= hi, hi <= Len(s)
  PROVE  IsStretch(SubSeq(s, lo + 1, hi), s, S, lo, hi)
BY DEF IsStretch

LEMMA GroupsJoin ==
  ASSUME NEW S, NEW gs \in Seq(Seq(S)), NEW w \in Nat, NEW f \in [1..w -> Seq(S)]
  PROVE  LET new == gs \o f
         IN  /\ new \in Seq(Seq(S)) /\ Len(new) = Len(gs) + w /\ Len(gs) \in Nat
             /\ \A g \in DOMAIN new :
                  \/ g \in DOMAIN gs /\ new[g] = gs[g]
                  \/ g - Len(gs) \in 1..w /\ new[g] = f[g - Len(gs)] /\ Len(gs) + (g - Len(gs)) = g
<1>1. f \in Seq(Seq(S)) /\ Len(f) = w /\ DOMAIN f = 1..w
  OBVIOUS
<1>2. PICK T : T = Seq(S)
  OBVIOUS
<1>3. gs \in Seq(T) /\ f \in Seq(T)
  BY <1>1, <1>2
<1>4. /\ gs \o f \in Seq(T) /\ Len(gs \o f) = Len(gs) + Len(f) /\ Len(gs) \in Nat
      /\ \A k \in DOMAIN (gs \o f) :
           \/ k \in DOMAIN gs /\ (gs \o f)[k] = gs[k]
           \/ k - Len(gs) \in DOMAIN f /\ (gs \o f)[k] = f[k - Len(gs)] /\ Len(gs) + (k - Len(gs)) = k
  BY <1>3, SequencesJoin
<1> QED BY ONLY <1>1, <1>2, <1>4

(* Rows that go on where R is at an offset, and groups that hold R in full.  *)
Continues(rows, R, offset) == \A i \in DOMAIN rows : rows[i] = R[offset + i]
FullGroups(gs, R) ==
  \A g \in DOMAIN gs : Len(gs[g]) = GroupRows /\ Continues(gs[g], R, (g - 1) * GroupRows)
AddedGroups(gs, all) ==
  gs \o [g \in 1..Len(all) \div GroupRows |-> SubSeq(all, (g - 1) * GroupRows + 1, g * GroupRows)]
AddedRest(all) == SubSeq(all, (Len(all) \div GroupRows) * GroupRows + 1, Len(all))
Added(new, rest, S, R, n) ==
  /\ new \in Seq(Seq(S)) /\ rest \in Seq(S)
  /\ FullGroups(new, R) /\ Continues(rest, R, Len(new) * GroupRows)
  /\ Len(new) * GroupRows + Len(rest) = n

\* What add writes and keeps: whole groups, and the rows that follow them.
LEMMA EmitIs ==
  ASSUME MergeAssumption, NEW S, NEW R, NEW gs \in Seq(Seq(S)), NEW all \in Seq(S),
         FullGroups(gs, R), Continues(all, R, Len(gs) * GroupRows)
  PROVE  Added(AddedGroups(gs, all), AddedRest(all), S, R, Len(gs) * GroupRows + Len(all))
<1>h. /\ \A g \in DOMAIN gs : /\ Len(gs[g]) = GroupRows
                              /\ \A i \in DOMAIN gs[g] : gs[g][i] = R[(g - 1) * GroupRows + i]
      /\ \A i \in DOMAIN all : all[i] = R[Len(gs) * GroupRows + i]
  BY DEF FullGroups, Continues
<1> DEFINE whole == Len(all) \div GroupRows
           f == [g \in 1..whole |-> SubSeq(all, (g - 1) * GroupRows + 1, g * GroupRows)]
           new == gs \o f
           rest == SubSeq(all, whole * GroupRows + 1, Len(all))
<1>1. GroupRows \in Nat \ {0} /\ Len(all) \in Nat /\ Len(gs) \in Nat
  BY DEF MergeAssumption
<1>2. PICK d : d = GroupRows
  OBVIOUS
<1>3. whole \in Nat /\ whole * d <= Len(all) /\ whole * d \in Nat
  <2>1. PICK n : n = Len(all)
    OBVIOUS
  <2>2. n \in Nat /\ d \in Nat \ {0}
    BY <2>1, <1>1, <1>2
  <2>3. n \div d \in Nat /\ (n \div d) * d <= n /\ (n \div d) * d \in Nat
    BY ONLY <2>2, WholeGroups
  <2> QED BY ONLY <2>1, <2>3, <1>2
<1> HIDE DEF whole
<1>4. ASSUME NEW g \in 1..whole
      PROVE  /\ f[g] \in Seq(S) /\ Len(f[g]) = d /\ DOMAIN f[g] = 1..d
             /\ \A i \in 1..d : f[g][i] = R[(Len(gs) + g - 1) * d + i]
  <2>1. PICK lo, hi : lo = (g - 1) * d /\ hi = g * d
    OBVIOUS
  <2>2. lo \in Int /\ hi \in Int /\ hi - lo = d /\ 0 <= lo /\ hi <= whole * d
    <3>1. g \in Int /\ 0 <= g - 1 /\ g <= whole /\ whole \in Int /\ d \in Nat /\ g - 1 \in Int /\ 0 \in Int /\ 1 \in Int
      BY <1>1, <1>2, <1>3
    <3>2. (g - 1) * d = g * d - 1 * d /\ g * d \in Int /\ g * d <= whole * d /\ 1 * d = d
      BY <3>1, TimesIs
    <3>3. 0 * d <= (g - 1) * d /\ 0 * d = 0
      BY <3>1, TimesIs
    <3> QED BY <3>1, <3>2, <3>3, <2>1
  <2>3. lo \in Nat /\ hi \in Nat /\ lo <= hi /\ hi <= Len(all)
    BY <2>2, <1>1, <1>2, <1>3
  <2>4. f[g] = SubSeq(all, lo + 1, hi)
    BY <2>1, <1>2
  <2>5. /\ f[g] \in Seq(S) /\ Len(f[g]) = d /\ DOMAIN f[g] = 1..d
        /\ \A i \in 1..d : f[g][i] = all[lo + i]
    <3>1. PICK t : t = SubSeq(all, lo + 1, hi)
      OBVIOUS
    <3>2. /\ t \in Seq(S) /\ Len(t) = hi - lo /\ DOMAIN t = 1..hi - lo
          /\ \A i \in 1..hi - lo : t[i] = all[lo + i]
      <4>1. IsStretch(t, all, S, lo, hi)
        BY <2>3, <3>1, StretchIs
      <4> QED BY ONLY <4>1 DEF IsStretch
    <3>3. f[g] = t /\ hi - lo = d
      BY <2>2, <2>4, <3>1
    <3> HIDE DEF f
    <3> QED BY ONLY <3>2, <3>3
  <2>6. \A i \in 1..d : lo + i \in DOMAIN all
    BY <2>2, <2>3, <1>1
  <2>7. (Len(gs) + g - 1) * d = Len(gs) * d + lo
    <3>1. Len(gs) \in Int /\ g - 1 \in Int /\ d \in Nat /\ Len(gs) + g - 1 = Len(gs) + (g - 1)
      BY <1>1, <1>2
    <3>2. (Len(gs) + (g - 1)) * d = Len(gs) * d + (g - 1) * d
      BY <3>1, TimesIs
    <3> QED BY <3>1, <3>2, <2>1
  <2>8. Len(gs) * d \in Int
    BY <1>1, <1>2, TimesIs
  <2>9. \A i \in 1..d : all[lo + i] = R[Len(gs) * d + (lo + i)] /\ Len(gs) * d + (lo + i) = Len(gs) * d + lo + i
    <3> SUFFICES ASSUME NEW i \in 1..d
                 PROVE  /\ all[lo + i] = R[Len(gs) * d + (lo + i)]
                        /\ Len(gs) * d + (lo + i) = Len(gs) * d + lo + i
      OBVIOUS
    <3>1. PICK j : j = lo + i
      OBVIOUS
    <3>2. j \in DOMAIN all
      BY <2>6, <3>1
    <3>3. all[j] = R[Len(gs) * d + j]
      BY <3>2, <1>2, <1>h
    <3>4. i \in Int /\ lo \in Int /\ Len(gs) * d \in Int
      BY <2>2, <2>8, <1>1, <1>2
    <3> QED BY <3>1, <3>3, <3>4
  <2> QED BY <2>5, <2>7, <2>9
<1>5. f \in [1..whole -> Seq(S)]
  BY <1>4
<1> HIDE DEF f
<1>6. /\ new \in Seq(Seq(S)) /\ Len(new) = Len(gs) + whole
      /\ \A g \in DOMAIN new :
           \/ g \in DOMAIN gs /\ new[g] = gs[g]
           \/ g - Len(gs) \in 1..whole /\ new[g] = f[g - Len(gs)] /\ Len(gs) + (g - Len(gs)) = g
  BY <1>3, <1>5, GroupsJoin
<1> HIDE DEF new
<1>7. ASSUME NEW g \in DOMAIN new
      PROVE  Len(new[g]) = d /\ \A i \in DOMAIN new[g] : new[g][i] = R[(g - 1) * d + i]
  <2>1. CASE g \in DOMAIN gs /\ new[g] = gs[g]
    BY <2>1, <1>2, <1>h
  <2>2. CASE g - Len(gs) \in 1..whole /\ new[g] = f[g - Len(gs)] /\ Len(gs) + (g - Len(gs)) = g
    <3>1. PICK h : h = g - Len(gs)
      OBVIOUS
    <3>2. /\ h \in 1..whole /\ new[g] = f[h] /\ Len(gs) + h = g /\ Len(gs) + h - 1 = g - 1
      BY <3>1, <2>2, <1>1
    <3> QED BY <3>2, <1>4
  <2> QED BY <1>6, <2>1, <2>2
<1>8. PICK lo : lo = whole * d
  OBVIOUS
<1>9. /\ rest \in Seq(S) /\ Len(rest) = Len(all) - lo /\ DOMAIN rest = 1..Len(all) - lo
      /\ \A i \in 1..Len(all) - lo : rest[i] = all[lo + i]
  <2>1. lo \in Nat /\ lo <= Len(all) /\ rest = SubSeq(all, lo + 1, Len(all))
    BY <1>2, <1>3, <1>8
  <2> HIDE DEF rest
  <2>2. IsStretch(rest, all, S, lo, Len(all))
    BY <2>1, <1>1, StretchIs
  <2> QED BY ONLY <2>2 DEF IsStretch
<1> HIDE DEF rest
<1>10. Len(new) * d = Len(gs) * d + lo /\ Len(gs) * d \in Int
  BY <1>1, <1>2, <1>3, <1>6, <1>8, TimesIs
<1>11. \A i \in DOMAIN rest : rest[i] = R[Len(new) * d + i]
  <2> SUFFICES ASSUME NEW i \in DOMAIN rest PROVE rest[i] = R[Len(new) * d + i]
    OBVIOUS
  <2>1. i \in Int /\ lo + i \in DOMAIN all /\ rest[i] = all[lo + i] /\ lo \in Int
    BY <1>1, <1>3, <1>8, <1>9
  <2>2. Len(gs) * d + (lo + i) = Len(new) * d + i
    BY <2>1, <1>10
  <2> QED BY <2>1, <2>2, <1>2, <1>h
<1>12. Len(new) * d + Len(rest) = Len(gs) * d + Len(all)
  BY <1>1, <1>3, <1>8, <1>9, <1>10
<1>13. Added(new, rest, S, R, Len(gs) * GroupRows + Len(all))
  BY <1>2, <1>6, <1>7, <1>9, <1>11, <1>12 DEF Added, FullGroups, Continues
<1>14. new = AddedGroups(gs, all) /\ rest = AddedRest(all)
  BY DEF new, f, rest, whole, AddedGroups, AddedRest
<1> QED BY <1>13, <1>14

LEMMA LesserIs ==
  ASSUME NEW a \in Int, NEW b \in Int
  PROVE  Min({a, b}) = IF a <= b THEN a ELSE b
<1> DEFINE low == IF a <= b THEN a ELSE b
<1>1. low \in {a, b} /\ \A y \in {a, b} : low =< y
  OBVIOUS
<1>2. Min({a, b}) \in {a, b} /\ \A y \in {a, b} : Min({a, b}) =< y
  BY <1>1 DEF Min
<1> QED BY <1>1, <1>2

(* What close writes, and what it must be.                                  *)
ClosedGroups(gs, all) ==
  gs \o [g \in 1..(Len(all) + GroupRows - 1) \div GroupRows |->
           SubSeq(all, (g - 1) * GroupRows + 1, Min({g * GroupRows, Len(all)}))]
Closed(new, S, R, n) ==
  /\ new \in Seq(Seq(S))
  /\ \A g \in DOMAIN new :
       /\ new[g] # <<>> /\ (Len(new[g]) = GroupRows \/ g = Len(new))
       /\ Continues(new[g], R, (g - 1) * GroupRows)
  /\ new = <<>> => n = 0
  /\ new # <<>> => (Len(new) - 1) * GroupRows + Len(new[Len(new)]) = n

\* What close writes with the rows that were left: every group is full but the last.
LEMMA CloseIs ==
  ASSUME MergeAssumption, NEW S, NEW R, NEW gs \in Seq(Seq(S)), NEW all \in Seq(S),
         FullGroups(gs, R), Continues(all, R, Len(gs) * GroupRows)
  PROVE  Closed(ClosedGroups(gs, all), S, R, Len(gs) * GroupRows + Len(all))
<1>h. /\ \A g \in DOMAIN gs : /\ Len(gs[g]) = GroupRows
                              /\ \A i \in DOMAIN gs[g] : gs[g][i] = R[(g - 1) * GroupRows + i]
      /\ \A i \in DOMAIN all : all[i] = R[Len(gs) * GroupRows + i]
  BY DEF FullGroups, Continues
<1> DEFINE total == (Len(all) + GroupRows - 1) \div GroupRows
           f == [g \in 1..total |-> SubSeq(all, (g - 1) * GroupRows + 1, Min({g * GroupRows, Len(all)}))]
           new == gs \o f
<1>1. GroupRows \in Nat \ {0} /\ Len(all) \in Nat /\ Len(gs) \in Nat
  BY DEF MergeAssumption
<1>2. PICK d, n : d = GroupRows /\ n = Len(all)
  OBVIOUS
<1>3. /\ d \in Nat /\ d >= 1 /\ n \in Nat /\ total \in Nat /\ total * d \in Int
      /\ n <= total * d /\ (total * d) - d < n
  <2>1. n + d - 1 \in Nat /\ d \in Nat \ {0}
    BY <1>1, <1>2
  <2>2. /\ (n + d - 1) \div d \in Nat /\ ((n + d - 1) \div d) * d <= n + d - 1
        /\ n + d - 1 < ((n + d - 1) \div d) * d + d
    BY <2>1, WholeGroups
  <2>3. total = (n + d - 1) \div d
    BY <1>2
  <2> HIDE DEF total
  <2>4. total \in Nat /\ total * d <= n + d - 1 /\ n + d - 1 < total * d + d /\ total * d \in Int
    BY <2>1, <2>2, <2>3, TimesIs
  <2> QED BY <2>1, <2>4, <1>1, <1>2
<1> HIDE DEF total
<1>4. ASSUME NEW g \in 1..total
      PROVE  /\ f[g] \in Seq(S) /\ f[g] # <<>> /\ (g < total => Len(f[g]) = d)
             /\ g = total => (g - 1) * d + Len(f[g]) = n
             /\ \A i \in DOMAIN f[g] : f[g][i] = R[(Len(gs) + g - 1) * d + i]
  <2>1. PICK lo, up : lo = (g - 1) * d /\ up = g * d
    OBVIOUS
  <2>2. PICK hi : hi = IF up <= n THEN up ELSE n
    OBVIOUS
  <2>3. /\ lo \in Int /\ up \in Int /\ up = lo + d /\ 0 <= lo /\ up <= total * d
        /\ g < total => up <= (total * d) - d
    <3>1. g \in Int /\ 0 <= g - 1 /\ g <= total /\ total \in Int /\ g - 1 \in Int /\ 0 \in Int /\ 1 \in Int /\ total - 1 \in Int
      BY <1>3
    <3>2. (g - 1) * d = g * d - 1 * d /\ g * d \in Int /\ g * d <= total * d /\ 1 * d = d
      BY <3>1, <1>3, TimesIs
    <3>3. 0 * d <= (g - 1) * d /\ 0 * d = 0
      BY <3>1, <1>3, TimesIs
    <3>4. (total - 1) * d = total * d - 1 * d
      BY <3>1, <1>3, TimesIs
    <3>5. g < total => g * d <= (total - 1) * d
      BY <3>1, <1>3, TimesIs
    <3> QED BY <3>2, <3>3, <3>4, <3>5, <2>1, <1>3
  <2>4. /\ lo \in Nat /\ hi \in Nat /\ lo < hi /\ hi <= Len(all)
        /\ g < total => hi - lo = d
        /\ g = total => hi = n
    <3>1. lo < n
      BY <2>3, <1>3
    <3>2. g < total => up <= n
      BY <2>3, <1>3
    <3>3. g = total => up = total * d
      BY <2>1
    <3> QED BY <3>1, <3>2, <3>3, <2>2, <2>3, <1>2, <1>3
  <2>5. f[g] = SubSeq(all, lo + 1, hi)
    <3>1. Min({up, n}) = hi
      BY <2>2, <2>3, <1>3, LesserIs
    <3> QED BY <3>1, <2>1, <1>2
  <2>6. PICK t : t = SubSeq(all, lo + 1, hi)
    OBVIOUS
  <2>7. /\ t \in Seq(S) /\ Len(t) = hi - lo /\ DOMAIN t = 1..hi - lo
        /\ \A i \in 1..hi - lo : t[i] = all[lo + i]
    <3>1. lo \in Nat /\ hi \in Nat /\ lo <= hi /\ hi <= Len(all)
      BY <2>4
    <3>2. all \in Seq(S)
      OBVIOUS
    <3>3. IsStretch(t, all, S, lo, hi)
      BY ONLY <3>1, <3>2, <2>6, StretchIs
    <3> QED BY ONLY <3>3 DEF IsStretch
  <2>8. (Len(gs) + g - 1) * d = Len(gs) * d + lo /\ Len(gs) * d \in Int
    <3>1. Len(gs) \in Int /\ g - 1 \in Int /\ d \in Nat /\ Len(gs) + g - 1 = Len(gs) + (g - 1)
      BY <1>1, <1>3
    <3>2. (Len(gs) + (g - 1)) * d = Len(gs) * d + (g - 1) * d /\ Len(gs) * d \in Int
      BY <3>1, TimesIs
    <3> QED BY <3>1, <3>2, <2>1
  <2>9. \A i \in DOMAIN t : t[i] = R[(Len(gs) + g - 1) * d + i]
    <3> SUFFICES ASSUME NEW i \in 1..hi - lo PROVE t[i] = R[(Len(gs) + g - 1) * d + i]
      BY <2>7
    <3>1. PICK j : j = lo + i
      OBVIOUS
    <3>2. j \in DOMAIN all /\ t[i] = all[j] /\ i \in Int
      BY <2>4, <2>7, <3>1, <1>1
    <3>3. all[j] = R[Len(gs) * d + j]
      BY <3>2, <1>2, <1>h
    <3>4. Len(gs) * d + j = (Len(gs) + g - 1) * d + i
      BY <2>8, <3>1, <3>2, <2>4
    <3> QED BY <3>2, <3>3, <3>4
  <2>10. /\ t # <<>> /\ (g < total => Len(t) = d)
         /\ g = total => (g - 1) * d + Len(t) = n
    BY <2>1, <2>4, <2>7
  <2>11. f[g] = t
    BY <2>5, <2>6
  <2> HIDE DEF f
  <2> QED BY ONLY <2>7, <2>9, <2>10, <2>11
<1>5. f \in [1..total -> Seq(S)]
  BY <1>4
<1> HIDE DEF f
<1>6. /\ new \in Seq(Seq(S)) /\ Len(new) = Len(gs) + total
      /\ \A g \in DOMAIN new :
           \/ g \in DOMAIN gs /\ new[g] = gs[g]
           \/ g - Len(gs) \in 1..total /\ new[g] = f[g - Len(gs)] /\ Len(gs) + (g - Len(gs)) = g
  BY <1>3, <1>5, GroupsJoin
<1> HIDE DEF new
<1>7. ASSUME NEW g \in DOMAIN new
      PROVE  /\ new[g] # <<>> /\ (Len(new[g]) = d \/ g = Len(new))
             /\ \A i \in DOMAIN new[g] : new[g][i] = R[(g - 1) * d + i]
  <2>1. CASE g \in DOMAIN gs /\ new[g] = gs[g]
    <3>1. Len(gs[g]) = d /\ \A i \in DOMAIN gs[g] : gs[g][i] = R[(g - 1) * d + i]
      BY <2>1, <1>2, <1>h
    <3>2. gs[g] # <<>>
      BY <3>1, <1>3
    <3> QED BY <2>1, <3>1, <3>2
  <2>2. CASE g - Len(gs) \in 1..total /\ new[g] = f[g - Len(gs)] /\ Len(gs) + (g - Len(gs)) = g
    <3>1. PICK h : h = g - Len(gs)
      OBVIOUS
    <3>2. /\ h \in 1..total /\ new[g] = f[h] /\ Len(gs) + h = g /\ Len(gs) + h - 1 = g - 1
      BY <3>1, <2>2, <1>1
    <3>3. h < total \/ g = Len(new)
      BY <3>2, <1>1, <1>3, <1>6
    <3> QED BY <3>2, <3>3, <1>4
  <2> QED BY <1>6, <2>1, <2>2
<1>8. ASSUME total = 0 PROVE Closed(new, S, R, Len(gs) * GroupRows + Len(all))
  <2>1. n = 0 /\ Len(new) = Len(gs)
    <3>1. 0 * d = 0
      BY <1>3, TimesIs
    <3> QED BY <3>1, <1>8, <1>1, <1>3, <1>6
  <2>2. new = <<>> => Len(gs) * d + n = 0
    BY <2>1, <1>6, <1>1, <1>3, TimesIs
  <2>3. ASSUME new # <<>> PROVE (Len(new) - 1) * d + Len(new[Len(new)]) = Len(gs) * d + n
    <3>1. PICK g : g = Len(new)
      OBVIOUS
    <3>2. g \in DOMAIN new /\ g = Len(gs) /\ g \in Int /\ 1 \in Int
      BY <2>1, <2>3, <3>1, <1>1, <1>6
    <3>3. ~(g - Len(gs) \in 1..total)
      BY <1>8, <3>2
    <3>4. g \in DOMAIN gs /\ new[g] = gs[g]
      BY <1>6, <3>2, <3>3
    <3>5. Len(new[g]) = d /\ (g - 1) * d = g * d - 1 * d /\ 1 * d = d /\ g * d \in Int
      BY <3>2, <3>4, <1>2, <1>3, <1>h, TimesIs
    <3> QED BY <3>1, <3>2, <3>5, <2>1, <1>3
  <2> QED BY <2>2, <2>3, <1>2, <1>6, <1>7 DEF Closed, Continues
<1>9. ASSUME total # 0 PROVE Closed(new, S, R, Len(gs) * GroupRows + Len(all))
  <2>1. PICK g : g = Len(new)
    OBVIOUS
  <2>2. g \in DOMAIN new /\ g = Len(gs) + total /\ total \in 1..total /\ total >= 1
    BY <1>1, <1>3, <1>6, <1>9, <2>1
  <2>3. new # <<>>
    BY <2>2
  <2>4. new[g] = f[total] /\ Len(f[total]) \in Int
    <3>1. ~(g \in DOMAIN gs)
      BY <2>2, <1>1, <1>3
    <3>2. g - Len(gs) = total
      BY <2>2, <1>1, <1>3
    <3> QED BY <3>1, <3>2, <2>2, <1>4, <1>6
  <2>5. (total - 1) * d + Len(f[total]) = n
    BY <2>2, <1>4
  <2>6. (g - 1) * d = Len(gs) * d + (total - 1) * d /\ Len(gs) * d \in Int /\ (total - 1) * d \in Int
    <3>1. Len(gs) \in Int /\ total - 1 \in Int /\ g - 1 = Len(gs) + (total - 1)
      BY <2>2, <1>1, <1>3
    <3> QED BY <3>1, <1>3, TimesIs
  <2>7. (g - 1) * d + Len(new[g]) = Len(gs) * d + n
    BY <2>4, <2>5, <2>6
  <2> QED BY <2>1, <2>3, <2>7, <1>2, <1>6, <1>7 DEF Closed, Continues
<1>10. new = ClosedGroups(gs, all)
  BY DEF new, f, total, ClosedGroups
<1> QED BY <1>8, <1>9, <1>10

\* The place of the newest row for a key in the delta, or 0.
Newest(key) == Max({n \in DOMAIN incoming : incoming[n] = key} \union {0})
MergedRows == {Reference[i] : i \in 1..Cardinality(Merged)}
Delta == ToSet(incoming)
MergeTypes ==
  existing \in SUBSET RowKeys /\ incoming \in Seq(RowKeys) /\ batchRows \in Nat \ {0}

LEMMA NewestIs ==
  ASSUME MergeTypes, NEW key \in Delta
  PROVE  Max({n \in DOMAIN incoming : incoming[n] = key}) = Newest(key)
<1> DEFINE S == {n \in DOMAIN incoming : incoming[n] = key}
<1>1. PICK l : l = Len(incoming)
  OBVIOUS
<1>2. l \in Nat /\ S \in SUBSET (1..l)
  BY <1>1 DEF MergeTypes
<1>3. S # {}
  BY DEF Delta, ToSet
<1> HIDE DEF S
<1>4. PICK top \in S : \A m \in S : m <= top
  BY <1>2, <1>3, HighestThere
<1>5. \A m \in S : m \in Int /\ m >= 1
  BY <1>2
<1>6. Max(S) \in S /\ \A y \in S : Max(S) >= y
  <2>1. \E x \in S : \A y \in S : x >= y
    BY <1>4, <1>5
  <2> QED BY <2>1 DEF Max
<1>7. Max(S \union {0}) \in S \union {0} /\ \A y \in S \union {0} : Max(S \union {0}) >= y
  <2>1. \E x \in S \union {0} : \A y \in S \union {0} : x >= y
    BY <1>4, <1>5
  <2> QED BY <2>1 DEF Max
<1>8. Max(S \union {0}) # 0
  BY <1>3, <1>5, <1>7
<1>9. PICK x, y : x = Max(S) /\ y = Max(S \union {0})
  OBVIOUS
<1>10. x \in S /\ y \in S /\ x >= y /\ y >= x
  BY <1>6, <1>7, <1>8, <1>9
<1>11. x = y
  BY <1>5, <1>10
<1> QED BY <1>9, <1>11 DEF Newest, S

LEMMA NoneIsNewest ==
  ASSUME NEW key, key \notin Delta
  PROVE  Newest(key) = 0
<1>1. {n \in DOMAIN incoming : incoming[n] = key} = {}
  BY DEF Delta, ToSet
<1>2. Max({0}) = 0
  BY DEF Max
<1> QED BY <1>1, <1>2 DEF Newest

\* The two sides and the reference, row by row.
LEMMA KeysAreFinite ==
  ASSUME MergeTypes
  PROVE  /\ existing \in SUBSET Int /\ IsFiniteSet(existing) /\ Delta \in SUBSET Int /\ IsFiniteSet(Delta)
         /\ Merged \in SUBSET Int /\ IsFiniteSet(Merged) /\ Merged = existing \union Delta
         /\ \A k \in Merged : k \in 1..MaxKey
         /\ Cardinality(existing) \in Nat /\ Cardinality(Delta) \in Nat /\ Cardinality(Merged) \in Nat
<1>1. existing \in SUBSET RowKeys /\ Delta \in SUBSET RowKeys /\ Merged = existing \union Delta
  BY DEF MergeTypes, Delta, ToSet, Merged
<1>2. IsFiniteSet(RowKeys) /\ RowKeys = 1..MaxKey /\ MaxKey \in Int
  BY MergeAssumption, FS_Interval DEF MergeAssumption, RowKeys
<1>3. IsFiniteSet(existing) /\ IsFiniteSet(Delta) /\ Merged \in SUBSET RowKeys
  BY <1>1, <1>2, FS_Subset
<1>4. IsFiniteSet(Merged)
  BY <1>2, <1>3, FS_Subset
<1>5. \A k \in RowKeys : k \in Int
  BY <1>2
<1>6. existing \in SUBSET Int /\ Delta \in SUBSET Int /\ Merged \in SUBSET Int
  BY <1>1, <1>3, <1>5
<1> QED BY <1>1, <1>2, <1>3, <1>4, <1>6, FS_CardinalityType

LEMMA ColumnsAre ==
  ASSUME MergeTypes
  PROVE  /\ StoredRows = [i \in 1..Cardinality(existing) |-> Row(Ascending(existing)[i], 0)]
         /\ StoredRows \in Seq({StoredRows[i] : i \in 1..Cardinality(existing)})
         /\ Len(StoredRows) = Cardinality(existing)
         /\ DeltaColumns = [i \in 1..Cardinality(Delta) |-> Row(Ascending(Delta)[i], Newest(Ascending(Delta)[i]))]
         /\ DeltaColumns \in Seq({DeltaColumns[i] : i \in 1..Cardinality(Delta)})
         /\ Len(DeltaColumns) = Cardinality(Delta)
         /\ Reference = [i \in 1..Cardinality(Merged) |-> Row(Ascending(Merged)[i], Newest(Ascending(Merged)[i]))]
<1>1. Cardinality(existing) \in Nat /\ Cardinality(Delta) \in Nat
  BY KeysAreFinite
<1>2. StoredRows = [i \in 1..Cardinality(existing) |-> Row(Ascending(existing)[i], 0)]
  BY DEF StoredRows, Ascending
<1>3. \A i \in 1..Cardinality(Delta) : Ascending(Delta)[i] \in Delta
  BY KeysAreFinite, AscendingEnumerates
<1>4. DeltaColumns = [i \in 1..Cardinality(Delta) |-> Row(Ascending(Delta)[i], Newest(Ascending(Delta)[i]))]
  <2>1. DOMAIN Ascending(Delta) = 1..Cardinality(Delta)
    BY DEF Ascending
  <2>2. DeltaColumns = [i \in DOMAIN Ascending(Delta) |->
           Row(Ascending(Delta)[i], Max({n \in DOMAIN incoming : incoming[n] = Ascending(Delta)[i]}))]
    BY DEF DeltaColumns, Delta
  <2>3. \A i \in 1..Cardinality(Delta) :
          Max({n \in DOMAIN incoming : incoming[n] = Ascending(Delta)[i]}) = Newest(Ascending(Delta)[i])
    BY <1>3, NewestIs
  <2> QED BY <2>1, <2>2, <2>3
<1>5. Reference = [i \in 1..Cardinality(Merged) |-> Row(Ascending(Merged)[i], Newest(Ascending(Merged)[i]))]
  BY DEF Reference, Newest
<1>6. ASSUME NEW n \in Nat, NEW s, s = [i \in 1..n |-> s[i]]
      PROVE  s \in Seq({s[i] : i \in 1..n}) /\ Len(s) = n
  BY <1>6
<1>7. /\ StoredRows \in Seq({StoredRows[i] : i \in 1..Cardinality(existing)}) /\ Len(StoredRows) = Cardinality(existing)
  <2>1. StoredRows = [i \in 1..Cardinality(existing) |-> StoredRows[i]]
    BY <1>2
  <2> QED BY <2>1, <1>1, <1>6
<1>8. /\ DeltaColumns \in Seq({DeltaColumns[i] : i \in 1..Cardinality(Delta)}) /\ Len(DeltaColumns) = Cardinality(Delta)
  <2>1. DeltaColumns = [i \in 1..Cardinality(Delta) |-> DeltaColumns[i]]
    BY <1>4
  <2> QED BY <2>1, <1>1, <1>6
<1> QED BY <1>2, <1>4, <1>5, <1>7, <1>8

\* A stretch of the reference, key by key.
LEMMA StretchOfReference ==
  ASSUME MergeTypes, NEW b \in Int, NEW c \in Int, b <= c
  PROVE  LET B == {k \in existing : b <= k /\ k < c}
             C == {k \in Delta : b <= k /\ k < c}
         IN  /\ B \in SUBSET Int /\ IsFiniteSet(B) /\ C \in SUBSET Int /\ IsFiniteSet(C)
             /\ B \union C \in SUBSET Int /\ IsFiniteSet(B \union C) /\ Cardinality(B \union C) \in Nat
             /\ Cardinality(B) \in Nat /\ Cardinality(C) \in Nat
             /\ Rank(existing, b) \in Nat /\ Rank(existing, c) = Rank(existing, b) + Cardinality(B)
             /\ Rank(existing, c) <= Cardinality(existing)
             /\ Rank(Delta, b) \in Nat /\ Rank(Delta, c) = Rank(Delta, b) + Cardinality(C)
             /\ Rank(Delta, c) <= Cardinality(Delta)
             /\ Rank(Merged, b) \in Nat /\ Rank(Merged, c) = Rank(Merged, b) + Cardinality(B \union C)
             /\ Rank(Merged, c) <= Cardinality(Merged)
             /\ \A i \in 1..Cardinality(B) : StoredRows[Rank(existing, b) + i] = Row(Ascending(B)[i], 0)
             /\ \A i \in 1..Cardinality(C) :
                  DeltaColumns[Rank(Delta, b) + i] = Row(Ascending(C)[i], Newest(Ascending(C)[i]))
             /\ \A i \in 1..Cardinality(B \union C) :
                  Reference[Rank(Merged, b) + i] = Row(Ascending(B \union C)[i], Newest(Ascending(B \union C)[i]))
<1> DEFINE B == {k \in existing : b <= k /\ k < c}
           C == {k \in Delta : b <= k /\ k < c}
           U == {k \in Merged : b <= k /\ k < c}
<1>0. /\ existing \in SUBSET Int /\ IsFiniteSet(existing) /\ Delta \in SUBSET Int /\ IsFiniteSet(Delta)
      /\ Merged \in SUBSET Int /\ IsFiniteSet(Merged) /\ Merged = existing \union Delta
      /\ Cardinality(existing) \in Nat /\ Cardinality(Delta) \in Nat /\ Cardinality(Merged) \in Nat
  BY KeysAreFinite
<1>1. U = B \union C
  BY <1>0
<1>2. /\ B \in SUBSET Int /\ IsFiniteSet(B) /\ Cardinality(B) \in Nat /\ Rank(existing, b) \in Nat
      /\ Rank(existing, c) = Rank(existing, b) + Cardinality(B) /\ Rank(existing, c) \in 0..Cardinality(existing)
      /\ \A i \in 1..Cardinality(B) : Ascending(existing)[Rank(existing, b) + i] = Ascending(B)[i]
  BY <1>0, StretchesOfASet
<1>3. /\ C \in SUBSET Int /\ IsFiniteSet(C) /\ Cardinality(C) \in Nat /\ Rank(Delta, b) \in Nat
      /\ Rank(Delta, c) = Rank(Delta, b) + Cardinality(C) /\ Rank(Delta, c) \in 0..Cardinality(Delta)
      /\ \A i \in 1..Cardinality(C) : Ascending(Delta)[Rank(Delta, b) + i] = Ascending(C)[i]
  BY <1>0, StretchesOfASet
<1>4. /\ U \in SUBSET Int /\ IsFiniteSet(U) /\ Cardinality(U) \in Nat /\ Rank(Merged, b) \in Nat
      /\ Rank(Merged, c) = Rank(Merged, b) + Cardinality(U) /\ Rank(Merged, c) \in 0..Cardinality(Merged)
      /\ \A i \in 1..Cardinality(U) : Ascending(Merged)[Rank(Merged, b) + i] = Ascending(U)[i]
  BY <1>0, StretchesOfASet
<1> HIDE DEF B, C, U
<1>5. ASSUME NEW i \in 1..Cardinality(B) PROVE StoredRows[Rank(existing, b) + i] = Row(Ascending(B)[i], 0)
  <2>1. Rank(existing, b) + i \in 1..Cardinality(existing)
    BY <1>0, <1>2
  <2> QED BY <2>1, <1>2, ColumnsAre
<1>6. ASSUME NEW i \in 1..Cardinality(C)
      PROVE  DeltaColumns[Rank(Delta, b) + i] = Row(Ascending(C)[i], Newest(Ascending(C)[i]))
  <2>1. PICK j : j = Rank(Delta, b) + i
    OBVIOUS
  <2>2. j \in 1..Cardinality(Delta) /\ Ascending(Delta)[j] = Ascending(C)[i]
    BY <2>1, <1>0, <1>3
  <2>3. DeltaColumns[j] = Row(Ascending(Delta)[j], Newest(Ascending(Delta)[j]))
    BY <2>2, ColumnsAre
  <2> QED BY <2>1, <2>2, <2>3
<1>7. ASSUME NEW i \in 1..Cardinality(U)
      PROVE  Reference[Rank(Merged, b) + i] = Row(Ascending(U)[i], Newest(Ascending(U)[i]))
  <2>1. PICK j : j = Rank(Merged, b) + i
    OBVIOUS
  <2>2. j \in 1..Cardinality(Merged) /\ Ascending(Merged)[j] = Ascending(U)[i]
    <3>1. PICK r, u, m : r = Rank(Merged, b) /\ u = Cardinality(U) /\ m = Cardinality(Merged)
      OBVIOUS
    <3>2. r \in Nat /\ u \in Nat /\ m \in Nat /\ r + u <= m
      BY <3>1, <1>0, <1>4
    <3>3. j \in 1..m
      BY <3>1, <3>2, <2>1
    <3> QED BY <3>1, <3>3, <2>1, <1>4
  <2>3. Reference[j] = Row(Ascending(Merged)[j], Newest(Ascending(Merged)[j]))
    BY <2>2, ColumnsAre
  <2> QED BY <2>1, <2>2, <2>3
<1>8. /\ Rank(existing, c) <= Cardinality(existing) /\ Rank(Delta, c) <= Cardinality(Delta)
      /\ Rank(Merged, c) <= Cardinality(Merged)
  BY <1>0, <1>2, <1>3, <1>4
<1> QED BY <1>1, <1>2, <1>3, <1>4, <1>5, <1>6, <1>7, <1>8 DEF B, C

\* A function on the first whole numbers is a sequence.
LEMMA SequenceIs ==
  ASSUME NEW S, NEW n \in Nat, NEW s, s = [i \in 1..n |-> s[i]], \A i \in 1..n : s[i] \in S
  PROVE  s \in Seq(S) /\ Len(s) = n /\ DOMAIN s = 1..n
OBVIOUS

\* One batch with its share of the delta is a stretch of the reference.
LEMMA BatchIs ==
  ASSUME MergeTypes, NEW b \in Int, NEW c \in Int, b <= c
  PROVE  LET out == Splice(SubSeq(StoredRows, Rank(existing, b) + 1, Rank(existing, c)),
                           SubSeq(DeltaColumns, Rank(Delta, b) + 1, Rank(Delta, c)))
         IN  /\ out \in Seq(MergedRows) /\ Len(out) = Rank(Merged, c) - Rank(Merged, b)
             /\ \A i \in DOMAIN out : out[i] = Reference[Rank(Merged, b) + i]
<1>0. PICK B, C : B = {k \in existing : b <= k /\ k < c} /\ C = {k \in Delta : b <= k /\ k < c}
  OBVIOUS
<1> DEFINE U == B \union C
<1>1. PICK eb, ec, db, dc, ub, uc :
         /\ eb = Rank(existing, b) /\ ec = Rank(existing, c) /\ db = Rank(Delta, b) /\ dc = Rank(Delta, c)
         /\ ub = Rank(Merged, b) /\ uc = Rank(Merged, c)
  OBVIOUS
<1>2. PICK rows, delta : rows = SubSeq(StoredRows, eb + 1, ec) /\ delta = SubSeq(DeltaColumns, db + 1, dc)
  OBVIOUS
<1>3. /\ B \in SUBSET Int /\ IsFiniteSet(B) /\ C \in SUBSET Int /\ IsFiniteSet(C)
      /\ U \in SUBSET Int /\ IsFiniteSet(U) /\ Cardinality(U) \in Nat
      /\ Cardinality(B) \in Nat /\ Cardinality(C) \in Nat
      /\ eb \in Nat /\ ec = eb + Cardinality(B) /\ ec <= Cardinality(existing)
      /\ db \in Nat /\ dc = db + Cardinality(C) /\ dc <= Cardinality(Delta)
      /\ ub \in Nat /\ uc = ub + Cardinality(U) /\ uc <= Cardinality(Merged)
      /\ \A i \in 1..Cardinality(B) : StoredRows[eb + i] = Row(Ascending(B)[i], 0)
      /\ \A i \in 1..Cardinality(C) : DeltaColumns[db + i] = Row(Ascending(C)[i], Newest(Ascending(C)[i]))
      /\ \A i \in 1..Cardinality(U) : Reference[ub + i] = Row(Ascending(U)[i], Newest(Ascending(U)[i]))
  BY <1>0, <1>1, StretchOfReference
<1>4. \A k \in U : k \in C \/ (k \in B \ C /\ k \notin Delta)
  BY <1>0
<1>e. PICK stored, columns : stored = StoredRows /\ columns = DeltaColumns
  OBVIOUS
<1>5. /\ DOMAIN rows = 1..Cardinality(B) /\ Len(rows) = Cardinality(B) /\ \A i \in 1..Cardinality(B) : rows[i] = Row(Ascending(B)[i], 0)
  <2>1. PICK S : S = {StoredRows[i] : i \in 1..Cardinality(existing)}
    OBVIOUS
  <2>2. stored \in Seq(S) /\ Len(stored) = Cardinality(existing)
    BY <2>1, <1>e, ColumnsAre
  <2>3. eb \in Nat /\ ec \in Nat /\ eb <= ec /\ ec <= Len(stored) /\ ec - eb = Cardinality(B)
    BY <2>2, <1>3
  <2>4. Len(rows) = ec - eb /\ DOMAIN rows = 1..ec - eb /\ \A i \in 1..ec - eb : rows[i] = stored[eb + i]
    <3>1. rows = SubSeq(stored, eb + 1, ec)
      BY <1>2, <1>e
    <3>2. IsStretch(rows, stored, S, eb, ec)
      BY ONLY <3>1, <2>2, <2>3, StretchIs
    <3> QED BY ONLY <3>2 DEF IsStretch
  <2> QED BY <2>3, <2>4, <1>3, <1>e
<1>6. /\ DOMAIN delta = 1..Cardinality(C) /\ Len(delta) = Cardinality(C)
      /\ \A i \in 1..Cardinality(C) : delta[i] = Row(Ascending(C)[i], Newest(Ascending(C)[i]))
  <2>1. PICK S : S = {DeltaColumns[i] : i \in 1..Cardinality(Delta)}
    OBVIOUS
  <2>2. columns \in Seq(S) /\ Len(columns) = Cardinality(Delta)
    BY <2>1, <1>e, ColumnsAre
  <2>3. db \in Nat /\ dc \in Nat /\ db <= dc /\ dc <= Len(columns) /\ dc - db = Cardinality(C)
    BY <2>2, <1>3
  <2>4. Len(delta) = dc - db /\ DOMAIN delta = 1..dc - db /\ \A i \in 1..dc - db : delta[i] = columns[db + i]
    <3>1. delta = SubSeq(columns, db + 1, dc)
      BY <1>2, <1>e
    <3>2. IsStretch(delta, columns, S, db, dc)
      BY ONLY <3>1, <2>2, <2>3, StretchIs
    <3> QED BY ONLY <3>2 DEF IsStretch
  <2> QED BY <2>3, <2>4, <1>3, <1>e
<1>7. PICK out : out = Splice(rows, delta)
  OBVIOUS
<1>8. /\ out = [i \in 1..Cardinality(U) |-> out[i]]
      /\ \A k \in C : out[Rank(U, k) + 1] = delta[Rank(C, k) + 1]
      /\ \A k \in B \ C : out[Rank(U, k) + 1] = rows[Rank(B, k) + 1]
  <2>1. InKeyOrder(rows, B) /\ InKeyOrder(delta, C)
    BY <1>5, <1>6 DEF Row, InKeyOrder
  <2>2. B \in SUBSET Int /\ IsFiniteSet(B) /\ C \in SUBSET Int /\ IsFiniteSet(C)
    BY <1>3
  <2>3. Spliced(out, rows, B, delta, C)
    BY ONLY <2>1, <2>2, <1>7, SpliceIs
  <2> QED BY <2>3 DEF Spliced
<1>9. ASSUME NEW k \in C PROVE out[Rank(U, k) + 1] = Row(k, Newest(k))
  <2>1. PICK n : n = Rank(C, k) + 1
    OBVIOUS
  <2>2. n \in 1..Cardinality(C) /\ Ascending(C)[n] = k
    BY <2>1, <1>3, AscendingEnumerates
  <2>3. delta[n] = Row(k, Newest(k))
    BY <2>2, <1>6
  <2> QED BY <2>1, <2>3, <1>8
<1>10. ASSUME NEW k \in B \ C, k \notin Delta PROVE out[Rank(U, k) + 1] = Row(k, Newest(k))
  <2>1. PICK n : n = Rank(B, k) + 1
    OBVIOUS
  <2>2. n \in 1..Cardinality(B) /\ Ascending(B)[n] = k
    BY <2>1, <1>3, AscendingEnumerates
  <2>3. rows[n] = Row(k, 0)
    BY <2>2, <1>5
  <2>4. Newest(k) = 0
    BY <1>10, NoneIsNewest
  <2> QED BY <2>1, <2>3, <2>4, <1>8
<1> HIDE DEF U
<1>11. ASSUME NEW i \in 1..Cardinality(U) PROVE out[i] = Reference[ub + i]
  <2>1. PICK k : k = Ascending(U)[i]
    OBVIOUS
  <2>2. k \in U /\ Rank(U, k) = i - 1 /\ i \in Int
    <3>1. U \in SUBSET Int /\ IsFiniteSet(U) /\ i \in 1..Cardinality(U) /\ i \in Int
      BY <1>3
    <3> QED BY ONLY <2>1, <3>1, AscendingEnumerates
  <2>3. Rank(U, k) + 1 = i
    BY <2>2
  <2>4. out[i] = Row(k, Newest(k))
    BY <2>2, <2>3, <1>4, <1>9, <1>10
  <2> QED BY <2>1, <2>4, <1>3
<1>12. \A i \in 1..Cardinality(U) : ub + i \in 1..Cardinality(Merged)
  BY <1>3, KeysAreFinite
<1>13. \A i \in 1..Cardinality(U) : out[i] \in MergedRows
  BY <1>11, <1>12 DEF MergedRows
<1>14. out \in Seq(MergedRows) /\ Len(out) = Cardinality(U) /\ DOMAIN out = 1..Cardinality(U)
  <2>1. PICK S, n : S = MergedRows /\ n = Cardinality(U)
    OBVIOUS
  <2>2. n \in Nat /\ out = [i \in 1..n |-> out[i]] /\ \A i \in 1..n : out[i] \in S
    BY <2>1, <1>3, <1>8, <1>13
  <2> QED BY <2>1, <2>2, SequenceIs
<1>15. Len(out) = uc - ub
  BY <1>3, <1>14
<1> QED BY <1>1, <1>2, <1>7, <1>11, <1>14, <1>15

\* When the stored panel is read, the rest of the delta is the rest of the reference.
LEMMA RestIs ==
  ASSUME MergeTypes, NEW b \in 0..MaxKey + 1, Rank(existing, b) = Cardinality(existing)
  PROVE  LET out == SubSeq(DeltaColumns, Rank(Delta, b) + 1, Len(DeltaColumns))
         IN  /\ out \in Seq(MergedRows) /\ Len(out) = Cardinality(Merged) - Rank(Merged, b)
             /\ Rank(Merged, b) \in Nat
             /\ \A i \in DOMAIN out : out[i] = Reference[Rank(Merged, b) + i]
<1>1. PICK c : c = MaxKey + 1
  OBVIOUS
<1>2. b \in Int /\ c \in Int /\ b <= c
  BY <1>1, MergeAssumption DEF MergeAssumption
<1> DEFINE B == {k \in existing : b <= k /\ k < c}
           C == {k \in Delta : b <= k /\ k < c}
<1>3. PICK db, dc, ub, uc :
        db = Rank(Delta, b) /\ dc = Rank(Delta, c) /\ ub = Rank(Merged, b) /\ uc = Rank(Merged, c)
  OBVIOUS
<1>4. /\ IsFiniteSet(B) /\ IsFiniteSet(C) /\ Cardinality(B) \in Nat /\ Cardinality(C) \in Nat
      /\ Rank(existing, c) = Rank(existing, b) + Cardinality(B) /\ Rank(existing, c) <= Cardinality(existing)
      /\ Rank(existing, b) \in Nat
      /\ db \in Nat /\ dc = db + Cardinality(C) /\ dc <= Cardinality(Delta)
      /\ ub \in Nat /\ uc = ub + Cardinality(B \union C) /\ uc <= Cardinality(Merged)
      /\ \A i \in 1..Cardinality(C) : DeltaColumns[db + i] = Row(Ascending(C)[i], Newest(Ascending(C)[i]))
      /\ \A i \in 1..Cardinality(B \union C) :
           Reference[ub + i] = Row(Ascending(B \union C)[i], Newest(Ascending(B \union C)[i]))
  BY <1>2, <1>3, StretchOfReference
<1>5. dc = Cardinality(Delta) /\ uc = Cardinality(Merged)
  <2>1. /\ \A k \in Merged : k < c
        /\ Delta \subseteq Merged
    <3>1. \A k \in Merged : k \in 1..MaxKey
      BY KeysAreFinite
    <3>2. Delta \subseteq Merged
      BY KeysAreFinite
    <3> QED BY <3>1, <3>2, <1>1, MergeAssumption DEF MergeAssumption
  <2>2. {k \in Delta : k < c} = Delta /\ {k \in Merged : k < c} = Merged
    BY <2>1
  <2> QED BY <2>2, <1>3 DEF Rank
<1> HIDE DEF B, C
<1>6. B \union C = C
  <2>1. Cardinality(B) = 0
    BY <1>4
  <2>2. B = {}
    BY <2>1, <1>4, FS_EmptySet
  <2> QED BY <2>2
<1>7. PICK out : out = SubSeq(DeltaColumns, db + 1, dc)
  OBVIOUS
<1>8. /\ out = [i \in 1..Cardinality(C) |-> out[i]]
      /\ \A i \in 1..Cardinality(C) : out[i] = DeltaColumns[db + i]
  <2>1. PICK S : S = {DeltaColumns[i] : i \in 1..Cardinality(Delta)}
    OBVIOUS
  <2>a. PICK columns : columns = DeltaColumns
    OBVIOUS
  <2>2. columns \in Seq(S) /\ Len(columns) = Cardinality(Delta)
    BY <2>1, <2>a, ColumnsAre
  <2>3. db \in Nat /\ dc \in Nat /\ db <= dc /\ dc <= Len(columns) /\ dc - db = Cardinality(C)
    BY <2>2, <1>4
  <2>4. DOMAIN out = 1..dc - db /\ \A i \in 1..dc - db : out[i] = columns[db + i]
    <3>1. out = SubSeq(columns, db + 1, dc)
      BY <1>7, <2>a
    <3>2. IsStretch(out, columns, S, db, dc)
      BY ONLY <3>1, <2>2, <2>3, StretchIs
    <3> QED BY ONLY <3>2 DEF IsStretch
  <2>5. out = [i \in DOMAIN out |-> out[i]]
    <3>1. out \in Seq(S)
      <4>1. out = SubSeq(columns, db + 1, dc)
        BY <1>7, <2>a
      <4>2. IsStretch(out, columns, S, db, dc)
        BY ONLY <4>1, <2>2, <2>3, StretchIs
      <4> QED BY ONLY <4>2 DEF IsStretch
    <3> QED BY <3>1
  <2> QED BY <2>3, <2>4, <2>5, <2>a
<1>9. \A i \in 1..Cardinality(C) : out[i] = Reference[ub + i] /\ ub + i \in 1..Cardinality(Merged)
  <2>1. \A i \in 1..Cardinality(C) : out[i] = Reference[ub + i]
    BY <1>4, <1>6, <1>8
  <2>2. \A i \in 1..Cardinality(C) : ub + i \in 1..Cardinality(Merged)
    <3>1. PICK n, m : n = Cardinality(C) /\ m = Cardinality(Merged)
      OBVIOUS
    <3>2. n \in Nat /\ m \in Nat /\ ub \in Nat /\ ub + n <= m
      BY <3>1, <1>4, <1>6, KeysAreFinite
    <3>3. \A i \in 1..n : ub + i \in 1..m
      BY <3>2
    <3> QED BY <3>1, <3>3
  <2> QED BY <2>1, <2>2
<1>10. \A i \in 1..Cardinality(C) : out[i] \in MergedRows
  BY <1>9 DEF MergedRows
<1>11. out \in Seq(MergedRows) /\ Len(out) = Cardinality(C) /\ DOMAIN out = 1..Cardinality(C)
  <2>1. PICK S, n : S = MergedRows /\ n = Cardinality(C)
    OBVIOUS
  <2>2. n \in Nat /\ out = [i \in 1..n |-> out[i]] /\ \A i \in 1..n : out[i] \in S
    BY <2>1, <1>4, <1>8, <1>10
  <2> QED BY <2>1, <2>2, SequenceIs
<1>12. Len(out) = Cardinality(Merged) - ub
  <2>1. PICK n, m : n = Cardinality(C) /\ m = Cardinality(Merged)
    OBVIOUS
  <2>2. n \in Nat /\ ub \in Nat /\ m = ub + n
    BY <2>1, <1>4, <1>5, <1>6
  <2> QED BY <2>1, <2>2, <1>11
<1>13. Len(DeltaColumns) = dc
  BY <1>5, ColumnsAre
<1> QED BY <1>3, <1>4, <1>7, <1>9, <1>11, <1>12, <1>13

\* How far a batch goes: to its last key, on both sides.
LEMMA UptoIs ==
  ASSUME MergeTypes, NEW n \in 1..Cardinality(existing)
  PROVE  LET last == StoredRows[n].key
         IN  /\ last \in 1..MaxKey /\ Rank(existing, last + 1) = n /\ DeltaUpto(last) = Rank(Delta, last + 1)
<1>1. PICK last : last = Ascending(existing)[n]
  OBVIOUS
<1>2. StoredRows[n].key = last
  BY <1>1, ColumnsAre DEF Row
<1>3. last \in existing /\ Rank(existing, last) = n - 1 /\ last \in 1..MaxKey /\ last \in Int
  BY <1>1, KeysAreFinite, AscendingEnumerates
<1>4. Rank(existing, last + 1) = n
  <2>1. last + 1 \in Int /\ last <= last + 1
    BY <1>3
  <2>2. {k \in existing : last <= k /\ k < last + 1} = {last}
    <3>1. \A k \in existing : k \in Int
      BY KeysAreFinite
    <3>2. \A k \in Int : last <= k /\ k < last + 1 <=> k = last
      BY <1>3
    <3> QED BY <3>1, <3>2, <1>3
  <2>3. Cardinality({last}) = 1
    BY FS_Singleton
  <2>4. Rank(existing, last + 1) = Rank(existing, last) + Cardinality({k \in existing : last <= k /\ k < last + 1})
    BY <2>1, <1>3, KeysAreFinite, StretchesOfASet
  <2> QED BY <2>2, <2>3, <2>4, <1>3
<1>5. DeltaUpto(last) = Rank(Delta, last + 1)
  <2>1. DOMAIN DeltaColumns = 1..Cardinality(Delta) /\ \A i \in DOMAIN DeltaColumns : DeltaColumns[i].key = Ascending(Delta)[i]
    BY ColumnsAre DEF Row
  <2>2. Position(DeltaColumns, last + 1) = Rank(Delta, last + 1)
    <3>1. last + 1 \in Int /\ Delta \in SUBSET Int /\ IsFiniteSet(Delta)
      BY <1>3, KeysAreFinite
    <3>2. PICK rows : rows = DeltaColumns
      OBVIOUS
    <3>3. Position(rows, last + 1) = Rank(Delta, last + 1)
      BY <3>1, <3>2, <2>1, PositionsAre
    <3> QED BY <3>2, <3>3
  <2>3. \A i \in DOMAIN DeltaColumns : DeltaColumns[i].key \in Int
    BY <2>1, KeysAreFinite, AscendingEnumerates
  <2>4. \A i \in DOMAIN DeltaColumns : DeltaColumns[i].key <= last <=> DeltaColumns[i].key < last + 1
    BY <2>3, <1>3
  <2>5. DeltaUpto(last) = Position(DeltaColumns, last + 1)
    BY <2>4 DEF DeltaUpto, Position
  <2> QED BY <2>2, <2>5
<1> QED BY <1>2, <1>3, <1>4, <1>5

(* The rows written so far are the reference up to a bound, which is where   *)
(* both sides have been read to; every group is full until close.            *)
MergeInv ==
  /\ MergeTypes
  /\ groups \in Seq(Seq(MergedRows)) /\ buffered \in Seq(MergedRows)
  /\ done => read = Cardinality(existing) /\ MergedSoFar
  /\ ~done =>
       /\ FullGroups(groups, Reference) /\ Continues(buffered, Reference, Len(groups) * GroupRows)
       /\ \E b \in 0..MaxKey + 1 :
            /\ read = Rank(existing, b) /\ cursor = Rank(Delta, b)
            /\ Len(groups) * GroupRows + Len(buffered) = Rank(Merged, b)

LEMMA RanksAreThere ==
  ASSUME MergeTypes, NEW b \in Int
  PROVE  /\ Rank(existing, b) \in Nat /\ Rank(Delta, b) \in Nat
         /\ Rank(Merged, b) \in Nat /\ Rank(Merged, b) <= Cardinality(Merged)
<1>1. b <= b
  OBVIOUS
<1> QED BY <1>1, StretchOfReference

\* The rows of one list after those of another, and what add and close make of them.
LEMMA RowsJoin ==
  ASSUME NEW S, NEW R, NEW rest \in Seq(S), NEW out \in Seq(S), NEW lo \in Int,
         Continues(rest, R, lo), Continues(out, R, lo + Len(rest))
  PROVE  /\ rest \o out \in Seq(S) /\ Len(rest \o out) = Len(rest) + Len(out)
         /\ Continues(rest \o out, R, lo)
<1>1. PICK all : all = rest \o out
  OBVIOUS
<1>2. /\ all \in Seq(S) /\ Len(all) = Len(rest) + Len(out) /\ Len(rest) \in Nat
      /\ \A k \in DOMAIN all :
           \/ k \in DOMAIN rest /\ all[k] = rest[k]
           \/ k - Len(rest) \in DOMAIN out /\ all[k] = out[k - Len(rest)] /\ Len(rest) + (k - Len(rest)) = k
  BY <1>1, SequencesJoin
<1>3. ASSUME NEW k \in DOMAIN all PROVE all[k] = R[lo + k]
  <2>1. CASE k \in DOMAIN rest /\ all[k] = rest[k]
    BY <2>1 DEF Continues
  <2>2. CASE k - Len(rest) \in DOMAIN out /\ all[k] = out[k - Len(rest)] /\ Len(rest) + (k - Len(rest)) = k
    <3>1. PICK j : j = k - Len(rest)
      OBVIOUS
    <3>2. all[k] = R[lo + Len(rest) + j] /\ k \in Int
      BY <3>1, <2>2, <1>2 DEF Continues
    <3>3. lo + Len(rest) + j = lo + k
      BY <3>1, <3>2, <1>2
    <3> QED BY <3>2, <3>3
  <2> QED BY <1>2, <2>1, <2>2
<1> QED BY <1>1, <1>2, <1>3 DEF Continues

LEMMA MergeInvInit == MergeInit => MergeInv
<1> SUFFICES ASSUME MergeInit PROVE MergeInv
  OBVIOUS
<1> USE MergeAssumption DEF MergeAssumption
<1>1. MergeTypes
  BY DEF MergeInit, MergeTypes
<1>2. read = 0 /\ cursor = 0 /\ buffered = <<>> /\ groups = <<>> /\ done = FALSE
  BY DEF MergeInit
<1>3. /\ groups \in Seq(Seq(MergedRows)) /\ buffered \in Seq(MergedRows) /\ Len(groups) = 0 /\ Len(buffered) = 0
      /\ DOMAIN groups = {} /\ DOMAIN buffered = {}
  BY <1>2
<1>4. ASSUME NEW S, \A k \in S : k \in 1..MaxKey PROVE Rank(S, 0) = 0
  <2>1. {j \in S : j < 0} = {}
    BY <1>4
  <2> QED BY <2>1, FS_EmptySet DEF Rank
<1>5. Rank(existing, 0) = 0 /\ Rank(Delta, 0) = 0 /\ Rank(Merged, 0) = 0
  <2>1. (\A k \in Merged : k \in 1..MaxKey) /\ Merged = existing \union Delta
    BY <1>1, KeysAreFinite
  <2>2. (\A k \in existing : k \in 1..MaxKey) /\ \A k \in Delta : k \in 1..MaxKey
    BY <2>1
  <2> QED BY <2>1, <2>2, <1>4
<1>6. 0 \in 0..MaxKey + 1 /\ 0 * GroupRows + 0 = 0
  OBVIOUS
<1>7. FullGroups(groups, Reference) /\ Continues(buffered, Reference, Len(groups) * GroupRows)
  BY <1>3 DEF FullGroups, Continues
<1>8. \E b \in 0..MaxKey + 1 :
        /\ read = Rank(existing, b) /\ cursor = Rank(Delta, b)
        /\ Len(groups) * GroupRows + Len(buffered) = Rank(Merged, b)
  BY <1>2, <1>3, <1>5, <1>6
<1> QED BY <1>1, <1>2, <1>3, <1>7, <1>8 DEF MergeInv

\* What the invariant says of the rows.
LEMMA MergeInvTells == MergeInv => MergedSoFar
<1> SUFFICES ASSUME MergeInv, ~done PROVE MergedSoFar
  BY DEF MergeInv
<1>0. GroupRows \in Nat /\ GroupRows >= 1
  BY MergeAssumption DEF MergeAssumption
<1>1. /\ groups \in Seq(Seq(MergedRows)) /\ buffered \in Seq(MergedRows)
      /\ \A g \in DOMAIN groups : Len(groups[g]) = GroupRows /\ Continues(groups[g], Reference, (g - 1) * GroupRows)
      /\ Continues(buffered, Reference, Len(groups) * GroupRows) /\ MergeTypes
  BY DEF MergeInv, FullGroups
<1>2. PICK b \in 0..MaxKey + 1 : Len(groups) * GroupRows + Len(buffered) = Rank(Merged, b)
  BY DEF MergeInv
<1>3. b \in Int
  BY MergeAssumption DEF MergeAssumption
<1>4. Rank(Merged, b) <= Cardinality(Merged)
  BY <1>1, <1>3, RanksAreThere
<1>5. Written = Len(groups) * GroupRows + Len(buffered)
  <2>1. Len(groups) \in Nat /\ Len(buffered) \in Nat /\ (groups = <<>> => Len(groups) = 0)
    BY <1>1
  <2>2. CASE groups = <<>>
    <3>1. 0 * GroupRows = 0
      BY <1>0
    <3> QED BY <2>1, <2>2, <3>1 DEF Written
  <2>3. CASE groups # <<>>
    <3>1. Len(groups) \in DOMAIN groups
      BY <1>1, <2>1, <2>3
    <3>2. Len(Last(groups)) = GroupRows
      BY <3>1, <1>1 DEF Last
    <3>3. (Len(groups) - 1) * GroupRows = Len(groups) * GroupRows - 1 * GroupRows /\ 1 * GroupRows = GroupRows
          /\ Len(groups) * GroupRows \in Int
      BY <2>1, <1>0, TimesIs
    <3> QED BY <2>1, <2>3, <3>2, <3>3, <1>0 DEF Written
  <2> QED BY <2>2, <2>3
<1>6. \A g \in DOMAIN groups : groups[g] # <<>>
  BY <1>0, <1>1
<1> QED BY <1>1, <1>2, <1>4, <1>5, <1>6 DEF MergedSoFar, Continues

LEMMA MergeInvNext ==
  ASSUME MergeInv, [MergeNext]_mergeVars
  PROVE  MergeInv'
<1>0. GroupRows \in Nat /\ GroupRows >= 1 /\ MaxKey \in Nat
  BY MergeAssumption DEF MergeAssumption
<1>1. ASSUME UNCHANGED <<existing, incoming>>
      PROVE  Merged' = Merged /\ Delta' = Delta /\ Reference' = Reference /\ MergedRows' = MergedRows
  <2>1. Merged' = Merged /\ Delta' = Delta
    BY <1>1 DEF Merged, Delta
  <2>2. Reference' = Reference
    BY <1>1, <2>1 DEF Reference
  <2> QED BY <2>1, <2>2 DEF MergedRows
<1>2. CASE MergeBatch
  <2>1. /\ UNCHANGED <<existing, incoming, batchRows, done>> /\ read < Len(StoredRows)
        /\ MergeTypes /\ batchRows \in Nat \ {0} /\ Len(StoredRows) = Cardinality(existing)
        /\ Cardinality(existing) \in Nat
    BY <1>2, ColumnsAre, KeysAreFinite DEF MergeBatch, MergeInv, MergeTypes
  <2>2. ~done
    BY <2>1 DEF MergeInv
  <2>3. PICK b \in 0..MaxKey + 1 :
          /\ read = Rank(existing, b) /\ cursor = Rank(Delta, b)
          /\ Len(groups) * GroupRows + Len(buffered) = Rank(Merged, b)
    BY <2>2 DEF MergeInv
  <2>4. PICK stop : stop = Min({read + batchRows, Len(StoredRows)})
    OBVIOUS
  <2>5. read \in Nat /\ b \in Int
    BY <1>0, <2>1, <2>3, RanksAreThere
  <2>6. stop \in 1..Cardinality(existing) /\ read < stop
    BY <2>1, <2>4, <2>5, LesserIs
  <2>7. PICK last : last = StoredRows[stop].key
    OBVIOUS
  <2>8. last \in 1..MaxKey /\ Rank(existing, last + 1) = stop /\ DeltaUpto(last) = Rank(Delta, last + 1)
    BY <2>1, <2>6, <2>7, UptoIs
  <2>9. PICK c : c = last + 1
    OBVIOUS
  <2>10. c \in 0..MaxKey + 1 /\ c \in Int
    BY <1>0, <2>8, <2>9
  <2>11. b <= c
    <3>1. ASSUME c <= b PROVE Rank(existing, c) <= Rank(existing, b)
      BY <3>1, <2>1, <2>5, <2>10, KeysAreFinite, RanksGrow
    <3> QED BY <3>1, <2>3, <2>5, <2>6, <2>8, <2>9, <2>10
  <2>12. PICK out : out = Splice(SubSeq(StoredRows, read + 1, stop), SubSeq(DeltaColumns, cursor + 1, DeltaUpto(last)))
    OBVIOUS
  <2>13. PICK S, R, ub, uc : S = MergedRows /\ R = Reference /\ ub = Rank(Merged, b) /\ uc = Rank(Merged, c)
    OBVIOUS
  <2>14. out \in Seq(S) /\ Len(out) = uc - ub /\ Continues(out, R, ub)
    <3>1. read + 1 = Rank(existing, b) + 1 /\ stop = Rank(existing, c)
          /\ cursor + 1 = Rank(Delta, b) + 1 /\ DeltaUpto(last) = Rank(Delta, c)
      BY <2>3, <2>8, <2>9
    <3>2. out = Splice(SubSeq(StoredRows, Rank(existing, b) + 1, Rank(existing, c)),
                       SubSeq(DeltaColumns, Rank(Delta, b) + 1, Rank(Delta, c)))
      BY <2>12, <3>1
    <3>3. /\ out \in Seq(MergedRows) /\ Len(out) = Rank(Merged, c) - Rank(Merged, b)
          /\ \A i \in DOMAIN out : out[i] = Reference[Rank(Merged, b) + i]
      BY ONLY <3>2, <2>1, <2>5, <2>10, <2>11, BatchIs
    <3> QED BY <3>3, <2>13 DEF Continues
  <2>15. ub \in Nat /\ uc \in Nat
    BY <2>1, <2>5, <2>10, <2>13, RanksAreThere
  <2>16. PICK gs, rest : gs = groups /\ rest = buffered
    OBVIOUS
  <2>17. /\ gs \in Seq(Seq(S)) /\ rest \in Seq(S) /\ Len(gs) * GroupRows + Len(rest) = ub
         /\ FullGroups(gs, R) /\ Continues(rest, R, Len(gs) * GroupRows)
    BY <2>2, <2>3, <2>13, <2>16 DEF MergeInv
  <2>18. PICK all : all = rest \o out
    OBVIOUS
  <2>19. /\ all \in Seq(S) /\ Len(gs) * GroupRows + Len(all) = uc
         /\ Continues(all, R, Len(gs) * GroupRows)
    <3>1. PICK lo : lo = Len(gs) * GroupRows
      OBVIOUS
    <3>2. Len(gs) \in Nat /\ Len(rest) \in Nat /\ Len(out) \in Nat
      BY <2>14, <2>17
    <3>3. lo \in Int
      BY <3>1, <3>2, <1>0, TimesIs
    <3>4. /\ rest \in Seq(S) /\ out \in Seq(S) /\ Continues(rest, R, lo) /\ Continues(out, R, lo + Len(rest))
      BY <3>1, <2>14, <2>17
    <3>5. all \in Seq(S) /\ Len(all) = Len(rest) + Len(out) /\ Continues(all, R, lo)
      BY ONLY <3>3, <3>4, <2>18, RowsJoin
    <3>6. lo + Len(all) = uc
      <4>1. lo + Len(rest) = ub /\ Len(out) = uc - ub /\ ub \in Nat /\ uc \in Nat
        BY <3>1, <2>14, <2>15, <2>17
      <4> QED BY ONLY <4>1, <3>2, <3>3, <3>5
    <3> QED BY <3>1, <3>5, <3>6
  <2>20. /\ groups' = AddedGroups(gs, all) /\ buffered' = AddedRest(all)
         /\ read' = stop /\ cursor' = DeltaUpto(last)
    BY <1>2, <2>4, <2>7, <2>12, <2>16, <2>18 DEF MergeBatch, Emit, AddedGroups, AddedRest
  <2>21. PICK newGroups, newRest : newGroups = groups' /\ newRest = buffered'
    OBVIOUS
  <2>22. Added(newGroups, newRest, S, R, Len(gs) * GroupRows + Len(all))
    <3>1. gs \in Seq(Seq(S)) /\ all \in Seq(S) /\ FullGroups(gs, R) /\ Continues(all, R, Len(gs) * GroupRows)
      BY <2>17, <2>19
    <3>2. newGroups = AddedGroups(gs, all) /\ newRest = AddedRest(all)
      BY <2>20, <2>21
    <3> QED BY ONLY <3>1, <3>2, EmitIs, MergeAssumption
  <2>23. Merged' = Merged /\ Delta' = Delta /\ Reference' = R /\ MergedRows' = S
    BY <1>1, <2>1, <2>13
  <2>24. Rank(existing', c) = read' /\ Rank(Delta', c) = cursor' /\ Rank(Merged', c) = uc
    BY <2>1, <2>8, <2>9, <2>13, <2>20, <2>23
  <2>25. MergeTypes' /\ ~done'
    BY <2>1, <2>2 DEF MergeTypes
  <2> QED BY <2>10, <2>19, <2>21, <2>22, <2>23, <2>24, <2>25 DEF MergeInv, Added
<1>3. CASE Finish
  <2>1. /\ UNCHANGED <<existing, incoming, batchRows, read, cursor>> /\ read = Len(StoredRows) /\ ~done /\ done'
        /\ MergeTypes /\ Len(StoredRows) = Cardinality(existing)
    BY <1>3, ColumnsAre DEF Finish, MergeInv
  <2>2. PICK b \in 0..MaxKey + 1 :
          /\ read = Rank(existing, b) /\ cursor = Rank(Delta, b)
          /\ Len(groups) * GroupRows + Len(buffered) = Rank(Merged, b)
    BY <2>1 DEF MergeInv
  <2>3. PICK out : out = SubSeq(DeltaColumns, cursor + 1, Len(DeltaColumns))
    OBVIOUS
  <2>4. PICK S, R, ub, m : S = MergedRows /\ R = Reference /\ ub = Rank(Merged, b) /\ m = Cardinality(Merged)
    OBVIOUS
  <2>5. out \in Seq(S) /\ Len(out) = m - ub /\ ub \in Nat /\ Continues(out, R, ub)
    BY <2>1, <2>2, <2>3, <2>4, RestIs DEF Continues
  <2>6. m \in Nat
    BY <2>1, <2>4, KeysAreFinite
  <2>7. PICK gs, rest : gs = groups /\ rest = buffered
    OBVIOUS
  <2>8. /\ gs \in Seq(Seq(S)) /\ rest \in Seq(S) /\ Len(gs) * GroupRows + Len(rest) = ub
        /\ FullGroups(gs, R) /\ Continues(rest, R, Len(gs) * GroupRows)
    BY <2>1, <2>2, <2>4, <2>7 DEF MergeInv
  <2>9. PICK all : all = rest \o out
    OBVIOUS
  <2>10. /\ all \in Seq(S) /\ Len(gs) * GroupRows + Len(all) = m
         /\ Continues(all, R, Len(gs) * GroupRows)
    <3>1. PICK lo : lo = Len(gs) * GroupRows
      OBVIOUS
    <3>2. Len(gs) \in Nat /\ Len(rest) \in Nat /\ Len(out) \in Nat
      BY <2>5, <2>8
    <3>3. lo \in Int
      BY <3>1, <3>2, <1>0, TimesIs
    <3>4. /\ rest \in Seq(S) /\ out \in Seq(S) /\ Continues(rest, R, lo) /\ Continues(out, R, lo + Len(rest))
      BY <3>1, <2>5, <2>8
    <3>5. all \in Seq(S) /\ Len(all) = Len(rest) + Len(out) /\ Continues(all, R, lo)
      BY ONLY <3>3, <3>4, <2>9, RowsJoin
    <3>6. lo + Len(all) = m
      <4>1. lo + Len(rest) = ub /\ Len(out) = m - ub /\ ub \in Nat /\ m \in Nat
        BY <3>1, <2>5, <2>6, <2>8
      <4> QED BY ONLY <4>1, <3>2, <3>3, <3>5
    <3> QED BY <3>1, <3>5, <3>6
  <2>11. groups' = ClosedGroups(gs, all) /\ buffered' = <<>>
    BY <1>3, <2>3, <2>7, <2>9 DEF Finish, ClosedGroups
  <2>12. PICK newGroups : newGroups = groups'
    OBVIOUS
  <2>13. Closed(newGroups, S, R, m)
    <3>1. gs \in Seq(Seq(S)) /\ all \in Seq(S) /\ FullGroups(gs, R) /\ Continues(all, R, Len(gs) * GroupRows)
      BY <2>8, <2>10
    <3>2. newGroups = ClosedGroups(gs, all)
      BY <2>11, <2>12
    <3>3. Closed(newGroups, S, R, Len(gs) * GroupRows + Len(all))
      BY ONLY <3>1, <3>2, CloseIs, MergeAssumption
    <3> QED BY <3>3, <2>10
  <2>14. Merged' = Merged /\ Reference' = R /\ MergedRows' = S
    BY <1>1, <2>1, <2>4
  <2>15. Written' = m /\ Cardinality(Merged') = m /\ DOMAIN buffered' = {}
    <3>1. Len(buffered') = 0 /\ DOMAIN buffered' = {}
      BY <2>11
    <3>2. Written' = IF newGroups = <<>> THEN 0 ELSE (Len(newGroups) - 1) * GroupRows + Len(newGroups[Len(newGroups)])
      <4>1. Written' = Len(buffered') + (IF newGroups = <<>> THEN 0 ELSE (Len(newGroups) - 1) * GroupRows + Len(Last(newGroups)))
        BY <2>12 DEF Written
      <4>2. newGroups # <<>> => (Len(newGroups) - 1) * GroupRows + Len(newGroups[Len(newGroups)]) = m
        BY <2>13 DEF Closed
      <4> QED BY <3>1, <4>1, <4>2, <2>6 DEF Last
    <3> QED BY <3>1, <3>2, <2>4, <2>13, <2>14 DEF Closed
  <2>16. MergedSoFar'
    BY <2>1, <2>6, <2>12, <2>13, <2>14, <2>15 DEF MergedSoFar, Closed, Continues
  <2>17. MergeTypes' /\ buffered' \in Seq(S) /\ groups' \in Seq(Seq(S)) /\ read' = Cardinality(existing')
    BY <2>1, <2>11, <2>12, <2>13 DEF MergeTypes, Closed
  <2> QED BY <2>1, <2>14, <2>16, <2>17 DEF MergeInv
<1>4. CASE UNCHANGED mergeVars
  <2>1. /\ UNCHANGED <<existing, incoming, batchRows, read, cursor, buffered, groups, done>>
        /\ Merged' = Merged /\ Delta' = Delta /\ Reference' = Reference /\ MergedRows' = MergedRows
    BY <1>1, <1>4 DEF mergeVars
  <2>2. Written' = Written /\ MergeTypes' = MergeTypes
    BY <2>1 DEF Written, MergeTypes
  <2>3. MergedSoFar' = MergedSoFar
    BY <2>1, <2>2 DEF MergedSoFar
  <2>4. ~done => \E b \in 0..MaxKey + 1 :
            /\ read' = Rank(existing', b) /\ cursor' = Rank(Delta', b)
            /\ Len(groups') * GroupRows + Len(buffered') = Rank(Merged', b)
    <3>1. ~done => \E b \in 0..MaxKey + 1 :
            /\ read = Rank(existing, b) /\ cursor = Rank(Delta, b)
            /\ Len(groups) * GroupRows + Len(buffered) = Rank(Merged, b)
      BY DEF MergeInv
    <3> QED BY <3>1, <2>1
  <2> QED BY <2>1, <2>2, <2>3, <2>4 DEF MergeInv, FullGroups, Continues
<1> QED BY <1>2, <1>3, <1>4 DEF MergeNext

\* For any panels, deltas, batches and sizes of a group: what the merge has written
\* is the beginning of the merged panel, and in the end all of it, in full groups.
THEOREM MergeLosesNothing == MergeSpec => []MergedSoFar
<1> QED
  BY MergeInvInit, MergeInvTells, MergeInvNext, PTL DEF MergeSpec
=============================================================================

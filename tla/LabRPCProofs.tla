---------------------------- MODULE LabRPCProofs ----------------------------
(***************************************************************************)
(* The simulated network keeps the contract of RPC.tla, for any number of  *)
(* requests, ends, servers and restarts.                                   *)
(***************************************************************************)
EXTENDS LabRPC, TLAPS

\* A server of the network is the instance that writes the saved persister.
ServersOK ==
    \A n \in Name :
       /\ stage[n] = "up" => servers[n] = saved[n]
       /\ stage[n] # "up" => servers[n] = NoServer
       /\ stage[n] = "deleted" => saved[n] < MaxRestarts

\* A handler works for an instance that was started, and saves on its persister.
HandlersOK ==
    \A x \in Request :
       /\ pc[x] \in {"idle", "send", "read", "deliver"} => handler[x] = "none"
       /\ pc[x] = "deliver" \/ handler[x] # "none" => info[x].server \in 0 .. saved[ServerOf(x)]
       /\ handler[x] \in {"saved", "returns", "ended"} => x \in persisted[ServerOf(x)][info[x].server]
       /\ pc[x] = "replied" => handler[x] = "ended"

\* The contract.
TrueIsKept == \A x \in Request : pc[x] \in {"reply", "true"} => x \in Kept

\* The inductive invariant.
NetworkInv == TypeOK /\ ServersOK /\ HandlersOK /\ TrueIsKept

LEMMA ServerOfType == \A x \in Request : ServerOf(x) \in Name
BY ConstantsAssumption DEF ServerOf

LEMMA InitInv == Init => NetworkInv
<1> SUFFICES ASSUME Init PROVE NetworkInv
    OBVIOUS
<1>1. TypeOK
  <2>1. info \in [Request -> [server : Instance \cup {NoServer}, reliable : BOOLEAN]]
      BY DEF Init
  <2>2. saved \in [Name -> Instance] /\ persisted \in [Name -> [Instance -> SUBSET Request]]
      BY ConstantsAssumption DEF Init, Instance
  <2> QED
      BY <2>1, <2>2 DEF Init, TypeOK
<1>2. ServersOK /\ HandlersOK /\ TrueIsKept
    BY DEF Init, ServersOK, HandlersOK, TrueIsKept
<1> QED
    BY <1>1, <1>2 DEF NetworkInv

LEMMA NextType == TypeOK /\ ServersOK /\ HandlersOK /\ [Next]_vars => TypeOK'
<1> SUFFICES ASSUME TypeOK, ServersOK, HandlersOK, [Next]_vars PROVE TypeOK'
    OBVIOUS
<1> USE ConstantsAssumption DEF TypeOK, Instance, NoServer
<1>1. ASSUME Tester PROVE TypeOK'
  <2>1. ASSUME NEW e \in End, Connect(e) PROVE TypeOK'
      BY <2>1 DEF Connect, callVars, handlerVars, testerVars
  <2>2. ASSUME NEW e \in End, NEW yes \in BOOLEAN, Enable(e, yes) PROVE TypeOK'
      BY <2>2 DEF Enable, callVars, handlerVars, testerVars
  <2>3. ASSUME NEW yes \in BOOLEAN, Reliable(yes) PROVE TypeOK'
      BY <2>3 DEF Reliable, callVars, handlerVars, testerVars
  <2>4. ASSUME Cleanup PROVE TypeOK'
      BY <2>4 DEF Cleanup, callVars, handlerVars, testerVars
  <2>5. ASSUME NEW n \in Name, DeleteServer(n) PROVE TypeOK'
      BY <2>5 DEF DeleteServer, callVars, handlerVars
  <2>6. ASSUME NEW n \in Name, ShutdownServer(n) PROVE TypeOK'
      BY <2>6 DEF ShutdownServer, netVars, callVars, handlerVars, ServersOK
  <2>7. ASSUME NEW n \in Name, StartServer(n) PROVE TypeOK'
      BY <2>7 DEF StartServer, callVars, handlerVars
  <2> QED
      BY <1>1, <2>1, <2>2, <2>3, <2>4, <2>5, <2>6, <2>7 DEF Tester
<1>2. ASSUME StopListening PROVE TypeOK'
    BY <1>2 DEF StopListening, callVars, handlerVars, testerVars
<1>3. ASSUME NEW x \in Request,
             Call(x) \/ Destroyed(x) \/ Take(x) \/ Return(x) \/ processReq(x)
      PROVE TypeOK'
  <2>1. ASSUME Call(x) \/ Destroyed(x) \/ Take(x) \/ Return(x) PROVE TypeOK'
      BY <2>1 DEF Call, Destroyed, Take, Return, Goto, netVars, handlerVars, testerVars
  <2>2. ASSUME readEndnameInfo(x) PROVE TypeOK'
      BY <2>2, ServerOfType DEF readEndnameInfo, Goto, netVars, handlerVars, testerVars
  <2>3. ASSUME DropRequest(x) \/ CheckReply(x) PROVE TypeOK'
      BY <2>3 DEF DropRequest, CheckReply, Goto, netVars, handlerVars, testerVars
  <2>4. ASSUME Dispatch(x) \/ ReceiveReply(x) \/ StopWaiting(x) PROVE TypeOK'
      BY <2>4 DEF Dispatch, ReceiveReply, StopWaiting, Goto, netVars, testerVars
  <2> QED
      BY <1>3, <2>1, <2>2, <2>3, <2>4 DEF processReq
<1>4. ASSUME NEW x \in Request, HandlerReturns(x) \/ Drain(x) PROVE TypeOK'
    BY <1>4 DEF HandlerReturns, Drain, netVars, callVars, testerVars
<1>5. ASSUME NEW x \in Request, Execute(x) PROVE TypeOK'
  <2>1. info[x].server \in Instance
      BY <1>5, ServerOfType DEF Execute, HandlersOK
  <2> QED
      BY <1>5, <2>1, ServerOfType DEF Execute, netVars, callVars
<1>6. ASSUME UNCHANGED vars PROVE TypeOK'
    BY <1>6 DEF vars, netVars, callVars, handlerVars, testerVars
<1> QED
    BY <1>1, <1>2, <1>3, <1>4, <1>5, <1>6 DEF Next

-----------------------------------------------------------------------------
(* What the steps leave alone. *)

\* The tester's settings, and the end of the network's loop.
LEMMA SettingsKeep ==
    ASSUME \/ \E e \in End : Connect(e) \/ Enable(e, TRUE) \/ Enable(e, FALSE)
           \/ Reliable(TRUE) \/ Reliable(FALSE) \/ Cleanup \/ StopListening
           \/ UNCHANGED vars
    PROVE  UNCHANGED <<servers, callVars, handlerVars, testerVars>>
<1>1. CASE \E e \in End : Connect(e) \/ Enable(e, TRUE) \/ Enable(e, FALSE)
    BY <1>1 DEF Connect, Enable
<1>2. CASE Reliable(TRUE) \/ Reliable(FALSE)
    BY <1>2 DEF Reliable
<1>3. CASE Cleanup \/ StopListening
    BY <1>3 DEF Cleanup, StopListening
<1>4. CASE UNCHANGED vars
    BY <1>4 DEF vars, netVars
<1> QED
    BY <1>1, <1>2, <1>3, <1>4

\* A server is deleted or started.
LEMMA ServersKeep ==
    ASSUME NEW n \in Name, DeleteServer(n) \/ StartServer(n)
    PROVE  UNCHANGED <<callVars, handlerVars, saved, persisted>>
BY DEF DeleteServer, StartServer

\* Call and processReq.
LEMMA CallsKeep ==
    ASSUME NEW x \in Request, Call(x) \/ Destroyed(x) \/ Take(x) \/ Return(x) \/ processReq(x)
    PROVE  UNCHANGED <<netVars, testerVars>>
<1>1. CASE Call(x) \/ Destroyed(x)
    BY <1>1 DEF Call, Destroyed
<1>2. CASE Take(x) \/ Return(x)
    BY <1>2 DEF Take, Return
<1>3. CASE readEndnameInfo(x)
    BY <1>3 DEF readEndnameInfo
<1>4. CASE DropRequest(x) \/ Dispatch(x)
    BY <1>4 DEF DropRequest, Dispatch
<1>5. CASE ReceiveReply(x) \/ StopWaiting(x)
    BY <1>5 DEF ReceiveReply, StopWaiting
<1>6. CASE CheckReply(x)
    BY <1>6 DEF CheckReply
<1> QED
    BY <1>1, <1>2, <1>3, <1>4, <1>5, <1>6 DEF processReq

\* The end of a handler's goroutine.
LEMMA HandlersKeep ==
    ASSUME NEW x \in Request, HandlerReturns(x) \/ Drain(x)
    PROVE  UNCHANGED <<netVars, callVars, testerVars>>
BY DEF HandlerReturns, Drain

-----------------------------------------------------------------------------
LEMMA NextServers == TypeOK /\ ServersOK /\ [Next]_vars => ServersOK'
<1> SUFFICES ASSUME TypeOK, ServersOK, [Next]_vars PROVE ServersOK'
    OBVIOUS
<1> USE DEF ServersOK
<1>1. ASSUME NEW n \in Name, DeleteServer(n) \/ ShutdownServer(n) \/ StartServer(n) PROVE ServersOK'
    BY <1>1, ConstantsAssumption
       DEF DeleteServer, ShutdownServer, StartServer, TypeOK, Instance, netVars
<1>2. ASSUME UNCHANGED <<servers, stage, saved>> PROVE ServersOK'
    BY <1>2
<1>3. ASSUME NEW x \in Request, Execute(x) PROVE UNCHANGED <<servers, stage, saved>>
    BY <1>3 DEF Execute, netVars
<1>4. ASSUME UNCHANGED <<servers, testerVars>> PROVE UNCHANGED <<servers, stage, saved>>
    BY <1>4 DEF testerVars
<1>5. ASSUME UNCHANGED netVars PROVE UNCHANGED servers
    BY <1>5 DEF netVars
<1> HIDE DEF ServersOK
<1> QED
    BY <1>1, <1>2, <1>3, <1>4, <1>5, SettingsKeep, CallsKeep, HandlersKeep DEF Next, Tester

\* The persister that is saved next holds what the last one held.
LEMMA KeptGrows ==
    ASSUME TypeOK, ServersOK, [Next]_vars
    PROVE  Kept \subseteq Kept'
<1> USE ServerOfType DEF Kept
<1>1. ASSUME NEW n \in Name, ShutdownServer(n) PROVE Kept \subseteq Kept'
    BY <1>1, ConstantsAssumption DEF ShutdownServer, TypeOK, ServersOK, Instance
<1>2. ASSUME NEW x \in Request, Execute(x) PROVE Kept \subseteq Kept'
    BY <1>2, ConstantsAssumption DEF Execute, TypeOK, Instance
<1>3. ASSUME UNCHANGED <<saved, persisted>> PROVE Kept \subseteq Kept'
    BY <1>3
<1>4. ASSUME UNCHANGED testerVars PROVE UNCHANGED <<saved, persisted>>
    BY <1>4 DEF testerVars
<1> HIDE DEF Kept
<1> QED
    BY <1>1, <1>2, <1>3, <1>4, SettingsKeep, ServersKeep, CallsKeep, HandlersKeep DEF Next, Tester

LEMMA NextHandlers == TypeOK /\ ServersOK /\ HandlersOK /\ [Next]_vars => HandlersOK'
<1> SUFFICES ASSUME TypeOK, ServersOK, HandlersOK, [Next]_vars PROVE HandlersOK'
    OBVIOUS
<1> USE ServerOfType DEF HandlersOK
<1>1. ASSUME NEW n \in Name, ShutdownServer(n) PROVE HandlersOK'
    BY <1>1, ConstantsAssumption
       DEF ShutdownServer, TypeOK, ServersOK, Instance, callVars, handlerVars
<1>2. ASSUME NEW x \in Request, Execute(x) PROVE HandlersOK'
    BY <1>2, ConstantsAssumption DEF Execute, TypeOK, Instance, callVars
<1>3. ASSUME NEW x \in Request, readEndnameInfo(x) PROVE HandlersOK'
  <2>1. pc[x] = "read" /\ UNCHANGED <<handler, saved, persisted>>
      BY <1>3 DEF readEndnameInfo, handlerVars, testerVars
  <2>2. /\ pc'[x] \in {"deliver", "fail"}
        /\ \A y \in Request \ {x} : pc'[y] = pc[y] /\ info'[y] = info[y]
      BY <1>3 DEF readEndnameInfo, Goto, TypeOK
  <2>3. pc'[x] = "deliver" => /\ info'[x].server = servers[ServerOf(x)]
                             /\ servers[ServerOf(x)] # NoServer
      BY <1>3 DEF readEndnameInfo, Goto, TypeOK, ServerOf
  <2>4. servers[ServerOf(x)] # NoServer => servers[ServerOf(x)] \in 0 .. saved[ServerOf(x)]
      BY ConstantsAssumption DEF ServersOK, TypeOK, Instance
  <2> QED
      BY <2>1, <2>2, <2>3, <2>4
<1>4. ASSUME NEW x \in Request, Call(x) \/ Destroyed(x) \/ Take(x) \/ Return(x)
      PROVE  HandlersOK'
    BY <1>4 DEF Call, Destroyed, Take, Return, Goto, TypeOK, handlerVars, testerVars
<1>5. ASSUME NEW x \in Request, DropRequest(x) \/ Dispatch(x)
      PROVE  HandlersOK'
    BY <1>5 DEF DropRequest, Dispatch, Goto, TypeOK, handlerVars, testerVars
<1>6. ASSUME NEW x \in Request, ReceiveReply(x) \/ StopWaiting(x) \/ CheckReply(x)
      PROVE  HandlersOK'
    BY <1>6 DEF ReceiveReply, StopWaiting, CheckReply, Goto, TypeOK, handlerVars, testerVars
<1>7. ASSUME NEW x \in Request, HandlerReturns(x) \/ Drain(x)
      PROVE  HandlersOK'
    BY <1>7 DEF HandlerReturns, Drain, TypeOK, callVars, testerVars
<1>8. ASSUME UNCHANGED <<callVars, handlerVars, saved, persisted>> PROVE HandlersOK'
    BY <1>8 DEF callVars, handlerVars
<1>9. ASSUME UNCHANGED testerVars PROVE UNCHANGED <<saved, persisted>>
    BY <1>9 DEF testerVars
<1> HIDE DEF HandlersOK
<1> QED
    BY <1>1, <1>2, <1>3, <1>4, <1>5, <1>6, <1>7, <1>8, <1>9, SettingsKeep, ServersKeep
       DEF Next, Tester, processReq

LEMMA NextTrue ==
    TypeOK /\ ServersOK /\ HandlersOK /\ TrueIsKept /\ [Next]_vars => TrueIsKept'
<1> SUFFICES ASSUME TypeOK, ServersOK, HandlersOK, TrueIsKept, [Next]_vars,
                    NEW y \in Request, pc'[y] \in {"reply", "true"}
             PROVE  y \in Kept'
    BY DEF TrueIsKept
<1>1. CASE pc[y] \in {"reply", "true"}
    BY <1>1, KeptGrows DEF TrueIsKept
<1>2. CASE pc[y] \notin {"reply", "true"}
  <2>1. CheckReply(y) /\ ~isServerDead(y) /\ UNCHANGED <<saved, persisted>>
    <3>1. pc' # pc
        BY <1>2
    <3>2. ASSUME NEW x \in Request, NEW where, Goto(x, where), where \notin {"reply", "true"}
          PROVE  FALSE
        BY <1>2, <3>2 DEF Goto, TypeOK
    <3>3. ASSUME NEW x \in Request, Return(x) PROVE FALSE
        BY <1>2, <3>3 DEF Return, Goto, TypeOK
    <3>4. ASSUME NEW x \in Request, CheckReply(x)
          PROVE  CheckReply(y) /\ ~isServerDead(y) /\ UNCHANGED <<saved, persisted>>
        BY <1>2, <3>2, <3>4 DEF CheckReply, Goto, TypeOK, testerVars
    <3>5. ~(Tester \/ StopListening)
        BY <3>1 DEF Tester, Connect, Enable, Reliable, Cleanup, DeleteServer, ShutdownServer,
           StartServer, StopListening, callVars
    <3>6. ASSUME NEW x \in Request PROVE ~(Execute(x) \/ HandlerReturns(x) \/ Drain(x))
        BY <3>1 DEF Execute, HandlerReturns, Drain, callVars
    <3>7. ASSUME NEW x \in Request PROVE ~(Call(x) \/ Destroyed(x) \/ Take(x))
        BY <3>2 DEF Call, Destroyed, Take
    <3>8. ASSUME NEW x \in Request, processReq(x) PROVE CheckReply(x)
      <4>1. ~(DropRequest(x) \/ Dispatch(x) \/ ReceiveReply(x) \/ StopWaiting(x))
          BY <3>2 DEF DropRequest, Dispatch, ReceiveReply, StopWaiting
      <4>2. ~readEndnameInfo(x)
          BY <3>2 DEF readEndnameInfo
      <4> QED
          BY <3>8, <4>1, <4>2 DEF processReq
    <3>9. ~UNCHANGED vars
        BY <3>1 DEF vars, callVars
    <3> QED
        BY <3>3, <3>4, <3>5, <3>6, <3>7, <3>8, <3>9 DEF Next
  <2>2. servers[ServerOf(y)] = info[y].server /\ handler[y] = "ended"
      BY <2>1 DEF CheckReply, isServerDead, HandlersOK
  <2>3. servers[ServerOf(y)] = saved[ServerOf(y)]
    <3>1. info[y].server # NoServer
      <4>1. info[y].server \in 0 .. saved[ServerOf(y)]
          BY <2>2 DEF HandlersOK
      <4>2. saved[ServerOf(y)] \in Int
          BY ServerOfType, ConstantsAssumption DEF TypeOK, Instance
      <4> QED
          BY <4>1, <4>2 DEF NoServer
    <3> QED
        BY <3>1, <2>2, ServerOfType DEF ServersOK
  <2> QED
      BY <2>1, <2>2, <2>3 DEF HandlersOK, Kept
<1> QED
    BY <1>1, <1>2

LEMMA NextInv == NetworkInv /\ [Next]_vars => NetworkInv'
BY NextType, NextServers, NextHandlers, NextTrue DEF NetworkInv

\* The invariant holds: a request that Call answers with true is on the
\* persister the next instance starts from (processReq, ShutdownServer).
THEOREM NetworkInvariance == Spec => []NetworkInv
BY InitInv, NextInv, PTL DEF Spec

-----------------------------------------------------------------------------
(* The refinement. *)

LEMMA InitImplements == Init => Abstract!Init
<1> SUFFICES ASSUME Init PROVE Abstract!Init
    OBVIOUS
<1>1. Kept = {}
    BY ServerOfType, ConstantsAssumption DEF Init, Kept, Instance
<1>2. \A x \in Request : Outcome(x) = "none"
    BY DEF Init, Outcome
<1> QED
    BY <1>1, <1>2 DEF Abstract!Init

\* Only Execute adds to what is kept.
LEMMA KeptChanges ==
    ASSUME NetworkInv, [Next]_vars
    PROVE  Kept' = Kept \/ \E x \in Request : Execute(x) /\ Kept' = Kept \cup {x}
<1> USE ServerOfType DEF NetworkInv
<1>1. ASSUME NEW n \in Name, ShutdownServer(n) PROVE Kept' = Kept
    BY <1>1, ConstantsAssumption DEF ShutdownServer, TypeOK, ServersOK, Instance, Kept
<1>2. ASSUME NEW x \in Request, Execute(x) PROVE Kept' = Kept \/ Kept' = Kept \cup {x}
    BY <1>2, ConstantsAssumption DEF Execute, TypeOK, HandlersOK, Instance, Kept
<1>3. ASSUME UNCHANGED <<saved, persisted>> PROVE Kept' = Kept
    BY <1>3 DEF Kept
<1>4. ASSUME UNCHANGED testerVars PROVE UNCHANGED <<saved, persisted>>
    BY <1>4 DEF testerVars
<1> HIDE DEF NetworkInv
<1> QED
    BY <1>1, <1>2, <1>3, <1>4, SettingsKeep, ServersKeep, CallsKeep, HandlersKeep DEF Next, Tester

LEMMA NextImplements ==
    ASSUME NetworkInv, NetworkInv', [Next]_vars
    PROVE  [Abstract!Next]_(Abstract!vars)
<1> DEFINE outcomes == [x \in Request |-> Outcome(x)]
<1>1. CASE \E x \in Request : Execute(x) /\ Kept' = Kept \cup {x}
  <2> PICK x \in Request : Execute(x) /\ Kept' = Kept \cup {x}
      BY <1>1
  <2>1. outcomes' = outcomes
      BY DEF Execute, callVars, Outcome
  <2>2. outcomes[x] # "none"
      BY DEF Execute, NetworkInv, HandlersOK, Outcome
  <2> QED
      BY <2>1, <2>2 DEF Abstract!Next, Abstract!Execute
<1>2. CASE Kept' = Kept
  <2>1. ASSUME NEW x \in Request, Call(x) PROVE Abstract!Begin(x)
    <3>1. outcomes[x] = "none" /\ outcomes' = [outcomes EXCEPT ![x] = "pending"]
      <4>1. pc[x] = "idle" /\ pc' = [pc EXCEPT ![x] = "send"]
          BY <2>1 DEF Call, Goto
      <4>2. \A y \in Request : pc'[y] = IF y = x THEN "send" ELSE pc[y]
          BY <4>1 DEF NetworkInv, TypeOK
      <4>3. outcomes[x] = "none" /\ \A y \in Request : Outcome(y)' = IF y = x THEN "pending" ELSE Outcome(y)
          BY <4>1, <4>2 DEF Outcome
      <4> QED
          BY <4>3
    <3> QED
        BY <3>1, <1>2 DEF Abstract!Begin
  <2>2. ASSUME NEW x \in Request, Destroyed(x) \/ Return(x) PROVE Abstract!Return(x)
    <3>1. /\ outcomes[x] = "pending"
          /\ \/ pc'[x] = "true" /\ outcomes' = [outcomes EXCEPT ![x] = "true"]
             \/ outcomes' = [outcomes EXCEPT ![x] = "false"]
      <4>1. PICK to \in {"true", "false"} : pc' = [pc EXCEPT ![x] = to]
          BY <2>2 DEF Destroyed, Return, Goto
      <4>2. pc[x] \in {"send", "reply", "fail"}
          BY <2>2 DEF Destroyed, Return
      <4>3. \A y \in Request : pc'[y] = IF y = x THEN to ELSE pc[y]
          BY <4>1 DEF NetworkInv, TypeOK
      <4>4. outcomes[x] = "pending" /\ \A y \in Request : Outcome(y)' = IF y = x THEN to ELSE Outcome(y)
          BY <4>2, <4>3 DEF Outcome
      <4> QED
          BY <4>3, <4>4
    <3>2. pc'[x] = "true" => x \in Kept
        BY <1>2 DEF NetworkInv, TrueIsKept
    <3> QED
        BY <3>1, <3>2, <1>2 DEF Abstract!Return
  <2>3. ASSUME NEW x \in Request,
               \/ Take(x) \/ processReq(x) \/ Execute(x) \/ HandlerReturns(x) \/ Drain(x)
        PROVE outcomes' = outcomes
      BY <2>3 DEF Take, processReq, readEndnameInfo, DropRequest, Dispatch, ReceiveReply, StopWaiting,
         CheckReply, Execute, HandlerReturns, Drain, Goto, callVars, NetworkInv, TypeOK, Outcome
  <2>4. ASSUME UNCHANGED pc PROVE outcomes' = outcomes
      BY <2>4 DEF Outcome
  <2>5. (\E x \in Request : Abstract!Begin(x) \/ Abstract!Return(x)) \/ outcomes' = outcomes
      BY <2>1, <2>2, <2>3, <2>4 DEF Next, Tester, Connect, Enable, Reliable, Cleanup, DeleteServer,
         ShutdownServer, StartServer, StopListening, vars, callVars
  <2> QED
      BY <2>5, <1>2 DEF Abstract!Next, Abstract!vars
<1> QED
    BY <1>1, <1>2, KeptChanges

\* The network implements the contract of RPC.tla: a call returns once, and true
\* only for a request that was executed and that a restart does not lose
\* (ClientEnd.Call, processReq).
THEOREM NetworkImplementsRPC == Spec => ImplementsRPC
<1>1. NetworkInv /\ NetworkInv' /\ [Next]_vars => [Abstract!Next]_(Abstract!vars)
    BY NextImplements
<1> QED
    BY <1>1, InitImplements, NetworkInvariance, PTL DEF Spec, ImplementsRPC, Abstract!Spec
=============================================================================

------------------------------- MODULE LabRPC -------------------------------
(***************************************************************************)
(* The simulated network of labs/src/labrpc, and how the testers shut a    *)
(* server down and start it again (ShutdownServer and StartServer of       *)
(* labs/src/kvraft/config.go).                                             *)
(*                                                                         *)
(* A request passes through three goroutines: Call, which waits for the    *)
(* reply; processReq; and the handler's, which processReq starts and may   *)
(* stop waiting for.  pc[x] is where the first two are, handler[x] where   *)
(* the third is.  An instance of a server is named by the persister it     *)
(* writes.  How long things take is left open, so longDelays and           *)
(* longReordering have no part.                                            *)
(***************************************************************************)
EXTENDS Integers

CONSTANTS Request, End, Name,
          EndOf,         \* EndOf[x]: the ClientEnd that request x is sent on
          NameOf,        \* NameOf[e]: the server that e is to be connected to
          Hanging,       \* the requests whose handler never returns
          MaxRestarts    \* bound: restarts of a server

Instance == 0 .. MaxRestarts
NoServer == -1
NoName == [nil |-> TRUE]

ASSUME ConstantsAssumption ==
    /\ EndOf \in [Request -> End]
    /\ NameOf \in [End -> Name]
    /\ NoName \notin Name
    /\ MaxRestarts \in Nat

VARIABLES enabled,       \* Network.enabled
          connections,   \* Network.connections
          servers,       \* Network.servers: the instance, or nil
          reliable,      \* Network.reliable
          done,          \* Network.done is closed
          listening,     \* the network's goroutine runs
          pc,            \* pc[x]: where Call and processReq are
          info,          \* info[x]: what readEndnameInfo returned
          handler,       \* handler[x]: where the handler's goroutine is
          draining,      \* the requests with a goroutine that drains ech
          stage,         \* stage[n]: what the tester has done with server n
          saved,         \* cfg.saved: the persister of each server
          persisted      \* persisted[n][k]: the requests persister k of n has

netVars == <<enabled, connections, servers, reliable, done, listening>>
callVars == <<pc, info>>
handlerVars == <<handler, draining>>
testerVars == <<stage, saved, persisted>>
vars == <<netVars, callVars, handlerVars, testerVars>>

ServerOf(x) == NameOf[EndOf[x]]

-----------------------------------------------------------------------------
(* What the tester does. *)

\* MakeEnd has made the end; it is connected once.
Connect(e) ==
    /\ connections[e] = NoName
    /\ connections' = [connections EXCEPT ![e] = NameOf[e]]
    /\ UNCHANGED <<enabled, servers, reliable, done, listening, callVars, handlerVars, testerVars>>

Enable(e, yes) ==
    /\ connections[e] # NoName
    /\ enabled' = [enabled EXCEPT ![e] = yes]
    /\ UNCHANGED <<connections, servers, reliable, done, listening, callVars, handlerVars, testerVars>>

Reliable(yes) ==
    /\ reliable' = yes
    /\ UNCHANGED <<enabled, connections, servers, done, listening, callVars, handlerVars, testerVars>>

Cleanup ==
    /\ ~done
    /\ done' = TRUE
    /\ UNCHANGED <<enabled, connections, servers, reliable, listening, callVars, handlerVars, testerVars>>

\* Another tester's calls happen between these two steps of ShutdownServer,
\* and between them and StartServer.
DeleteServer(n) ==
    /\ stage[n] = "up" /\ saved[n] < MaxRestarts
    /\ stage' = [stage EXCEPT ![n] = "deleted"]
    /\ servers' = [servers EXCEPT ![n] = NoServer]
    /\ UNCHANGED <<enabled, connections, reliable, done, listening, callVars, handlerVars, saved, persisted>>

\* Bug: the persister is superseded while the server still answers.
ShutdownServerEarly(n) ==
    /\ stage[n] = "up" /\ saved[n] < MaxRestarts
    /\ saved' = [saved EXCEPT ![n] = @ + 1]
    /\ persisted' = [persisted EXCEPT ![n][saved[n] + 1] = persisted[n][saved[n]]]
    /\ UNCHANGED <<netVars, callVars, handlerVars, stage>>

\* The fresh persister, with the content of the old one.
ShutdownServer(n) ==
    /\ stage[n] = "deleted"
    /\ stage' = [stage EXCEPT ![n] = "down"]
    /\ saved' = [saved EXCEPT ![n] = @ + 1]
    /\ persisted' = [persisted EXCEPT ![n][saved[n] + 1] = persisted[n][saved[n]]]
    /\ UNCHANGED <<netVars, callVars, handlerVars>>

StartServer(n) ==
    /\ stage[n] = "down"
    /\ stage' = [stage EXCEPT ![n] = "up"]
    /\ servers' = [servers EXCEPT ![n] = saved[n]]
    /\ UNCHANGED <<enabled, connections, reliable, done, listening, callVars, handlerVars, saved, persisted>>

-----------------------------------------------------------------------------
(* Call, and the goroutine that hands requests to processReq. *)

Goto(x, where) == pc' = [pc EXCEPT ![x] = where]

Call(x) ==
    /\ pc[x] = "idle"
    /\ Goto(x, "send")
    /\ UNCHANGED <<netVars, info, handlerVars, testerVars>>

\* The select of Call: the network was destroyed.
Destroyed(x) ==
    /\ pc[x] = "send"
    /\ done
    /\ Goto(x, "false")
    /\ UNCHANGED <<netVars, info, handlerVars, testerVars>>

\* The loop of MakeNetwork: a request is taken, or the loop is left.
Take(x) ==
    /\ pc[x] = "send"
    /\ listening
    /\ Goto(x, "read")
    /\ UNCHANGED <<netVars, info, handlerVars, testerVars>>

StopListening ==
    /\ done /\ listening
    /\ listening' = FALSE
    /\ UNCHANGED <<enabled, connections, servers, reliable, done, callVars, handlerVars, testerVars>>

\* Call has received the reply.
Return(x) ==
    /\ \/ pc[x] = "reply" /\ Goto(x, "true")
       \/ pc[x] = "fail" /\ Goto(x, "false")
    /\ UNCHANGED <<netVars, info, handlerVars, testerVars>>

-----------------------------------------------------------------------------
(* processReq. *)

readEndnameInfo(x) ==
    LET e == EndOf[x]
        known == connections[e] # NoName /\ servers[NameOf[e]] # NoServer
    IN  /\ pc[x] = "read"
        /\ info' = [info EXCEPT ![x] = [server   |-> IF known THEN servers[NameOf[e]] ELSE NoServer,
                                       reliable |-> reliable]]
        /\ Goto(x, IF enabled[e] /\ known THEN "deliver" ELSE "fail")
        /\ UNCHANGED <<netVars, handlerVars, testerVars>>

DropRequest(x) ==
    /\ pc[x] = "deliver"
    /\ ~info[x].reliable
    /\ Goto(x, "fail")
    /\ UNCHANGED <<netVars, info, handlerVars, testerVars>>

Dispatch(x) ==
    /\ pc[x] = "deliver"
    /\ Goto(x, "wait")
    /\ handler' = [handler EXCEPT ![x] = "running"]
    /\ UNCHANGED <<netVars, info, draining, testerVars>>

isServerDead(x) == ~enabled[EndOf[x]] \/ servers[ServerOf(x)] # info[x].server

\* reply = <-ech
ReceiveReply(x) ==
    /\ pc[x] = "wait"
    /\ handler[x] = "returns"
    /\ Goto(x, "replied")
    /\ handler' = [handler EXCEPT ![x] = "ended"]
    /\ UNCHANGED <<netVars, info, draining, testerVars>>

\* Bug: nobody is left to receive from ech.
StopWaitingOnly(x) ==
    /\ pc[x] = "wait"
    /\ isServerDead(x)
    /\ Goto(x, "fail")
    /\ UNCHANGED <<netVars, info, handler, draining, testerVars>>

\* Bug: the timer looks at the end only, not at the server.
StopWaitingDisabled(x) ==
    /\ pc[x] = "wait"
    /\ ~enabled[EndOf[x]]
    /\ Goto(x, "fail")
    /\ draining' = draining \cup {x}
    /\ UNCHANGED <<netVars, info, handler, testerVars>>

\* The timer, and the server is dead; the check that follows changes nothing.
StopWaiting(x) ==
    /\ pc[x] = "wait"
    /\ isServerDead(x)
    /\ Goto(x, "fail")
    /\ draining' = draining \cup {x}
    /\ UNCHANGED <<netVars, info, handler, testerVars>>

\* Bug: a reply is passed on without looking at the server again.
CheckReplyNot(x) ==
    /\ pc[x] = "replied"
    /\ Goto(x, "reply")
    /\ UNCHANGED <<netVars, info, handlerVars, testerVars>>

\* The server is looked at again.  The reply is refused, dropped, or sent, now
\* or after a delay.
CheckReply(x) ==
    /\ pc[x] = "replied"
    /\ \/ isServerDead(x) /\ Goto(x, "fail")
       \/ ~isServerDead(x) /\ ~info[x].reliable /\ Goto(x, "fail")
       \/ ~isServerDead(x) /\ Goto(x, "reply")
    /\ UNCHANGED <<netVars, info, handlerVars, testerVars>>

-----------------------------------------------------------------------------
(* The handler's goroutine: dispatch, the send on ech, and what drains it. *)

\* The handler changes the server's state and saves it.
Execute(x) ==
    /\ handler[x] = "running"
    /\ handler' = [handler EXCEPT ![x] = "saved"]
    /\ persisted' = [persisted EXCEPT ![ServerOf(x)][info[x].server] = @ \cup {x}]
    /\ UNCHANGED <<netVars, callVars, draining, stage, saved>>

HandlerReturns(x) ==
    /\ handler[x] = "saved"
    /\ x \notin Hanging
    /\ handler' = [handler EXCEPT ![x] = "returns"]
    /\ UNCHANGED <<netVars, callVars, draining, testerVars>>

Drain(x) ==
    /\ x \in draining
    /\ handler[x] = "returns"
    /\ handler' = [handler EXCEPT ![x] = "ended"]
    /\ draining' = draining \ {x}
    /\ UNCHANGED <<netVars, callVars, testerVars>>

-----------------------------------------------------------------------------
\* MakeNetwork, MakeEnd for every end, and no server started yet.
Init ==
    /\ enabled = [e \in End |-> FALSE]
    /\ connections = [e \in End |-> NoName]
    /\ servers = [n \in Name |-> NoServer]
    /\ reliable = TRUE
    /\ done = FALSE
    /\ listening = TRUE
    /\ pc = [x \in Request |-> "idle"]
    /\ info = [x \in Request |-> [server |-> NoServer, reliable |-> TRUE]]
    /\ handler = [x \in Request |-> "none"]
    /\ draining = {}
    /\ stage = [n \in Name |-> "down"]
    /\ saved = [n \in Name |-> 0]
    /\ persisted = [n \in Name |-> [k \in Instance |-> {}]]

processReq(x) ==
    \/ readEndnameInfo(x) \/ DropRequest(x) \/ Dispatch(x)
    \/ ReceiveReply(x) \/ StopWaiting(x) \/ CheckReply(x)

Tester ==
    \/ \E e \in End : Connect(e) \/ Enable(e, TRUE) \/ Enable(e, FALSE)
    \/ Reliable(TRUE) \/ Reliable(FALSE) \/ Cleanup
    \/ \E n \in Name : DeleteServer(n) \/ ShutdownServer(n) \/ StartServer(n)

Next ==
    \/ Tester
    \/ StopListening
    \/ \E x \in Request :
          \/ Call(x) \/ Destroyed(x) \/ Take(x) \/ Return(x) \/ processReq(x)
          \/ Execute(x) \/ HandlerReturns(x) \/ Drain(x)

Spec == Init /\ [][Next]_vars

\* Goroutines that can go on do, timers fire, and handlers are scheduled.
Fairness ==
    \A x \in Request :
       /\ WF_vars(Destroyed(x) \/ Take(x))
       /\ WF_vars(Return(x))
       /\ WF_vars(processReq(x))
       /\ WF_vars(Execute(x) \/ HandlerReturns(x) \/ Drain(x))

FairSpec == Spec /\ Fairness

-----------------------------------------------------------------------------
(* Properties. *)

\* The values of the network's tables, of the goroutines' places and of the
\* tester's persisters.
TypeOK ==
    /\ enabled \in [End -> BOOLEAN]
    /\ connections \in [End -> Name \cup {NoName}]
    /\ servers \in [Name -> Instance \cup {NoServer}]
    /\ reliable \in BOOLEAN /\ done \in BOOLEAN /\ listening \in BOOLEAN
    /\ pc \in [Request -> {"idle", "send", "read", "deliver", "wait", "replied", "reply", "fail", "true", "false"}]
    /\ info \in [Request -> [server : Instance \cup {NoServer}, reliable : BOOLEAN]]
    /\ handler \in [Request -> {"none", "running", "saved", "returns", "ended"}]
    /\ draining \in SUBSET Request
    /\ stage \in [Name -> {"up", "deleted", "down"}]
    /\ saved \in [Name -> Instance]
    /\ persisted \in [Name -> [Instance -> SUBSET Request]]

\* What is on the persister that the next instance will start from.
Kept == {x \in Request : x \in persisted[ServerOf(x)][saved[ServerOf(x)]]}

Outcome(x) ==
    CASE pc[x] = "idle"             -> "none"
      [] pc[x] \in {"true", "false"} -> pc[x]
      [] OTHER                      -> "pending"

Abstract == INSTANCE RPC WITH outcome <- [x \in Request |-> Outcome(x)], kept <- Kept

\* Whatever the tester does meanwhile, Call returns true only for a request
\* whose effect the next instance of the server will find, although replies are
\* delayed and a deleted instance goes on executing (processReq,
\* ShutdownServer).
ImplementsRPC == Abstract!Spec

Returned(x) == pc[x] \in {"true", "false"}

\* Call returns, after Cleanup too, unless the handler does not; and even then
\* once the server is deleted.
CallsReturn ==
    \A x \in Request :
       /\ x \notin Hanging => (pc[x] = "send" ~> Returned(x))
       /\ pc[x] = "wait" /\ servers[ServerOf(x)] # info[x].server ~> Returned(x)

\* The goroutine of a handler that returns comes to an end, although nobody
\* waits for its reply any more (processReq drains ech).
HandlersEnd == \A x \in Request : handler[x] = "returns" ~> handler[x] = "ended"
=============================================================================

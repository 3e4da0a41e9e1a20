------------------------------- MODULE McpClient -------------------------------
(***************************************************************************)
(* A client of an MCP server over HTTP sessions,                            *)
(*   src/src/services/mcp/client.ts  McpClient,                             *)
(*   src/src/services/mcp/http.ts    StreamableHttpMcpTransport             *)
(* The server may forget its session at any time and answers 404 from then  *)
(* on; the client opens a new one, subscribes again and repeats what may be *)
(* repeated.  Requests run side by side and answers come in any order.      *)
(* What a request waits for and its fetch are two things: failPending lets  *)
(* the requests fail and the fetches go on, and their errors still count.   *)
(***************************************************************************)
EXTENDS Integers, FiniteSets

CONSTANTS
  ToolCalls, Listings, Subscribes,   \* requests, by what may be done twice
  MaxSessions,                       \* bound: sessions the server opens
  MaxChannelErrors                   \* bound: errors of streams and notifications

McpRequests == ToolCalls \cup Listings \cup Subscribes
Bound == ToolCalls \cup Subscribes   \* boundExecution

\* The first fetch of a request, and that of its repetition.
Fetches == McpRequests \X BOOLEAN

ASSUME McpAssumption ==
  /\ MaxSessions \in Nat \ {0} /\ MaxChannelErrors \in Nat
  /\ ToolCalls \cap Listings = {} /\ Subscribes \cap (ToolCalls \cup Listings) = {}

None == 0      \* no session
Nothing == [at |-> "none", under |-> None]

VARIABLES
  req,        \* a request: at, session of its approval, again
  wire,       \* a fetch: at, session it is sent under
  runs,       \* how often the server has executed a tool call
  sid,        \* the transport's session id
  live,       \* sessions the server remembers
  opened,     \* sessions the server has opened
  linked,     \* connected
  current,    \* calls approved at the executionRevision of now
  recovery,   \* where initializeSession is
  watched,    \* onError awaits the recovery, and would let everything pending fail
  restored,   \* uris the recovery has subscribed again
  strays,     \* initialize requests that failPending has given up
  astray,     \* sessions that such a request has opened
  errors,     \* errors that streams and notifications have reported
  subs,       \* resourceSubscriptions; a uri is the request that subscribed it
  known,      \* [session -> uris the server notifies about]
  over        \* close(): "no", "parting", "over"

link == <<linked, current, recovery, watched, restored, strays>>
server == <<runs, live, opened, astray, known>>
mcpVars == <<req, wire, sid, link, server, errors, subs, over>>

McpInit ==
  /\ req = [r \in McpRequests |-> [at |-> "idle", session |-> None, again |-> FALSE]]
  /\ wire = [f \in Fetches |-> Nothing]
  /\ runs = [r \in ToolCalls |-> 0]
  /\ sid = 1 /\ live = {1} /\ opened = 1
  /\ linked = TRUE /\ current = {}
  /\ recovery = "none" /\ watched = FALSE /\ restored = {}
  /\ strays = 0 /\ astray = {} /\ errors = 0
  /\ subs = {} /\ known = [s \in 1 .. MaxSessions |-> {}]
  /\ over = "no"

Moved(r, at) == [req EXCEPT ![r].at = at]

\* An aborted fetch: the server may have the call all the same, the answer is not read.
Cut(f) == IF f[1] \in ToolCalls /\ wire[f].at \in {"sent", "cut"} THEN [wire[f] EXCEPT !.at = "cut"] ELSE Nothing
Ended(f) == [wire EXCEPT ![f] = Nothing]

Awaited(f) == req[f[1]].at = "pending" /\ req[f[1]].again = f[2]

\* What is to be subscribed again: its request, or initialize, is pending.
Asking == recovery = "init" \/ (recovery = "restore" /\ ~(subs \subseteq restored))

-----------------------------------------------------------------------------
\* All pending requests fail and the client stays disconnected; when the recovery
\* ends with it, so do those who wait for that.
FailAll(ends) ==
  /\ req' = [r \in McpRequests |->
       IF req[r].at = "pending" \/ (ends /\ req[r].at = "recover") THEN [req[r] EXCEPT !.at = "failed"] ELSE req[r]]
  /\ linked' = FALSE /\ current' = {}
  /\ recovery' = IF ends THEN "none" ELSE recovery
  /\ watched' = (~ends /\ watched)
  /\ restored' = IF ends THEN {} ELSE restored

\* failPending: the recovery's own request is one of those pending, a
\* notification on its way is not.  An initialize is given up, not recalled.
FailPending ==
  /\ FailAll(Asking)
  /\ strays' = IF recovery = "init" THEN strays + 1 ELSE strays

\* recoverSession, called by onError: begins a recovery or joins it.
JoinRecovery ==
  /\ watched' = TRUE
  /\ IF recovery = "none"
     THEN recovery' = "init" /\ linked' = FALSE /\ current' = {}
     ELSE UNCHANGED <<recovery, linked, current>>
  /\ UNCHANGED <<restored, strays>>

\* bindExecution: the user approves a call on the connection of that moment.
Approve(r) ==
  /\ r \in ToolCalls /\ req[r].at = "idle" /\ linked
  /\ req' = [req EXCEPT ![r].at = "approved", ![r].session = sid]
  /\ current' = current \cup {r}
  /\ UNCHANGED <<wire, sid, linked, recovery, watched, restored, strays, server, errors, subs, over>>

\* Mutant: the revision of the approval is not compared.
MaySendAnyway(r) == linked

MaySend(r) == linked /\ (r \in ToolCalls => r \in current)

Send(r) ==
  /\ req[r].at = IF r \in ToolCalls THEN "approved" ELSE "idle"
  /\ IF MaySend(r)
     THEN /\ req' = Moved(r, "pending")
          /\ wire' = [wire EXCEPT ![<<r, FALSE>>] = [at |-> "sent", under |-> sid]]
     ELSE req' = Moved(r, "failed") /\ UNCHANGED wire
  /\ UNCHANGED <<sid, link, server, errors, subs, over>>

\* The server: 404 for a session it has forgotten, 400 without one.
Serve(f) ==
  /\ wire[f].at \in {"sent", "cut"}
  /\ LET r == f[1]
         s == wire[f].under
     IN /\ wire' = IF wire[f].at = "cut" THEN Ended(f)
                   ELSE [wire EXCEPT ![f].at = IF s \in live THEN "answered" ELSE "refused"]
        /\ runs' = IF s \in live /\ r \in ToolCalls THEN [runs EXCEPT ![r] = @ + 1] ELSE runs
        /\ known' = IF s \in live /\ r \in Subscribes THEN [known EXCEPT ![s] = @ \cup {r}] ELSE known
  /\ UNCHANGED <<req, sid, link, live, opened, astray, errors, subs, over>>

\* The session is lost with the answer: a 404 says nothing about the effect.
AnswerLost(f) ==
  /\ wire[f].at = "answered" /\ wire[f].under \notin live
  /\ wire' = [wire EXCEPT ![f].at = "refused"]
  /\ UNCHANGED <<req, sid, link, server, errors, subs, over>>

\* receive: an answer nobody waits for any more is ignored.
Answered(f) ==
  /\ wire[f].at = "answered" /\ wire' = Ended(f)
  /\ IF Awaited(f)
     THEN /\ req' = Moved(f[1], "ok")
          /\ subs' = IF f[1] \in Subscribes THEN subs \cup {f[1]} ELSE subs
     ELSE UNCHANGED <<req, subs>>
  /\ UNCHANGED <<sid, link, server, errors, over>>

\* A 404 of a fetch that had a session: whatever session the transport has now is
\* dropped.  The request, if it still waits, waits for the recovery; one that is a
\* repetition fails, and the recovery begins all the same.  While the client
\* closes everything pending fails.
Expired(f) ==
  /\ wire[f].under # None /\ sid' = None
  /\ IF over = "no"
     THEN /\ JoinRecovery
          /\ req' = IF Awaited(f) THEN Moved(f[1], IF f[2] THEN "failed" ELSE "recover") ELSE req
     ELSE FailPending

\* Without a session the refusal is an error of the transport, or, in the form of
\* a JSON-RPC error, the answer to this request.
Rejected(f) ==
  /\ wire[f].under = None /\ UNCHANGED sid
  /\ \/ FailPending
     \/ /\ req' = IF Awaited(f) THEN Moved(f[1], "failed") ELSE req
        /\ UNCHANGED link

Refused(f) ==
  /\ wire[f].at = "refused" /\ wire' = Ended(f)
  /\ Expired(f) \/ Rejected(f)
  /\ UNCHANGED <<server, errors, subs, over>>

\* Any other error of a fetch ends the connection for all.
NetworkFails(f) ==
  /\ wire[f].at \in {"sent", "answered", "refused"}
  /\ wire' = [wire EXCEPT ![f] = Cut(f)]
  /\ FailPending
  /\ UNCHANGED <<sid, server, errors, subs, over>>

\* The request timer: notifications/cancelled also aborts the fetch.
McpTimeout(r) ==
  /\ req[r].at = "pending"
  /\ req' = Moved(r, "failed")
  /\ wire' = [wire EXCEPT ![<<r, req[r].again>>] = Cut(<<r, req[r].again>>)]
  /\ UNCHANGED <<sid, link, server, errors, subs, over>>

\* The GET stream or a notification, each sent under the session of its time,
\* meets a 404 ...
ChannelRefused ==
  /\ errors < MaxChannelErrors /\ errors' = errors + 1
  /\ 1 .. opened \ live # {}
  /\ sid' = None
  /\ IF over = "no" THEN JoinRecovery /\ UNCHANGED req ELSE FailPending
  /\ UNCHANGED <<wire, server, subs, over>>

\* ... or any other error.
ChannelBreaks ==
  /\ errors < MaxChannelErrors /\ errors' = errors + 1
  /\ FailPending
  /\ UNCHANGED <<wire, sid, server, subs, over>>

-----------------------------------------------------------------------------
\* The answer of initialize names the session.
OpenSession ==
  /\ opened < MaxSessions /\ opened' = opened + 1
  /\ sid' = opened' /\ live' = live \cup {opened'}

Initialized ==
  /\ recovery = "init" /\ recovery' = "notify"
  /\ OpenSession
  /\ UNCHANGED <<req, wire, runs, linked, current, watched, restored, strays, astray, errors, subs, known, over>>

\* So does the answer of one that was given up, though nobody waits for it.
StrayInitialized ==
  /\ strays > 0 /\ strays' = strays - 1
  /\ OpenSession
  /\ astray' = astray \cup {opened'}
  /\ UNCHANGED <<req, wire, runs, linked, current, recovery, watched, restored, errors, subs, known, over>>

\* notifications/initialized arrived; it was sent under the session just opened.
Reconnected ==
  /\ recovery = "notify" /\ opened \in live
  /\ linked' = TRUE /\ current' = {}
  /\ recovery' = "restore"
  /\ UNCHANGED <<req, wire, sid, watched, restored, strays, server, errors, subs, over>>

Restore(u) ==
  /\ recovery = "restore" /\ sid \in live
  /\ u \in subs \ restored
  /\ known' = [known EXCEPT ![sid] = @ \cup {u}]
  /\ restored' = restored \cup {u}
  /\ UNCHANGED <<req, wire, runs, sid, live, opened, astray, linked, current, recovery, watched, strays, errors, subs, over>>

\* Mutant: whatever was interrupted is repeated.
RepeatAll(r) == TRUE

\* After a recovery only a request without effects is repeated.
MayRepeat(r) == r \notin Bound

Resumed ==
  LET Repeats(r) == req[r].at = "recover" /\ MayRepeat(r)
  IN /\ req' = [r \in McpRequests |->
           IF Repeats(r) THEN [req[r] EXCEPT !.at = "pending", !.again = TRUE]
           ELSE IF req[r].at = "recover" THEN [req[r] EXCEPT !.at = "unknown"] ELSE req[r]]
     /\ wire' = [f \in Fetches |-> IF f[2] /\ Repeats(f[1]) THEN [at |-> "sent", under |-> sid] ELSE wire[f]]

\* Mutant: the recovery ends before anything is subscribed again.
RecoveredEarly ==
  /\ recovery = "restore"
  /\ recovery' = "none" /\ watched' = FALSE /\ restored' = {}
  /\ Resumed
  /\ UNCHANGED <<sid, linked, current, strays, server, errors, subs, over>>

Recovered == subs \subseteq restored /\ RecoveredEarly

\* A request of the recovery fails.  An error of the transport, or of a recovery
\* that onError awaits, fails everything; a timeout or an error that the server
\* answers otherwise only those who wait for the recovery.
RecoveryFails ==
  /\ Asking \/ recovery = "notify"
  /\ \/ FailAll(TRUE)
     \/ /\ ~watched /\ Asking
        /\ req' = [r \in McpRequests |-> IF req[r].at = "recover" THEN [req[r] EXCEPT !.at = "failed"] ELSE req[r]]
        /\ recovery' = "none" /\ restored' = {}
        /\ UNCHANGED <<linked, current, watched>>
  /\ UNCHANGED <<wire, sid, strays, server, errors, subs, over>>

\* The new session is gone as well.  Everything pending meets that error and
\* recovers once more; those who waited, or were repeated already, fail.
RecoveryLost ==
  /\ \/ recovery = "notify" /\ opened \notin live
     \/ recovery = "restore" /\ Asking /\ sid # None /\ sid \notin live
  /\ sid' = None
  /\ IF over = "no"
     THEN LET Again(r) == req[r].at = "pending" /\ ~req[r].again
          IN /\ req' = [r \in McpRequests |->
                   IF Again(r) THEN [req[r] EXCEPT !.at = "recover"]
                   ELSE IF req[r].at \in {"pending", "recover"} THEN [req[r] EXCEPT !.at = "failed"] ELSE req[r]]
             /\ recovery' = IF \E r \in McpRequests : Again(r) THEN "init" ELSE "none"
             /\ linked' = FALSE /\ current' = {}
             /\ watched' = FALSE /\ restored' = {}
     ELSE FailAll(TRUE)
  /\ UNCHANGED <<wire, strays, server, errors, subs, over>>

\* The server forgets a session.
Forget(s) ==
  /\ s \in live
  /\ live' = live \ {s} /\ known' = [known EXCEPT ![s] = {}]
  /\ UNCHANGED <<req, wire, runs, sid, opened, astray, link, errors, subs, over>>

-----------------------------------------------------------------------------
\* What is pending fails and all fetches are aborted but that of a notification:
\* with it a recovery goes on after the close.
Shut ==
  /\ over' = "over"
  /\ FailAll(Asking) /\ strays' = 0
  /\ wire' = [f \in Fetches |-> Cut(f)]
  /\ UNCHANGED <<sid, server, errors>>

\* close(): a connected client unsubscribes first.
CloseClient ==
  /\ over = "no"
  /\ \/ /\ linked /\ subs # {}
        /\ over' = "parting"
        /\ UNCHANGED <<req, wire, sid, link, server, errors, subs>>
     \/ /\ ~(linked /\ subs # {})
        /\ Shut /\ UNCHANGED subs

CloseEnds == over = "parting" /\ Shut /\ subs' = {}

\* The transport deletes its session.
SessionDeleted ==
  /\ over = "over" /\ sid # None
  /\ sid' = None
  /\ live' = live \ {sid} /\ known' = [known EXCEPT ![sid] = {}]
  /\ UNCHANGED <<req, wire, runs, opened, astray, link, errors, subs, over>>

RecoveryGoesOn ==
  Initialized \/ Reconnected \/ (\E u \in Subscribes : Restore(u)) \/ Recovered \/ RecoveryFails \/ RecoveryLost

McpNext ==
  \/ \E r \in McpRequests : Approve(r) \/ Send(r) \/ McpTimeout(r)
  \/ \E f \in Fetches : Serve(f) \/ AnswerLost(f) \/ Answered(f) \/ Refused(f) \/ NetworkFails(f)
  \/ RecoveryGoesOn \/ StrayInitialized \/ CloseClient \/ CloseEnds \/ SessionDeleted
  \/ ChannelRefused \/ ChannelBreaks \/ (\E s \in 1 .. MaxSessions : Forget(s))

McpSpec == McpInit /\ [][McpNext]_mcpVars

-----------------------------------------------------------------------------
McpRequest ==
  [at : {"idle", "approved", "pending", "recover", "ok", "failed", "unknown"},
   session : Nat, again : BOOLEAN]

McpFetch == [at : {"none", "sent", "cut", "answered", "refused"}, under : Nat]

McpTypeOK ==
  /\ req \in [McpRequests -> McpRequest]
  /\ wire \in [Fetches -> McpFetch]
  /\ runs \in [ToolCalls -> Nat]
  /\ sid \in Nat /\ opened \in Nat /\ strays \in Nat
  /\ linked \in BOOLEAN /\ current \subseteq ToolCalls
  /\ live \subseteq 1 .. opened

\* A tool call never takes effect twice, whatever is repeated after a recovery:
\* also when its answer was lost, its fetch aborted or its outcome is unknown.
CallsRunOnce == \A r \in ToolCalls : runs[r] <= 1

\* A call takes effect only in the session it was approved for, unless the late
\* answer of an initialize that was given up has replaced that session unnoticed.
CallsRunWhereApproved ==
  [][\A r \in ToolCalls :
       runs'[r] > runs[r] => wire[<<r, FALSE>>].under \in {req[r].session} \cup astray]_mcpVars

\* A recovery that ends connected, with a session the server knows, has made it
\* notify about all that was subscribed.  Outside are a session opened by a stray
\* initialize, and a recovery that failed for those who wait for it only.
SubscriptionsRestored ==
  [][recovery = "restore" /\ recovery' = "none" /\ linked' /\ watched /\ sid \in live \ astray
       => subs \subseteq known[sid]]_mcpVars

\* No request waits, for its answer or for a recovery.  That this comes about again
\* and again means that each comes to its end, as a request is sent once: whatever
\* sessions are lost, however often recoveries fail, and also by a close.
NobodyWaits == \A r \in McpRequests : req[r].at \notin {"pending", "recover"}
=============================================================================

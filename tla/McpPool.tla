-------------------------------- MODULE McpPool --------------------------------
(***************************************************************************)
(* The connections to the configured MCP servers and the lists they show,   *)
(*   src/src/services/mcp/pool.ts     connectMcpPool                        *)
(*   src/src/services/mcp/manager.ts  refresh, scheduleRefresh              *)
(* A server is reconnected beside the others; a changed list is asked for   *)
(* again on every notification, and the answers come in any order.          *)
(***************************************************************************)
EXTENDS Integers, FiniteSets

CONSTANTS
  Servers,
  MaxLinks,        \* bound: connections ever opened
  MaxChanges       \* bound: changes of a server's list

ASSUME McpPoolAssumption == MaxLinks \in Nat /\ MaxChanges \in Nat

Refreshes == 1 .. MaxChanges

VARIABLES
  slot,        \* slots: the connection of a server, or 0
  trying,      \* pending: the connection being made, or 0
  prior,       \* the connection that is being replaced, or 0
  linksMade,      \* connections made so far
  openLinks,   \* connections not closed
  poolEnd,     \* close(): "open", "waiting", "closed"
  version,     \* list the server would answer with
  notes,       \* list_changed notifications on their way
  generation,  \* refreshGenerations
  refreshes,   \* by generation: what became of a refresh
  listed,      \* the list it was answered with
  shown, wrong \* snapshot and refreshErrors

linkVars == <<slot, trying, prior, linksMade, openLinks, poolEnd>>
listVars == <<version, notes, generation, refreshes, listed, shown, wrong>>
poolVars == <<linkVars, listVars>>

PoolInit ==
  /\ slot = [s \in Servers |-> 0] /\ trying = slot /\ prior = slot
  /\ linksMade = 0 /\ openLinks = {} /\ poolEnd = "open"
  /\ version = 0 /\ notes = 0 /\ generation = 0 /\ shown = 0 /\ wrong = FALSE
  /\ refreshes = [r \in Refreshes |-> "none"] /\ listed = [r \in Refreshes |-> 0]

Working(s) == trying[s] # 0 \/ prior[s] # 0

Reconnect(s) ==
  /\ poolEnd = "open" /\ linksMade < MaxLinks
  /\ ~Working(s)
  /\ linksMade' = linksMade + 1
  /\ trying' = [trying EXCEPT ![s] = linksMade + 1]
  /\ openLinks' = openLinks \cup {linksMade + 1}
  /\ UNCHANGED <<slot, prior, poolEnd, listVars>>

\* Taken over, unless the pool was closed meanwhile.
TakeOver(s) ==
  IF poolEnd # "open"
  THEN openLinks' = openLinks \ {trying[s]} /\ UNCHANGED <<slot, prior>>
  ELSE /\ slot' = [slot EXCEPT ![s] = trying[s]]
       /\ prior' = [prior EXCEPT ![s] = slot[s]]
       /\ UNCHANGED openLinks

Connected(s) ==
  /\ trying[s] # 0
  /\ TakeOver(s)
  /\ trying' = [trying EXCEPT ![s] = 0]
  /\ UNCHANGED <<linksMade, poolEnd, listVars>>

\* It cannot be made, was aborted, or its tools clash with those of another.
ConnectFails(s) ==
  /\ trying[s] # 0
  /\ openLinks' = openLinks \ {trying[s]}
  /\ trying' = [trying EXCEPT ![s] = 0]
  /\ UNCHANGED <<slot, prior, linksMade, poolEnd, listVars>>

PriorCloses(s) ==
  /\ prior[s] # 0
  /\ openLinks' = openLinks \ {prior[s]}
  /\ prior' = [prior EXCEPT ![s] = 0]
  /\ UNCHANGED <<slot, trying, linksMade, poolEnd, listVars>>

ClosePool ==
  /\ poolEnd = "open"
  /\ poolEnd' = "waiting"
  /\ UNCHANGED <<slot, trying, prior, linksMade, openLinks, listVars>>

\* Mutant: what is being connected is not waited for.
CloseSlots ==
  /\ poolEnd = "waiting"
  /\ poolEnd' = "closed"
  /\ openLinks' = openLinks \ {slot[s] : s \in Servers}
  /\ slot' = [s \in Servers |-> 0]
  /\ UNCHANGED <<trying, prior, linksMade, listVars>>

PoolDrained == (\A s \in Servers : ~Working(s)) /\ CloseSlots

Change ==
  /\ version < MaxChanges
  /\ version' = version + 1
  /\ notes' = notes + 1
  /\ UNCHANGED <<linkVars, generation, refreshes, listed, shown, wrong>>

\* scheduleRefresh
Notified ==
  /\ notes > 0
  /\ notes' = notes - 1
  /\ generation' = generation + 1
  /\ refreshes' = [refreshes EXCEPT ![generation + 1] = "asked"]
  /\ UNCHANGED <<linkVars, version, listed, shown, wrong>>

Listed(r) ==
  /\ refreshes[r] = "asked"
  /\ refreshes' = [refreshes EXCEPT ![r] = "listed"]
  /\ listed' = [listed EXCEPT ![r] = version]
  /\ UNCHANGED <<linkVars, version, notes, generation, shown, wrong>>

\* Mutant: every answer is shown.
MayShowAny(r) == TRUE

MayShow(r) == r = generation

Show(r) ==
  /\ refreshes[r] = "listed"
  /\ refreshes' = [refreshes EXCEPT ![r] = "over"]
  /\ IF MayShow(r) THEN shown' = listed[r] /\ wrong' = FALSE ELSE UNCHANGED <<shown, wrong>>
  /\ UNCHANGED <<linkVars, version, notes, generation, listed>>

RefreshFails(r) ==
  /\ refreshes[r] \in {"asked", "listed"}
  /\ refreshes' = [refreshes EXCEPT ![r] = "over"]
  /\ wrong' = TRUE
  /\ UNCHANGED <<linkVars, version, notes, generation, listed, shown>>

PoolNext ==
  \/ \E s \in Servers : Reconnect(s) \/ Connected(s) \/ ConnectFails(s) \/ PriorCloses(s)
  \/ ClosePool \/ PoolDrained
  \/ Change \/ Notified
  \/ \E r \in Refreshes : Listed(r) \/ Show(r) \/ RefreshFails(r)

PoolSpec == PoolInit /\ [][PoolNext]_poolVars

-----------------------------------------------------------------------------
PoolTypeOK ==
  /\ {slot, trying, prior} \subseteq [Servers -> 0 .. linksMade]
  /\ openLinks \subseteq 1 .. linksMade /\ linksMade \in 0 .. MaxLinks
  /\ {version, notes, generation, shown} \subseteq 0 .. MaxChanges
  /\ poolEnd \in {"open", "waiting", "closed"}

\* Every connection that is open belongs to a server: none leaks when one is
\* replaced, and none is left when close() has returned.
NoLinkLeaks ==
  /\ openLinks = (UNION {{slot[s], trying[s], prior[s]} : s \in Servers}) \ {0}
  /\ poolEnd = "closed" => openLinks = {}

\* When the server is still, what is shown is its list, or an error is on record.
CatalogConverges ==
  notes = 0 /\ (\A r \in Refreshes : refreshes[r] \in {"none", "over"}) => shown = version \/ wrong

\* Neither a connection nor a newer listing is lost to one that overtakes it.
PoolSafety == PoolTypeOK /\ NoLinkLeaks /\ CatalogConverges
=============================================================================

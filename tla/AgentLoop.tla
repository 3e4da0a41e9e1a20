------------------------------ MODULE AgentLoop ------------------------------
(***************************************************************************)
(* A turn of a conversation, its transcript and its calls,                  *)
(*   src/src/core/agent-loop.ts                runAgentLoop                 *)
(*   src/src/core/tool-runtime.ts              executeTool                  *)
(*   src/src/services/session/call-journal.ts  CallJournal                  *)
(*   src/src/services/session/storage.ts       SessionStore                 *)
(* Messages are kept in one file, calls in another, each append by itself;  *)
(* a run may break between any two.  The next run reads both and goes on    *)
(* only if it can tell what every call has done.  A provider may number     *)
(* the calls of every reply from 1.                                         *)
(***************************************************************************)
EXTENDS Integers, Sequences, FiniteSets

CONSTANTS
  Replies,             \* how a reply ends: reason, number of calls, whether it has text
  MaxTurns,            \* options.maxTurns
  MaxContinuations,    \* MAX_OUTPUT_TOKEN_RECOVERIES
  MaxShrinks,          \* compactions in a row after a context overflow
  MaxPrompts,          \* bound: runs
  MaxIncidents         \* bound: compactions, messages slipped in, refusals, aborts and breaks

ASSUME AgentLoopAssumption ==
  /\ {MaxTurns, MaxContinuations, MaxShrinks, MaxPrompts, MaxIncidents} \subseteq Nat
  /\ \A r \in Replies : r.calls \in Nat
  /\ \A r \in Replies : r.calls > 0 => r.reason \in {"tool-use", "max-tokens", "cancelled"}

VARIABLES
  kept,        \* the messages of the session, as readState() returns them
  ledger,      \* the journal, by invocation: call, scope, state, outcome
  said,        \* messages of the running loop
  stage,       \* where the run is
  reply,       \* the reply being worked on
  results,     \* outcomes of its calls so far
  counters,    \* turn, outputTokenRecoveries, contextOverflowRecoveries
  stopped,     \* signal.aborted
  ran,         \* calls that were executed, with their scope
  repeated,    \* some call was executed twice
  prompts, incidents

loopVars == <<kept, ledger, said, stage, reply, results, counters, stopped, ran, repeated, prompts, incidents>>
runVars == <<reply, results, counters, stopped>>
boundVars == <<prompts, incidents>>

NoReply == [reason |-> "none", calls |-> 0, text |-> FALSE]
Fresh == [turn |-> 0, more |-> 0, shrunk |-> 0]

Message(what, n, outcomes) == [what |-> what, n |-> n, outcomes |-> outcomes]
User == Message("user", 0, <<>>)
Text == Message("text", 0, <<>>)
Calls(n) == Message("calls", n, <<>>)
Results(outcomes) == Message("results", 0, outcomes)

LoopInit ==
  /\ kept = <<>> /\ ledger = <<>> /\ said = <<>>
  /\ stage = "idle" /\ reply = NoReply /\ results = <<>> /\ counters = Fresh
  /\ stopped = FALSE
  /\ ran = {} /\ repeated = FALSE
  /\ prompts = 0 /\ incidents = 0

\* assertBalancedToolHistory
Balanced(ms) ==
  \A i \in DOMAIN ms :
    /\ ms[i].what = "calls" =>
         i < Len(ms) /\ ms[i + 1].what = "results" /\ Len(ms[i + 1].outcomes) = ms[i].n
    /\ ms[i].what = "results" => i > 1 /\ ms[i - 1].what = "calls"

\* messages.push() and onMessage: nothing looks at the messages in between.
Say(m) == said' = Append(said, m) /\ kept' = Append(kept, m)

\* acquireRun() and readState()
StartRun ==
  /\ stage = "idle" /\ prompts < MaxPrompts
  /\ prompts' = prompts + 1
  /\ said' = kept /\ stage' = "recover"
  /\ UNCHANGED <<kept, ledger, runVars, ran, repeated, incidents>>

Incident == incidents < MaxIncidents /\ incidents' = incidents + 1

\* A message the caller slips in.
Aside == Incident /\ Say(User)

\* The run is over: it has returned or thrown, or the process is gone.
Over ==
  /\ stage' = "idle" /\ said' = <<>>
  /\ reply' = NoReply /\ results' = <<>> /\ counters' = Fresh /\ stopped' = FALSE

\* The invocations of a call in this place of the conversation.
Intents(ms, c) == {i \in DOMAIN ledger : ledger[i].call = c /\ ledger[i].scope = ms}

Outcome(ms, c) ==
  LET found == Intents(ms, c)
      last == CHOOSE i \in found : \A j \in found : j <= i
  IN IF found = {} \/ ledger[last].state # "settled" THEN "unknown" ELSE ledger[last].outcome

Recovered(ms, c) == Outcome(ms, c)

\* Mutant: the calls of an open round are made again.
RecoverByRunning ==
  /\ stage = "recover"
  /\ LET open == said # <<>> /\ said[Len(said)].what = "calls"
     IN IF open
        THEN stage' = "call" /\ reply' = [reason |-> "tool-use", calls |-> said[Len(said)].n, text |-> FALSE]
        ELSE stage' = "prompt" /\ UNCHANGED reply
  /\ UNCHANGED <<kept, said, results, counters, stopped, ledger, ran, repeated, boundVars>>

\* CallJournal.recover: an open round is closed with the outcomes of the
\* journal, or nothing goes on.
Recover ==
  /\ stage = "recover"
  /\ LET open == said # <<>> /\ said[Len(said)].what = "calls"
         outcomes == [c \in 1 .. said[Len(said)].n |-> Recovered(said, c)]
     IN \/ ~open /\ stage' = "prompt" /\ UNCHANGED <<kept, said, runVars>>
        \/ /\ open /\ \A c \in DOMAIN outcomes : outcomes[c] # "unknown"
           /\ Say(Results(outcomes)) /\ stage' = "prompt" /\ UNCHANGED runVars
        \/ open /\ (\E c \in DOMAIN outcomes : outcomes[c] = "unknown") /\ Over /\ UNCHANGED kept
  /\ UNCHANGED <<ledger, ran, repeated, boundVars>>

Prompt ==
  /\ stage = "prompt"
  /\ IF Balanced(said) THEN Say(User) /\ stage' = "turn" /\ UNCHANGED runVars
     ELSE Over /\ UNCHANGED kept
  /\ UNCHANGED <<ledger, ran, repeated, boundVars>>

\* The top of a turn: beforeTurn may add a message.
Turn ==
  /\ stage = "turn"
  /\ IF counters.turn = MaxTurns \/ stopped
     THEN Over /\ UNCHANGED <<kept, incidents>>
     ELSE /\ stage' = "fold" /\ UNCHANGED runVars
          /\ Aside \/ UNCHANGED <<said, kept, incidents>>
  /\ UNCHANGED <<ledger, ran, repeated, prompts>>

\* compactMessages and onCompact
Fold ==
  /\ Incident
  /\ said' = <<Message("summary", incidents, <<>>)>>
  /\ kept' = said'

Threshold ==
  /\ stage = "fold" /\ stage' = "ask"
  /\ Fold \/ UNCHANGED <<said, kept, incidents>>
  /\ UNCHANGED <<ledger, runVars, ran, repeated, prompts>>

\* The request does not fit: the history is compacted and asked again.
Overflow ==
  /\ stage = "ask" /\ Balanced(said) /\ ~stopped
  /\ counters.shrunk < MaxShrinks
  /\ Fold /\ counters' = [counters EXCEPT !.shrunk = @ + 1]
  /\ UNCHANGED <<ledger, stage, reply, results, stopped, ran, repeated, prompts>>

\* The calls of a reply that was cut off are left out.
KeepsCalls(r) == r.calls > 0 /\ r.reason \notin {"max-tokens", "cancelled"}

\* The stream has ended; its message is appended before anything is done.
Reply(r) ==
  /\ stage = "ask" /\ Balanced(said) /\ ~stopped
  /\ reply' = r /\ stage' = "said"
  /\ counters' = [counters EXCEPT !.shrunk = 0]
  /\ IF KeepsCalls(r) THEN Say(Calls(r.calls))
     ELSE IF r.text THEN Say(Text) ELSE UNCHANGED <<said, kept>>
  /\ UNCHANGED <<ledger, results, stopped, ran, repeated, boundVars>>

Aborted ==
  /\ stage = "ask" /\ (stopped \/ ~Balanced(said))
  /\ Over
  /\ UNCHANGED <<kept, ledger, ran, repeated, boundVars>>

NextTurn(more) ==
  /\ stage' = "turn"
  /\ counters' = [counters EXCEPT !.turn = @ + 1, !.more = @ + more]
  /\ reply' = NoReply /\ results' = <<>>
  /\ UNCHANGED stopped

CutOff == reply.reason = "max-tokens" /\ counters.more < MaxContinuations

Continue ==
  /\ stage = "said" /\ CutOff
  /\ Say(User) /\ NextTurn(1)
  /\ UNCHANGED <<ledger, ran, repeated, boundVars>>

\* onStop has something to say, or the run returns.
Stopping ==
  /\ stage = "said" /\ ~CutOff /\ reply.reason # "tool-use"
  /\ \/ Aside /\ NextTurn(0)
     \/ Over /\ UNCHANGED <<kept, incidents>>
  /\ UNCHANGED <<ledger, ran, repeated, prompts>>

CallTools ==
  /\ stage = "said" /\ reply.reason = "tool-use"
  /\ IF reply.calls = 0 THEN Over
     ELSE stage' = "call" /\ results' = <<>> /\ UNCHANGED <<said, reply, counters, stopped>>
  /\ UNCHANGED <<kept, ledger, ran, repeated, boundVars>>

Use == Len(results) + 1
Invocation == Len(ledger)

Note(outcome) ==
  /\ results' = Append(results, outcome)
  /\ stage' = IF Use = reply.calls THEN "results" ELSE "call"

Settled(entry, outcome) == [entry EXCEPT !.state = "settled", !.outcome = outcome]
SettleCall(outcome) == ledger' = [ledger EXCEPT ![Invocation] = Settled(@, outcome)]

Hindered == IF stopped THEN UNCHANGED incidents ELSE Incident

\* Unknown, invalid, denied, aborted, or hindered by a hook: no trace of it is
\* left but its result.
Refuse ==
  /\ stage = "call" /\ Hindered /\ Note("refused")
  /\ UNCHANGED <<kept, ledger, said, reply, counters, stopped, ran, repeated, prompts>>

Intend ==
  /\ stage = "call" /\ ~stopped
  /\ ledger' = Append(ledger, [call |-> Use, scope |-> said, state |-> "intended", outcome |-> "none"])
  /\ stage' = "intended"
  /\ UNCHANGED <<kept, said, runVars, ran, repeated, boundVars>>

Dispatch ==
  /\ stage = "intended"
  /\ ledger' = [ledger EXCEPT ![Invocation].state = "dispatched"]
  /\ stage' = "dispatched"
  /\ UNCHANGED <<kept, said, runVars, ran, repeated, boundVars>>

\* The authority has changed, or the signal is aborted, before the tool runs.
Withdraw ==
  /\ stage \in {"intended", "dispatched"} /\ Hindered
  /\ SettleCall("refused") /\ Note("refused")
  /\ UNCHANGED <<kept, said, reply, counters, stopped, ran, repeated, prompts>>

Execute ==
  /\ stage = "dispatched" /\ ~stopped
  /\ ran' = ran \cup {<<said, Use>>} /\ repeated' = (repeated \/ <<said, Use>> \in ran)
  /\ stage' \in {"done", "failed"}
  /\ UNCHANGED <<kept, ledger, said, runVars, boundVars>>

\* The outcome is saved before the hooks and once more with what they add; a
\* tool that has thrown is settled after them.
Settle ==
  /\ stage \in {"done", "failed", "hooked"} /\ SettleCall("ran")
  /\ IF stage = "done" THEN stage' = "hooked" /\ UNCHANGED results ELSE Note("ran")
  /\ UNCHANGED <<kept, said, reply, counters, stopped, ran, repeated, boundVars>>

GiveResults ==
  /\ stage = "results"
  /\ Say(Results(results)) /\ NextTurn(0)
  /\ UNCHANGED <<ledger, ran, repeated, boundVars>>

Abort ==
  /\ stage # "idle" /\ ~stopped /\ Incident /\ stopped' = TRUE
  /\ UNCHANGED <<kept, ledger, said, stage, reply, results, counters, ran, repeated, prompts>>

\* An append, a hook before the loop or the provider fails, or the process dies.
Break ==
  /\ stage # "idle" /\ Incident /\ Over
  /\ UNCHANGED <<kept, ledger, ran, repeated, prompts>>

RunGoesOn ==
  \/ Recover \/ Prompt \/ Turn \/ Threshold
  \/ Overflow \/ Aborted
  \/ \E r \in Replies : Reply(r)
  \/ Continue \/ Stopping \/ CallTools
  \/ Refuse \/ Intend \/ Dispatch \/ Withdraw \/ Execute \/ Settle \/ GiveResults

LoopNext == StartRun \/ RunGoesOn \/ Abort \/ Break

LoopSpec == LoopInit /\ [][LoopNext]_loopVars

\* Hooks, appends and tools return, and streams end.
LoopFairness == WF_loopVars(RunGoesOn)

-----------------------------------------------------------------------------
MessageShape(m) ==
  /\ m.what \in {"user", "text", "calls", "results", "summary"}
  /\ m.n \in Nat /\ m.outcomes \in Seq({"ran", "refused"})

LoopTypeOK ==
  /\ \A i \in DOMAIN kept : MessageShape(kept[i])
  /\ \A i \in DOMAIN said : MessageShape(said[i])
  /\ \A i \in DOMAIN ledger : ledger[i].state \in {"intended", "dispatched", "settled"}
  /\ stage \in {"idle", "recover", "prompt", "turn", "fold", "ask", "said", "call", "intended",
                "dispatched", "done", "failed", "hooked", "results"}
  /\ reply \in Replies \cup {NoReply} /\ Len(results) <= reply.calls
  /\ counters.turn <= MaxTurns /\ counters.more <= MaxContinuations /\ counters.shrunk <= MaxShrinks
  /\ {stopped, repeated} \subseteq BOOLEAN

\* What the model is asked with is what the next run would read, compacted or
\* not, recovered or not.
KeptIsSent == stage = "ask" => said = kept

\* Only the last round of a transcript may be open, wherever a run broke.
RoundsAreClosed ==
  \A i \in DOMAIN kept :
    kept[i].what = "calls" =>
      i = Len(kept) \/ (kept[i + 1].what = "results" /\ Len(kept[i + 1].outcomes) = kept[i].n)

\* A result says that a call was executed exactly if it was: none is reported
\* that was not, and none that was is passed off as refused.
ResultsAreTrue ==
  \A i \in DOMAIN kept : kept[i].what = "results" =>
    \A c \in DOMAIN kept[i].outcomes :
      kept[i].outcomes[c] = "ran" <=> <<SubSeq(kept, 1, i - 1), c>> \in ran

\* No call is executed twice, whatever is recovered.
NoCallTwice == ~repeated

\* The conversation on disk is the one the model sees, and it says the truth about
\* what was run.
LoopSafety == LoopTypeOK /\ KeptIsSent /\ RoundsAreClosed /\ ResultsAreTrue /\ NoCallTwice

\* A run comes to its end: turns, continuations of cut-off replies and
\* compactions are bounded.
LoopEnds == stage # "idle" ~> stage = "idle"
=============================================================================

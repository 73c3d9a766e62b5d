# A TLA+ model of ols-automator

ols-automator is a small service that receives events, stores each one as a
*work item* in a database table, and drives the item through the phases of a
configured policy: it calls A2A agents for automatic phases and waits for a
reviewer in manual ones. This directory holds TLA+ modules that model the
service, TLC configurations that model-check them on small instances, and
theorems about them, checked by TLAPS for every instance. File names and line
numbers below refer to `src/` of the repository.

The service has no locks and no queue of its own. Every coordination goes
through columns of one table (`phase`, `ready`, `mode`, `locked_at`,
`failed_from_phase`), read in one transaction and written in a later one, by
coroutines of the loop, by HTTP handlers, and by whatever other replicas there
are. Whether those columns are enough is what the project is about.

## 1. Inventory

| Component | Source | State | Operations | Called by |
|---|---|---|---|---|
| Policies | `models/models.py:30-79`, `models/config.py:66-71` | constant in a process, may change with its restart | validator, `first_phase`, `next_phase`, `get_phase`, `match_policy` | all others |
| Work items table | `models/models.py:122-150` | one row per key | the writes of the components below | loop, routes |
| Reconciliation loop | `services/orchestrator.py` | position of `run_loop`; rows marked by `_release_stale`; one coroutine per selected item | `_cleanup_completed`, `_release_stale`, `_reconcile`, `_run_phase`, `_save_failed`, `_update_gauges` | lifespan |
| Event ingestion | `routes/events.py` | none | `receive_event`, `_store_event` | clients |
| Review and failed-item actions | `routes/items.py` | the row a handler has read | `review_item`, `failed_item_action`, two GETs | clients |
| Service lifecycle | `main.py` | loop task, database engine | start, stop, probes | deployment |
| A2A client | `services/a2a_client.py` | none between calls | `send_message`, transient retry, reading of task states | loop |
| Discovery and skill RAG | `services/agent_rag.py` | agent cards, index of skills | `discover_agents`, `match` | lifespan, loop |
| Metrics | `metrics.py` | gauges and counters | `_update_gauges`, increments | loop, routes |
| Schema script, local agents | `scripts/`, `local_testing/` | - | - | developers |

How they interact:

- *Shared state.* Loop and routes never call each other. They meet in the table:
  a route makes a row `ready`, the loop's next SELECT sees it.
- *Claim.* `_run_phase` takes an item with a conditional UPDATE
  (`WHERE key = ? AND ready`), which also writes `mode` and `locked_at`. It then
  works, for minutes perhaps, with no transaction open, and at the end loads
  the row by key and writes what it computed.
- *Barrier.* `_reconcile` gathers all coroutines of its cycle, so cleaning up,
  releasing and selecting happen only while no coroutine of this replica runs.
- *ORM.* A handler changes attributes of the object it loaded; `commit` sends an
  UPDATE by primary key of the columns that differ from what was loaded. No
  version column, no `SELECT ... FOR UPDATE`.

What is hard: reads and writes of one row by several writers, with an await in
between; an agent call that may outlast the hour after which a lock counts as
stale; a process that ends with items claimed; database errors in one step of
several, some of which nobody sees (`gather(return_exceptions=True)`); failed
items that come back by retry with part of their results. The list of hazards
with their lines is in `PROJECT.json`.

What makes each component correct:

- policies: the walk from the first phase by `next_phase` visits every phase in
  order and ends in `completed`;
- table and loop: an item is worked on by one coroutine, in the phase the row is
  in, with the results of the phases before; it is never lost, and it comes to
  rest;
- review: nothing behind a manual phase runs without its approval, and a denial
  is final;
- failed-item actions: only an error can be retried, only failed items can be
  deleted;
- all of these together: an item takes the moves `README.md:61-83` describes, and no
  other;
- lifecycle: a crash costs time, not correctness; whoever uses the database finds
  its tables and the engine, at start-up and at shutdown; a shutdown ends; an
  outage of the database is not taken for a dead loop;
- a new configuration: items that are under way come to rest under it, and nothing that the
  old and the new one both ask of an item is left out while replicas change over;
- agents: a query leads to a skill that none of the `top_k` most similar ones outdoes, called
  with the card, headers and timeout of its agent; a call of a prompt agent ends in a
  bounded time.

## 2. The modules

| Module | Models | Lines of code it stands for |
|---|---|---|
| `Policy` | policies and their lookups, as operators on the constant `Policies` | `models.py:12-79`, `config.py:66-71` |
| `WorkItems` | the table, what each writer does to a row, the ORM's UPDATE | `models.py:122-150` and the assignments of all writers |
| `Orchestrator` | the loop and its coroutines, on every replica | `orchestrator.py` |
| `ItemRoutes` | the handlers that write | `routes/events.py`, `routes/items.py` |
| `Automator` | the composition, clock, faults, fairness; the properties | `main.py` |
| `Invariants` | type invariant and inductive invariant | - |
| `Passage` | what an item has been through, kept across removal and posting again: history over `Automator` | - |
| `Gauges` | what each gauge of `/metrics` counts | `orchestrator.py:255-300` |
| `Invocation` | what the loop relies on when it awaits an agent call | - |
| `A2AClient` | `send_message` and its retries, over a lossy network | `a2a_client.py:41-83, 161-263` |
| `Workflow` | what the service promises of an item: the abstract specification | `README.md:61-83, 149` |
| `Promises` | the refinement mapping from the table to `Workflow` | - |
| `Rollout` | replicas that are restarted one by one with new policies | `config.py:101-127`, over `Automator` |
| `RolloutPassage` | what an item has been through during a rollout: history over `Rollout` | - |
| `SkillRAG` | the index of skills: vector store, BM25, fusion of the scores | `agent_rag.py` |
| `Discovery` | `discover_agents` at start-up and the lookups of an agent call | `agent_rag.py`, `orchestrator.py:134-176` |
| `Lifespan` | one process from start to stop: event loop, probes, outages, cancellation | `main.py`, `orchestrator.py:25-37` |
| `MCAutomator`, `MCPassage`, `MCRollout`, `MCReplicas`, `MCDiscovery` | values of the small instances | - |
| `TypeProofs`, `SafetyProofs`, `WorkflowProofs`, `PassageProofs`, `RolloutProofs`, `A2AProofs`, `DiscoveryProofs`, `LifespanProofs` | theorems | - |

`Passage` and `Rollout` extend `Automator`, which composes `Orchestrator` and `ItemRoutes` over
`WorkItems` and `Policy`; `RolloutPassage` extends both; `A2AClient` implements `Invocation`,
which is what `Orchestrator` assumes of a call; `Automator` implements `Workflow`. `Discovery` and
`Lifespan` stand alone: neither touches a row, and what they leave to the others (an exception
instead of a call; a process that starts, stops or crashes) is a step of those.

### State and code

`items[k]` is a row or `NoRow`. Every transaction of the program writes rows one
by one, by key, so a function from keys to rows loses nothing. Columns nobody
decides on (names, contents, timestamps) are left out; `step_results` keeps its
set of keys; `failure_reason` keeps whether it is a reviewer's or an error
(whether a second error has another text than the first, and is therefore written, is left open:
`FlushReason`);
`locked_at` is the age of the lock, and stops growing one tick past
`StaleTimeout` because the only question ever asked is whether it is over that.

`loop[r]` is the point replica `r` has reached in `run_loop`; `down` is a replica
that does not run. `stale[r]` is what `_release_stale` has marked and not yet
committed. `tasks[r][k]` is the coroutine of replica `r` for item `k`:

    created -> calling -> loading -> saving -> none

with its snapshot of the row from the SELECT of `_reconcile` (`phase`,
`results`), the outcome of the agent call, and the row `session.get` returned
(`loaded`). `requests[q]` is an HTTP request between its read and its commit.
`approved[k]` is a history variable: the phases of item `k` a reviewer has
approved since the row was inserted; no action reads it.

One action is one transaction or one awaited answer; anything may happen between
two of them. Each read-then-write of the code is two actions: `ReleaseLoad` and
`ReleaseCommit`, `Load` and `SaveAdvanced`/`SaveFailed`, `ReviewLoad` and
`Approve`/`Deny`, and so on. The claim is one, because it is one UPDATE.
`Flush(now, loaded, changed)` is the UPDATE of a commit: a column that was
changed is written, any other stays *as it is now*. It is what makes overlapping
writes mix columns of two decisions, as they do in the program.

Error paths are actions: a claim that misses, an agent that fails, a row that is
gone at load (early return) or at commit (`StaleDataError`), a database error in
a coroutine (`TaskDbError`: swallowed by `gather`) and in a step of the loop
(`CycleFails`: logged, on to the next cycle), the end of a process with all that
runs in it (`Crash`), and its restart (`Boot`).

`Passage` adds `granted[k]` and `answered[k]`: the phases of `k` a reviewer has ever approved
and an agent has ever given a result for. They outlive the row, because a late
commit does: what it writes was read from a row that may since have completed, been removed
and been posted again.

### The agent call

The loop sees an invocation as `Invocation` says: it ends, as a text or an
exception, within `MaxHold` ticks (`AgentReturns` and `Tick` of `Orchestrator`).
`A2AClient` is the detail. An attempt is a number of HTTP operations (connect,
send, reads of the answer), each of which may complete, break, or time out; an
error status may come from a proxy or from the agent; the first event of the
answer ends the attempt. The timeout is one of each operation, and nothing bounds their number:
`Spec` lets an agent trickle its answer for ever, as the code does. `PromptSpec`
is `Spec` with agents that answer in at most `MaxReads` reads, an assumption on
agents; what is said of time is said of these. `Raise` is the `except` branch of
`_async_retry_on_transient`: sleep and try again, or give up. `delivered` keeps
which attempts reached the agent, `elapsed` the time of the whole call. The SDK and the
network are external; `Answers` and `Errors` have one member for each case the
code, or a reader of it, tells apart.

### The workflow

`Workflow` has one variable, the status of each item: absent, offered, working,
in review, failed or denied, and the phase it is in. Its moves are those a user of
the API is told about. `Promises` maps a row to a status: `ready` is offered, not ready
with mode manual is review, not ready otherwise is working; the phase `failed` is denied
or failed by the kind of its reason. Locks, claims, coroutines and requests are
invisible: `_release_stale`, for instance, is a `GiveBack`, and a commit that
finds the row changed would be a move the workflow does not have. `get_phase`
decides between `Begin` and `AskReview`, so a manual phase has no way past a
reviewer. In the service cleanup and release commit many rows at once, so a step of
`Workflow` moves any number of items.

### Rollout

Policies are read once, when a process starts. `Rollout` has two configurations
and two instances of `Automator` with them; `upgraded` is the set of replicas that have
read the new one. `RolloutPassage` joins it with the history of `Passage` and says what
both configurations ask of an item: the phases both put before one, of which both ask for a
review, or for a review or a result. `Upgrade` stops a process, with all its coroutines and requests, and
`Boot` starts it again; what no policy is asked for (`Rest`) is common to both.

### Discovery

`discover_agents` takes the agents one after the other, before the service serves.
The turn of one agent ends with no card (`FetchFails`, after the
retries `A2AClient` models), with a card whose skills cannot be embedded (`EncodeFails`), or with
a populated index (`Discover`), in which BM25 may have raised: `BM25Okapi` divides
by the size of its vocabulary, which is zero when no text has a token, and
then the points are stored and the old index of words stays. `PointId` gives the
point of an agent's skill; in the code it is a string `<name>::<id>` under which a later
skill replaces an earlier one. `Scroll` is the order in which the store
returns its points: any, but always the same. The embedding of a query and its BM25
scores are parameters: a `Query` gives a similarity and a raw score to every text,
and `Fused` weighs them as `_fuse_scores` does, in integers (a common denominator instead
of 0.8, 0.2 and the division by the largest score). Which of equal scores wins is
open in the code, and so it is in `Matches`. `Invoke` and `Refuse` are the first half
of `_invoke_agent`.

### Lifespan

`stage` is the line at which `lifespan` waits. The loop task, the coroutines its
`gather` waits for, and the handlers take turns. Cancellation is that of asyncio:
`cancel()` only marks the task; the mark is delivered when the task gets its turn; a
task that waits for a `gather` passes it to the coroutines, and raises only when the
last of them has ended. `Goto` therefore requires that no cancellation is pending.
`CancelledError` is not an `Exception`: neither `run_loop` nor `_run_phase` catches it.
The server (uvicorn, external) accepts requests between start-up and shutdown only,
and waits for the open ones.

### Parameters

`Keys`, `EventType`, `Policies`, `Names`, `Replicas`, `Requests`,
`StaleTimeout` as in the code. `Clients` is the set of commands clients send and
`Overlap` says whether two requests for one item are ever open at once; both
describe the environment, and the program does nothing about either. In
`A2AClient`: `MaxExtra`, `Backoff` and `Timeout` as in the code; `MaxReads`, the reads
the answer of a prompt agent takes, describes the environment too. Bounds of
the model, not of the code: `MaxHold` (ticks between claim and save; for the call,
run `invocation` derives it from timeouts, retries and `MaxReads`) and `MaxFaults` (crashes and
database errors in a behaviour; the safety theorems hold for any bound).
`NewPolicies` is the configuration of a restart. In `SkillRAG` and `Discovery`,
`top_k` and `Agents` are as in the code, the rest are the sets that cards and queries
are made of; `Unit` is a similarity of 1. `Coroutines` and `Requests` of `Lifespan`
bound how much runs at once.

Assumed of the configuration: it passes the validator, and no phase is called
`failed`, which `README.md:80` reserves and the validator does not check. Phase
names need **not** be unique, as in the code.

## 3. What is checked

The properties are stated, with the code they are about, in the module that is
checked or one it extends: `Automator`, `Invariants`, `Passage`, `RolloutPassage`, `Promises`, `Gauges`,
`A2AClient`, `Discovery`, `Lifespan`.

| Run | Instance | Properties | Shows |
|---|---|---|---|
| `serial` | 2 items of 2 policies, 1 replica, 2 requests that never overlap on one item, all commands, 2 faults (50,405 states) | all safety properties, `TypeInv`, `IInv`, `ItemsFollowWorkflow` | the loop and the routes are right, and implement the workflow, as long as the clients are orderly |
| `overlap` | 1 item, 1 replica, a review before two agents, 2 overlapping approvals, deletes or retries, the event posted again, 1 fault (some 737,000 states) | `CallsAreEarned`, `CompletionIsEarned`, `PassageInv` | however late an approval, a retry or a delete commits, an agent is called, and an item completes, only after every earlier phase was approved or gave a result (denials that overlap: `deny_race`, and the theorems of `PassageProofs` for any clients) |
| `replicas` | 1 item, posted once, 2 replicas, each restarted with a configuration that adds an agent phase before the review, calls that outlive the stale timeout, 1 approval at a time (some 391,000 states) | `RolloutSkipsNothing`, `RolloutPassageInv` | whichever replica, old or new, claims, releases, advances or reviews the item, nothing that both configurations ask of it is left out |
| `progress` | 2 items, 1 replica, 1 request at a time, 1 fault, a policy added by a restart, fair (19,001 states) | `ItemsComeToRest` | every item ends up removed, failed or in front of a reviewer |
| `lifespan` | 2 coroutines, 2 requests (356 states) | `LifespanInv`, `ProbesWhileServing`, `UsersFindTables`, `DisposeIsLast`, `ShutdownEnds` | one process starts, survives outages and stops in the right order |
| `invocation` | 4 attempts as in the code, timeout of 2 ticks, agents that answer in up to 2 reads, fair (37,813 states) | `TypeOK`, `AnswerIsFinal`, `RetriesAreUsed`, `CallEndsInTime` | a call of a prompt agent ends within `Budget` whatever is lost on the way; it is repeated after the transient errors, all attempts used, and after no other |
| `discovery` | 2 agents, 4 cards, 3 texts, one without a token; a query retrieves 2 of up to 4 skills; every ranking (7,563 states) | `IndexInv`, `MatchesAreCallable`, `SkillIsOffered`, `TimeoutIsOfAgent`, `WordsMatchStore`, `BestIsMatched` | whatever fails at start-up, no match is outdone by one of the most similar skills, and each leads to a properly configured call |
| `deny_race` | approve and deny overlap | `DenialIsFinal`, violated | a denied item goes on |
| `delete_race` | delete and retry overlap | `OnlyFinishedRowsGo`, violated | an item is removed while it is worked on |
| `retry_race` | retries overlap, fair | `ItemsComeToRest`, violated | an item is stuck for good |
| `left_out` | a restart leaves out a phase, fair | `ItemsComeToRest`, violated | an item in that phase is skipped for ever |
| `in_flight` | a coroutine fails to save, or a crash | `InFlightIsBeingWorked`, violated | the gauge of items in process counts abandoned claims |

The safety properties of `serial`:

- `ApprovalGate`: an agent is called only behind reviews approved since the event was posted;
- `PromptHasResults`: the prompt's snapshot holds every earlier agent result;
- `CompletedMeansAllRan`: `completed` is reached only through all phases;
- `NoLimbo`: an item not ready and not failed has a lock and a mode;
- `DenialIsFinal`, `DenialIsNotRetriable`: what the failed state means;
- `ManualMeansManual`: what an API client is told to review is to be reviewed;
- `WorkerHoldsItem`: a claim lasts until its coroutine has ended;
- `GaugesPartitionItems`: each item that is not completed is counted by one gauge;
- `PhaseMovesForward`, `OnlyFinishedRowsGo`: what no step may do to a row;
- `ItemsFollowWorkflow`: every step is a move of `Workflow`, or none a client sees.

Most of these fail once clients overlap. `CallsAreEarned` and `CompletionIsEarned` in `overlap`
say what is left of the order of phases then: a row may get a phase that another
life of it has earned, never one that none has. A denial may be lost, a review may be
an old one; an agent whose earlier reviews nobody ever approved is not called.

`RolloutSkipsNothing` is the same for a rollout: it asks for less, only what both configurations
put before a phase, and it holds for replicas of both at once. It needs that the
configurations have the phases they share in one order (`SameOrder`, which TLC evaluates for
`replicas`): if the review moves behind the
remediation, an old replica may bring an item to its review, and the approval of a new one
completes it, without a remediation.

`CallEndsInTime` is a refinement: under the mapping `Abstract` of `A2AClient`, `send_message`
implements `Invocation`, its bounded time and its liveness included, with `MaxHold` the sum of all
timeouts and sleeps (`Budget`), as long as agents are prompt. With the default of 120 seconds that
is many minutes; the configuration sets no upper limit to the timeout, so a call may well outlast
the hour of `StaleTimeout`, and the runs let it.

In `discovery`, `MatchesAreCallable` says that two of the exceptions of `_invoke_agent` are dead
code when discovery is what fills the index; `WordsMatchStore` that pairing scores with points by
position is sound; `BestIsMatched` that no skill of the `top_k` most similar ones (`Near`) has a
better full score than the one that is called, although the two halves of the score are of two cut
lists and points are paired by position. (One exception is in the property: a skill found by its
words only loses a negative similarity, which helps it.) In `lifespan`, `DisposeIsLast` is about
the order of cancelling, awaiting and disposing, and `ShutdownEnds` about a cancellation that
meets the loop anywhere.

**Why the bounds are enough.** Rows interact through the barrier of the loop only, so two items
show an item that waits for another's call. The two policies have every kind of phase, a review
first and a review in the middle, a phase without operation, and two agent phases, so that a retry
meets earlier results. Two requests are the least that can overlap. In `overlap` a review stands
before two agent phases, so that a late commit may pass over a phase of either kind. `StaleTimeout
= 1` and `MaxHold = 2` let a call be younger than, as old as, and older than the timeout. Two
faults allow a crash during the recovery from a crash. `progress` restarts with an added policy,
which is what `README.md:184-195` describes; the event type of the second item has no policy
before. In `replicas` time is short (`StaleTimeout = 0`, `MaxHold = 1`), so that every claim can
be taken over while its call is open; the item is posted once (constraint `PostedOnce`), because
lives of an item that overlap are the subject of `overlap`. `top_k` is 2 in `discovery`, where up
to 4 skills are stored, so that a query is cut off. Two agents are the least one can fail beside,
or share a skill id with, another; the cards list no skill, one, two, and the same id twice; a
similarity may be negative, and raw BM25 scores negative, zero or large. Two coroutines are the
least of which a cancelled gather waits for one. Every action fires in some passing run, and each
property is violated when one plausible slip is made in a definition of the model (the mutants of
`PROJECT.json`, such as a claim that does not lock, a gather that does not wait, a denial that
records its phase).

**Deadlock** is checked: time and the loop always go on.

**Fairness.** Weak fairness of the loop's steps, of each coroutine, of the
commit of an open request, of the restart of a stopped process (the deployment
does that) and of time; in `Rollout` the same, and nobody has to upgrade anything. asyncio runs
every ready task. That an agent call ends is an assumption on agents: the code bounds its retries and
the silence between two pieces of an answer, but not the number of pieces, so it holds of the
prompt agents of `PromptSpec`. None is assumed of
reviewers, of clients, or of agents giving good answers. In `A2AClient`, weak
fairness of the steps of an open call, time among them: a coroutine that can go on
does, and timeouts and sleeps end. In `Lifespan`, weak fairness of start-up and shutdown,
of the loop task, of each handler and of each coroutine that has been cancelled or does not
wait for an agent, on one event loop: no agent has to answer for a shutdown to end. None of signals,
kills, or the database coming back (a query that cannot reach it raises).

### Disagreements with the documentation

The violated runs are findings:

- **deny_race.** Two reviewers: both handlers pass the check `mode = manual` on the row they read,
  both commits succeed, and the item that was reported denied continues (`items.py:101-136`;
  `README.md:81` says it is excluded).
- **delete_race.** A retry commits between the read and the commit of a delete; the delete then
  removes an item that is being worked on (`items.py:164-175`; `README.md:149`).
- **retry_race.** Overlapping retries, with the item claimed in between, write only the columns
  that differ from what *they* read. The row can end with `ready` false, no lock and a workflow
  phase: not selected, not released, refused by both endpoints (`items.py:196-205`;
  `README.md:59`).
- **left_out.** After a restart with a configuration that has no such phase, the row stays ready,
  is selected in every cycle and skipped without a word: it neither runs nor fails nor shows among
  the failed (`orchestrator.py:59`; `README.md:59`). `tests/unit/test_orchestrator.py:260` expects
  the same of an item whose event type no policy has.
- **in_flight.** The gauge of "work items currently being processed by agents" (`metrics.py:42`;
  `README.md:170`) counts claimed rows, and is refreshed only after the gather, when this loop has
  nothing in process (`orchestrator.py:30-33, 276`). What it shows are claims that a crash or a
  failed save has left behind; where there are none it stays 0, whatever the agents work on.

Further disagreements, which the same modules show but which have no run of their own:

- A manual phase is to hold the item until it is approved (`README.md:77`). Two approvals read at
  one review, of which one commits between the SELECT and the claim of an item that is ready
  again, leave a row in an agent phase with mode manual; approvals read *there*, committed after
  the event was removed and posted again, take the new row past its review (`items.py:101-136`,
  `orchestrator.py:88-99`, `events.py:86`). `ApprovalGate` fails in that way when requests
  overlap; what holds is `CallsAreEarned`: the review was approved for this event, if perhaps
  before it was posted again.
- With four overlapping approvals and denials `NoLimbo` fails on one replica too: `_save_failed`
  of an item that a late approval has moved writes only the columns that differ from what it read
  (`orchestrator.py:240-250`), and the row is neither ready nor locked.
- `next_phase` takes the first phase of a name, and nothing makes names unique (`models.py:67-72`;
  `README.md:63`): with `MCRepeatedPolicies` the workflow goes round and `ItemsComeToRest` fails.
- Only the task state `failed` is an error: the text of a rejected, cancelled or unfinished task
  becomes the result of the phase (`a2a_client.py:181-192`); it is to come "from a completed A2A
  Task" (`:134`).
- `invocation_timeout_seconds` is a "wall-clock cap" for a `send_message` (`models.py:98`), but
  the code applies it to each HTTP operation of each attempt (`a2a_client.py:169, 222-225`). What
  caps a call of a prompt agent is `Budget`; under `Spec`, where an agent may send its answer in
  any number of pieces, nothing does.
- The highest score is promised of all skills (`agent_rag.py:303`), but skills beyond the `top_k`
  most similar have no similarity (`:344`), and one of them may be best in the full score. What
  holds is `BestIsMatched`, which compares with the `top_k` most similar ones.
- Two agents may be configured with one name: the later card replaces the earlier, but the headers
  and timeout of the first are used. With `Agents <- MCNamesakes`, `TimeoutIsOfAgent` fails
  (`agent_rag.py:418`, `orchestrator.py:152-161`).
- `discover_agents` "returns None if ... all discoveries fail" (`agent_rag.py:401`); it returns an
  empty index (`:431`), which fails the phases with another text.
- A policy with a phase called `failed` passes the validator (`models.py:59`; `README.md:80`
  reserves the name).

With two replicas most properties of `serial` fail as well: the claim asks again
for `ready` but not for the phase, a call that outlives the stale timeout is
given away, and what its coroutine saves can leave a row that is neither ready nor
locked. The repository does not promise that several replicas may share a
table, so these are not reported as findings. What holds of several replicas is `RolloutSkipsNothing`,
and, for one configuration, `CallsAreEarned` and `CompletionIsEarned`.

## 4. What is proved

TLAPS checks every proof from the assumptions named in the modules (`NamesAssumption`,
`PoliciesAssumption`, `ItemsAssumption`, `NoRowAssumption`, `MaxHoldAssumption`,
`MaxFaultsAssumption`, `ClientsAssumption`, `A2AAssumption`, `NewPoliciesAssumption`,
`SkillRAGAssumption`, `DiscoveryAssumption`): types of the constants, valid policies, and that
`NoRow`, `NoCard` and `NoCall` are none of the values they stand in for.

`TypeProofs` begins with the facts about lookups, for any valid list of phases, with
repeated names too. `NextPhaseExists`: every phase but `completed` has a next one,
so the "no next phase" branches of `_run_phase` and `review_item` are dead for an
item in its workflow. `BeforeNextPhase`: the phases before the next phase are
among those before the present one and the present one. If the names differ, more is true:
a lookup finds the phase it was meant to, the next phase is the next of the list
(`DistinctPhasesRunInOrder`), and who goes from the first phase to the next one again and again
visits all of them in that order (`WalkVisitsEveryPhase`, by the least index that is missed: no
induction is needed).

Then it proves `TypeCorrect`, `Spec => []TypeInv`, for **any** number of
replicas and **any** clients. `TypeOK` alone is not inductive: an approval writes
the name of the next phase of the row it *read*, so `TypeInv` adds what the
handlers have checked before (`RequestChecked`) and what a coroutine has loaded
(`TasksTyped`). The bulk of the proof does not depend on the policies: `AnyStep` is the step relation
with every lookup replaced by any value of its type. `TypedStep` is proved of it once, and
`NextIsAny` shows that each action of the service is such a step; `RolloutProofs` shows the same of
a service with two configurations.

`SafetyProofs` proves, `ASSUME SingleWriter` (at most one replica, no two open
requests for one item), for any number of items and requests, any valid policies
and any number of faults:

| Theorem | Property |
|---|---|
| `Inductive` | `IInv` |
| `NothingRunsUnapproved` | `ApprovalGate` |
| `PromptsAreComplete` | `PromptHasResults` |
| `ClaimsAreExclusive` | `WorkerHoldsItem` |
| `CompletedItemsRan` | `CompletedMeansAllRan` |
| `NoItemInLimbo` | `NoLimbo` |
| `OnlyErrorsAreRetriable` | `DenialIsNotRetriable` |
| `DenialsAreFinal` | `DenialIsFinal` |
| `ManualItemsWait` | `ManualMeansManual` |

The argument. None of the properties is inductive: each write relies on what its
writer read earlier. `IInv` therefore has four parts: each row is well formed for
its phase (`RowInv`: in particular, the results and approvals of all phases before
it are there), each coroutine knows the row it works on (`TaskInv`), each open
request does (`RequestInv`), and what a release has marked is still a claim
(`StaleInv`). Lemma `Exclusion` shows that a row has at most one of these holders:
a coroutine's row is ready or has mode automatic, a request's row has mode manual
or is failed, a release runs only when no coroutine does. So a step changes a row
nobody else holds (`KeyStep`, `LoopFrame`), a copy loaded earlier is fresh when it
is written (`Unchanged`), and then `Flush` writes exactly the row that was computed
(`FlushOfFreshCopy`). Only the age of a lock may change under a holder, and no
writer depends on it.

`SingleWriter` is needed: `deny_race`, `delete_race` and `retry_race` are what happens
without it.

`WorkflowProofs` proves under the same assumption that `Automator` implements `Workflow`
(`ImplementsWorkflow`): `StepFollows` has one case per action and shows with `IInv` that
the row of each item makes one of the workflow's moves or keeps its status. The writes of
coroutines and handlers need `IInv` because the move they make is computed from an
earlier copy. Two action properties follow from the refinement rather than from the
actions: a move tells what happens to the phase of a row (`MovesOfRow`), so
`PhaseMovesForward` (`PhasesAdvance`) and `OnlyFinishedRowsGo` (`OnlyFinishedItemsGo`)
are facts about `Workflow` seen through the mapping. If the names of a policy's phases
differ, a step goes from one phase to the next of the list or to failed (`PhasesComeInOrder`).

From `IInv`, under the same assumption, it follows that the gauges add up
(`CountsAddUp`).

`PassageProofs` needs no such assumption. For any number of replicas, any clients, any overlap and
any faults it proves that every agent call is earned (`EveryCallIsEarned`) and every completion is
(`EveryCompletionIsEarned`). No writer can be trusted there to know the row it writes to, and
`Flush` mixes columns of several decisions; so the invariant `PassageInv` (`PassageIsSound`)
speaks of one column at a time: each phase in a row, in a copy, or in a coroutine's snapshot is
earned by itself. That makes it immune to interleaving, because what is earned stays earned
(`PastStays`), however late it is written (`SoundFlush`). The two places where a column moves
forward, `SaveAdvanced` and `Approve`, go from the phase their own copy names to the one after it
(`NextIsEarned`), and a copy of a failed item has no phase after it (`NothingAfterFailed`): no
approval revives it.

`RolloutProofs` needs none either. While any number of replicas change, in any order, from any
valid configuration to any other, `RolloutTypeCorrect` proves the types. Its invariant
`RolloutInv` needs one fact beside them: an approval has a next phase under the policies of the
process that read the row. That process also commits it, because a restart drops its requests. The
lemmas `SameWords` to `SameSteps` equate what the two instances of `Automator` share, and
`RolloutIsAny` makes every step of either an `AnyStep`. If the configurations have the phases they
share in one order (`SameOrder`), nothing that both ask for is left out
(`RolloutLeavesNothingOut`). The invariant is `RolloutPassageInv` (`RolloutIsSound`): as in
`PassageProofs` it speaks of one phase at a time, wherever a writer of either configuration has it
in hand. A phase moves forward by the policy of one process, and only what both demand may be
missing before the next one: by `SameOrder` that is nothing but the phase just left
(`BeforeNextInBoth`), and the process that leaves it has been given what its own policy demands
(`NextIsEarned`).

`A2AProofs` proves, for any number of retries and any timeouts, that an answer is
never followed by another attempt (`NoRetryAfterAnswer`), that a call fails with a
transient error only after its last attempt and is repeated after no other error
(`TransientErrorsAreRetried`), that no attempt
follows the last (`AttemptsAreCounted`), and, for prompt agents (`PromptSpec`), the safety half of
`CallEndsInTime`: every step of `A2AClient` is a step of `Invocation` or invisible to it, so `elapsed`
never passes `Budget` (`CallsImplementInvocation`). Its invariant `TimeInv` accounts for
the time of finished attempts, finished operations, finished sleeps and the present one.
The provers know nothing of powers of two; the theorem therefore assumes `PowersOfTwo`,
the three facts of arithmetic it uses.

`DiscoveryProofs` proves, for any agents, cards, queries and any order of failures, that the store
stays finite and each point has one text (`DiscoveryTypeCorrect`), that
every indexed skill belongs to an agent with a configuration and a card
(`MatchesLeadToCalls`), and, if agents have different names, that each call uses
the card, headers and timeout of one agent (`CallsAreConfigured`). If no two agents have a
point in common either (`OwnPoints`), `IndexInv` is an invariant (`DiscoveryIsSound`): what one
agent's turn stored no later turn touches, its card, its points, and a text with a token, without which
`BM25Okapi` would raise and leave the old index beside the new points. Then a call asks for
a skill its card lists (`CallsAskForListedSkills`) and the index of words is that of the texts
stored (`ScoresMeetTheirPoints`). Both hypotheses are
needed: two agents of one name, or of one point, can undo just that.

Under the same hypotheses, for any number of skills, a call goes to one that none of the `top_k`
most similar ones outdoes (`CallsGoToTheBest`). The order of `scroll`, an injection of the points into
`1..n`, is onto, so pairing scores by position misses none; a skill
that at most `top_k` are as similar as is retrieved, for otherwise the retrieved ones were `top_k`
others as similar (`NearIsRetrieved`); a finite set
of scores has a maximum (`FiniteHasMax`, along the order of its subsets); and dividing by
the largest raw score does not change who is best.

`LifespanProofs` proves, for any number of coroutines and requests, `LifespanInv` (`LifespanIsInOrder`):
which states of the loop task go with each stage, that the loop ends only by a cancellation, that
a coroutine runs only under a loop that waits for it, and that a cancellation is pending only for one
that runs. `ProbesAreTrue`, `TablesComeFirst` and `DisposeComesLast` follow from it.

**Only model-checked.** `ItemsComeToRest`, `ShutdownEnds` and the liveness half of
`CallEndsInTime` stay with TLC: liveness under fairness, `ENABLED` and induction over
data are out of the proof system's reach. Every safety property of a passing run is a theorem.

## 5. What is not modelled

- What embeddings and BM25 compute: numeric work of external libraries; every ranking
  is possible in the model.
- Reading the YAML file, headers and credentials, the text of an answer: data
  nothing is decided on.
- Collisions of the hashed keys: a key is an atom (`events.py:69` keeps 32 bits of the hash).
- The GET endpoints; counters and histograms (written, never read); the schema script and the
  local test agents.
- Phase names that repeat within a policy, in the runs: the theorems allow them unless they say
  otherwise, but in `progress` and `serial` every name is used once (see the disagreements above for
  `MCRepeatedPolicies`). Agents of one name (`MCNamesakes`), in `discovery`: `TimeoutIsOfAgent` does
  not hold of them.
- The reserved name `failed` in a policy: `PoliciesAssumption` excludes it, and without it
  `DenialIsNotRetriable` and `CompletedMeansAllRan` fail.
- A commit that succeeded although its client was told it failed: for a coroutine and a
  handler it is the same step as a commit, since both end either way.
- The single shared connection of an in-memory SQLite database, where
  transactions of different coroutines are not isolated; the model has the
  transactions of the documented PostgreSQL deployment.
- A coroutine whose result text equals the one already stored: its column would
  not be written; the model writes it, which is the same text.

## 6. Plan

Done: the twelve runs above, over the table, the loop, the routes, the workflow they
implement, changed configurations, agent calls, discovery and the life of a process; eight
proof modules.

Left: the in-memory database with its one connection, as another `WorkItems`.

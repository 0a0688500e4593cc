# A TLA+ verification of agent-custody

agent-custody keeps a chain of custody for what AI agents do and believe: a
gateway commits evidence of every tool call to an append-only log, a hosted log
and a witness keep that log honest, and a ledger of facts records what agents
came to believe, with retraction, forgetting and legal holds. This directory
models the parts of it that are hard to test - concurrent calls, several
processes on one database or one file, lost answers, crashes, late requests,
bundles put together from others - checks them with TLC on small instances, and
proves the most important results with TLAPS for instances of any size.

Paths below are relative to `src/packages/` unless they begin with `site/` or
`deploy/`, which are relative to `src/`. The definitions of every module are
matched to the lines they model in `PROJECT.json` ("map").

## 1. Inventory

| component | state it keeps | operations | what is hard, and what makes it correct | modelled in |
| --- | --- | --- | --- | --- |
| Gateway call path: `receipts/src/gateway.ts`, `issue.ts` | per session: consumed fact ids, the grant; per call: local variables across six awaits | `handleCall`: scope check, fact lookups, policy, authorization, upstream call, receipt | Calls interleave at awaits; the upstream may act and its answer be lost; the process dies anywhere. Evidence must come before effect, and no receipt may contradict what happened. | Gateway, Custody |
| HTTP sessions: `gateway-http.ts` | open sessions, idle times | open, close, reap | Sessions close under calls in flight. | Gateway |
| Log client: `log-sink.ts` `httpLog` | none (attempts) | append with three attempts | A timed-out append may land, late or twice. | Gateway |
| Hosted log: `log-store.ts` `PostgresLog` | table of leaves, per instance a copy in memory, a chain of appends | append, size, root, head | Reads do not run in the chain; several instances; lost COMMIT answers; crashes. Signed heads must be of one history. | HostedLog, AppendOnlyLog |
| Tenancy: `log-store.ts` `PostgresTenancy`, `RateLimiter`, `log-admin.ts`; `log-sink.ts` `logHandler` | tenants, tokens; per process three caches and the buckets | resolve, authorize, quota, take; add, disable, replan, mint, revoke | A cache filled by a query that was asked before the change. How long may a revoked token, a disabled tenant or a spent allowance still be served? | Tenancy |
| Tenant portal: `portal.ts` | accounts, members, keys, policies, identities, billing | registration, sign-in, keys, checkout, webhooks, the founder's note | Each request is several statements, any may fail; Stripe delivers twice, late and out of order. | Portal |
| Checkpoint publisher: `log-sink.ts` `publishOnce`, `checkpoints.ts` | a table, `latest.json` | publish | Two stores, one may miss a write; overlapping publications write in any order. | Witness |
| Witness and probe: `witness.ts`, `log-check.ts` | `state.json`, countersignatures, alarms | a pass: fetch, prove, countersign or refuse; a probe | Passes overlap while a proof is awaited. Two countersigned heads must never be of two histories. | Witness |
| File log and retention: `log.ts`, `retention.ts`, `log-export.ts`, `signer.ts` | a file, each process's copy in memory, bundles | append, prune, import, export, rotate | Two processes on one file; prune against append; a prune, an import or an export that stops midway. | FileLog |
| Merkle tree: `log.ts`, `site/verifier/verify-web.ts` | none (subtree cache) | roots, inclusion and consistency proofs | Off-by-one at the edges of RFC 9162; two implementations. | Merkle |
| Delegation and verifiers: `delegation.ts`, `verify.ts`, `receipt.ts`, `site/verifier/verify-web.ts` | none | verify a chain, a bundle, a copy of the log | Narrowing along a chain nobody here issued; parts of different bundles that verify each by itself. | Delegation, Bundles |
| SDK, sidecar and adapters: `receipts/src/sdk/*.ts`, `sidecar.ts`, `python/agent_custody/*.py` | runs in flight | decide, record | A call that ran and whose recording is refused; a denial whose receipt is refused; hosts that go on. | Adapters |
| Fact ledger: `state/src/ledger.ts`, `storage.ts` | a log of events | assert, retract, confirm, forget, hold, release, sweep; asOf, get, facts, history | Bitemporal queries computed in five places must agree; checks and appends are separate awaits. | Ledger, EventStores, LedgerEvents, MemoryServer |
| Memory server: `state/src/server.ts`, `stores.ts` | current actor and receipt; the stores' rows and search indexes | the memory.* tools; six store adapters | Stores fail one by one; searches lag behind deletes; concurrent calls on one server. | MemoryServer, Stores |
| Blast radius, packs, open beliefs, reviews, evaluations: `state/src/blast.ts`, `pack.ts`, `explain.ts`, `review.ts`, `evals*.ts` | none | reports over receipts and facts | Files in any order, some missing; an authorization has its receipt's id. | Reports |
| Policy (Cedar), upstreams, signing | - | - | External, or their effect in the modules above. | Gateway, Bundles, Adapters |
| OTel and Splunk exporters, command lines, pages, deployment | - | - | Output after the evidence is written. | not modelled |

How they interact: the gateway and the SDK append authorizations and receipts
through a log client to a file log or to the hosted log, which the tenancy
stands in front of; the hosted log's heads are published as checkpoints, which
the witness fetches and countersigns; memory tools are upstream tools behind the
gateway, which passes them the receipt id and the agent the grant names; the
memory server writes facts to its ledger and through to retrieval stores; the
facts a memory read returns are what the gateway counts as consumed by the
session; the reports read the ledger and a directory of receipts; a verifier
reads a bundle, a log's head and public keys, and nothing else.

`PROJECT.json` "hazards" lists what in this code a test would hardly reach, at
its line, with the properties that would catch it.

## 2. The modules

**Custody** - the abstract promise of the gateway about a call, apart from
sessions, retries, policies and the log: a call goes out at most once, a
consequential one only after its evidence is committed, never after its outcome
has been told, and it has one outcome.

**Gateway** - `handleCall` from await to await, with its sessions, `httpLog`
and the environment. `pc` says where a call stands: *deciding* (fact lookups and
policy), *authorizing* (the authorization's append), *waiting* (the upstream),
*issuing* (the receipt's append), and how it ended (*answered*, *rejected*,
*lost* in a crash). `Unacknowledged` is one attempt of an append that is not
acknowledged: the leaf is in the log, or not, or still on its way (`late`,
`LateLands`). `UpstreamActs` lets an upstream act at any time after a request
was sent, also when the gateway has recorded an error for it. `Crash` loses all
calls in flight and all sessions. The grant's window is checked when a session
opens (`OpenSession`, `GrantLapses`). `mode` covers enforce and observe.
*Custody* is refined by it (`PromiseKept`).

**AppendOnlyLog** - what a transparency log promises those who hold its
answers: entries are only added at the end; an acknowledgement or a signed head
is of what is in the log.

**HostedLog** - one tenant's `PostgresLog` served by several instances. An
action is a query evaluated by the database or its answer handled by an
instance: `Lock`, `Insert`, `Commit`, `Push` for appends (one at a time per
instance through `chain`), `ReadCount`, `ReadSelect`, `ReadReload` for the syncs
of reads, which do not go through `chain`. `Fail` is a refused query or a lost
answer, before or after the COMMIT took effect. *AppendOnlyLog* is refined by it
when reads and appends are served by different instances (`LogKept`).

**Tenancy** - the tenants and tokens tables, and per process the three caches
over them and the rate limiter's buckets. A request goes through `logHandler`'s
order (tenant, rate, token, quota, append); at each lookup it either goes by a
fresh cache entry or asks (`Asks`), and the entry is filled when the answer
arrives, up to `MaxQuery` later. Administrative operations happen on any
process, each with its effect on that process's own caches. `since` remembers
when a tenant, a token or an allowance changed: the properties are bounds on how
long after it the old answer is given.

**Portal** - every endpoint of `portal.ts` that changes state, cut at its
queries: `onboard` (profile, tenant, membership, key), `findOrCreateOAuthUser`
and the link of an identity, keys, policies, checkout, the webhook's branches
with Stripe delivering any of its events again and in any order, and the
founder's note. `Fail` stops a request at any query; what it did stays.

**Merkle** - RFC 9162 as `log.ts` computes it and as the page does: roots, both
kinds of proofs, both verifiers, written as recursive functions; the verifiers'
loops that halve two numbers are functions of the two. A hash is the term it was
made of.

**FileLog** - EXTENDS Merkle. One log file, the processes that opened it, each
with its own memory; appends, a torn last line, `pruneLog` in its steps
(bundles first, then the rename), `importLogFile`, a paged export with its
checkpoints, a signer that refuses and one whose key is rotated. `apart` says
that no two processes, and no prune and append, have met on the file: nothing
in the code keeps them apart, and the documents promise nothing if they meet.

**Delegation** - grants and the verification of a chain, in the package and in
the browser.

**Bundles** - EXTENDS Delegation. The gateway issues bundles under chains made
by `delegateFrom` or by hand; then one is shown to a verifier as it is, edited,
or with another bundle's authorization, head, proof, upstream signature or log.
`Failures` and `WebFailures` are the verifiers' checks by name.

**Adapters** - fifteen adapters as records of six differences taken from their
code, and the steps they share: ask, run, record, tell. The sidecar may be away,
a receipt may be refused, late, or refused to its sender and still land; a host
may go on after a hook failed.

**LedgerEvents** - the questions the fact ledger asks of its log of events:
asserted, retracted, forgotten, held, superseded, believed. Used by the three
modules below.

**MemoryServer** - every memory operation that changes state, step by step
between awaits, for concurrent calls: checks on the ledger, writes to each
store, the append; removal from each store and the verification of each
store's search. `kept` is `stillHeld`, `certified` the outcomes reported as
"verified", `IndexCatchesUp` a store's search index following its rows. `Fails`
fails any step, with its query evaluated or not. `Shared` chooses between one
server for all calls (stdio, where `current` is shared) and one per call (HTTP).

**Stores** - EXTENDS MemoryServer with the six vendors' adapters, as three
choices each: whose id is recorded, which rows a search can answer with, and
what counts as a hit. `VendorsFit` holds them against what MemoryServer assumes
of a store, in every index its calls reach.

**Ledger** - the bitemporal queries themselves: `asOf` over the reference
selection, `get` and `facts` per fact, and writers that stamp `txTime` before
they append.

**EventStores** - EXTENDS Ledger. The two ways an event log is kept: the lines of
a JSONL file and the rows of a SQL table, whose columns are written once. A
forget rewrites its fact's assert in place, without the value. What the selects
of either return is what `asOf` and the retention sweep go by.

**Reports** - EXTENDS Ledger. The blast radius with its passes, the custody
pack and the action pack with their verdicts, open beliefs, the review's index,
and the evaluation harness. They are functions of a log of events and an
archive of receipt files, asked of every log the writers of Ledger leave.

**Witness** - the publisher with its two stores, the witness, an operator who
may show a second history, and the outside probe. A pass fetches `latest.json`,
compares the head with `state.json`, awaits a consistency proof and then
countersigns or refuses. A head is a history and a size; a proof verifies
exactly when one head is a prefix of the other.

**MC\*** - declare the model values of the runs, and the symmetries.

**Gateway_proofs**, **MemoryServer_proofs**, **Tenancy_proofs**,
**Portal_proofs**, **Bundles_proofs**, **Adapters_proofs** - the theorems of
section 5, each beside its module (MemoryServer_proofs extends Stores, so that
it reaches the adapters too). **Ledger_proofs** has those of Ledger, EventStores
and Reports, **Logs_proofs** those of the three modules about a log: HostedLog,
FileLog with Merkle, and Witness. Logs_proofs EXTENDS all three, which is why
definitions of the latter two carry their module's name (`FileNext`,
`WitnessSpec`).

## 3. The runs

Each row is a configuration of `PROJECT.json` "runs". Every property of a
passing run is also shown to fail on a mutant of the model (the operators whose
comment begins "Mutant:"), a plausible bug at that place. A property that is a
conjunction of named parts is listed with its parts.

| run | question | properties |
| --- | --- | --- |
| gateway_calls | Two concurrent calls, two sessions, crashes, lost and late answers. | `Consistent` (types; `ShownIsReceipted`: the agent sees facts only under a logged receipt). `HandedOutVerifies`: a bundle handed out passes the verifier and stands at its index. `ConsumedComplete`: a receipt's consumed list covers all that was shown before the call. |
| gateway_retries | One call with every retry, loss, delay and duplicate of three attempts, in both modes, over three kinds of tool. | `EvidenceBeforeEffect`: nothing consequential is sent before its authorization is logged. `ReceiptsTruthful`: no receipt, logged or late, contradicts what the upstream did. `CallsEnd` (liveness). `PromiseKept` (refinement of Custody). |
| hosted_log | Two appending instances and a third that signs heads, refused queries, lost COMMITs, a crash. | `OneLog` (`NextSeqInserted`, `HeadsAgree`, `AcksStand`): heads and acknowledgements are of one sequence of leaves. `QueueDrains` (liveness). `LogKept` (refinement of AppendOnlyLog). |
| hosted_log_readers | The same instance appends and signs heads. | `HeadsAgree` is violated (section 4). |
| memory | Two concurrent calls of every operation over one known fact and two stores, one call direct and one through the gateway, any step failing. | `Consistent` (`WrittenThrough`, `ForgottenIsErased`, `Attributed`). `AnswersTruthful`, `VerifiedIsGone`, `OneReplacement`, `HoldBars`: what was answered, certified, replaced or held stays true. `VendorsFit`: each of six adapters does what the server takes a store to do. |
| ledger | Three facts about two subjects, two writers, two instants; then every archive of receipts. | `QueriesAgree` (the file, the tables and all queries of either), `RetractUndoes`, `PastStands`; `ReportsAccount`: blast radius, packs, reviews, open beliefs and evaluations against definitions of their own. |
| witness | One publisher over two stores, one pass and one probe at a time, an operator who may fork. | `Consistent` (`SignedConsistent`: no two countersigned heads of two histories; `HealthyIsOneHistory`). `NoFalseAlarm`. `Witnessed` (liveness): every head is published and countersigned, or alarmed about. |
| tenancy | Two processes with caches serve appends while a tenant is added, disabled or replanned and a token revoked. | `CachesFresh`, `QuotaBites`: how long a disabled tenant, a revoked token or a spent allowance may still be served. `LimiterPays`: the limiter is never outspent. |
| portal | Requests of two people interleaved at every query, with Stripe's events, refusals and the follow-up job. | `AccountsAgree` (`KeysToMembers`, `PublishedByMembers`, `MarkedWasMailed`), `TeamWasPaid`, `SignedInAs`. |
| file_log | Two processes, a prune, an import and an export on one file, stopping anywhere. | `FileConsistent`, `ImportIsACopy`, `ProofsHold` (each proof given proves what it says, to both verifiers, and nothing else), `RootsKept` (copies and exports have the roots that were signed). |
| bundles | Chains made by the package or by hand, calls under them, bundles shown as written, edited or mixed. | `GrantsNarrow` (and the two verifiers agree), `IssuedVerifies`, `AcceptedWasGranted`, `AcceptedIsOneCall`. |
| adapters | Two calls through each adapter, with and without a policy, in both modes, receipts refused, late or lost. | `OneStory`, `DenialsHold`, `HandedBackIsReceipted`. |

### Bounds, and why they are enough

- *Gateway*: two calls are what an interleaving needs (one snapshots `consumed`
  while the other adds to it); more add permutations of the same. One consequential
  tool is enough there because the retries run varies the tool. Three attempts
  are the code's; two calls with one attempt already have every order of late
  and lost leaves between calls. One fact: facts are only collected.
- *HostedLog*: two appends on two instances is the least that makes a memory
  stale; a third instance asks for a head; one crash.
- *MemoryServer, Stores*: two calls race; a third fact would only add independent
  facts. Two stores let one take what the next refuses; two attempts let a
  search catch up between them. `TopK` is 1, so that one other row with the same
  words already crowds a fact out of a nearest-first search; words are all
  different or all the same.
- *Ledger, EventStores, Reports*: three facts make a chain of replacements (A, B for A, C for B)
  with two subjects, and four events let one of them be taken back; two
  instants tell before from after. The queries are asked when no event is in
  flight (`Quiet`): every log a writer can leave is reached that way too, since
  a writer may give up (`Drop`). An archive has at most one file missing, one
  direct call or one sweep; the evaluations are asked of logs that are
  scenarios (`Scenario`).
- *Witness*: the histories part after one leaf and grow to three: heads before,
  at and after the fork. One pass at a time: two that overlap break
  `SignedConsistent` (section 4).
- *Tenancy*: a unit of time is ten seconds in the model's scale, every cache
  lives one unit and a query takes up to one, so that a query that straddles
  the whole life of an entry happens; three units let a stale entry be filled,
  expire and be asked again. One tenant and one token: rows do not interact.
  Both processes administer and only one serves, which is what a cache on
  another process than the change needs.
- *Portal*: three requests, two at once: a registration raced by a sign-in, and
  one more to see what is left. Two people whose providers gave them the same
  subject number; two subscriptions tell the tenant's own from another.
- *FileLog*: four leaves have the trees that are full, ragged, and ragged on both
  levels; a page of two makes an export fetch twice. The state constraint
  `UpToTheFirstMeeting` stops after the first meeting of two processes, or of
  prune and an append, on the file: from there on nothing is promised. By
  `SmallJobs`, prune and an import, which treat each line alone, run on at most
  three leaves. Rotation is a step only during an export, since nothing else
  reads keys again.
- *Bundles*: three grants are a root and two links, and the depth limit of two is
  crossed; two calls let any part be another's. One tool is vouched for by
  Stripe and the other by its upstream; GitHub's rule is the half of Stripe's
  without the timestamp, and is in the module without a tool of its own.
- *Adapters*: two calls, since what can be confused is one call's run with
  another's. Each initial state picks one adapter.
- Named bounds in the modules: `Crashes` (HostedLog), `MaxTime`, `MaxFacts`,
  `MaxEvents` (Ledger), `MaxSize` (Witness), `MaxTime`, `MaxLeaves`, `MaxQuery`
  (Tenancy), `MaxRequests` (Portal), `MaxLeaves` (FileLog), `MaxGrants`,
  `MaxCalls` (Bundles). The other modules are bounded by their sets of calls.

Runs with `CHECK_DEADLOCK FALSE` have finitely many requests: when all are
answered, nothing is left to do.

### Fairness

- *Gateway*: weak fairness of each call's own steps. Every await of
  `handleCall` ends: an append by its ten-second timeout (`log-sink.ts`), a REST
  upstream by its thirty seconds (`rest.ts`), an MCP upstream by the client's
  request timeout. Nothing makes a session open, an upstream act, a late leaf
  land or a crash happen.
- *HostedLog*: weak fairness of an instance's append steps: the database
  answers or the connection breaks, and the advisory lock is granted in turn.
- *Witness*: `setInterval` starts the publisher's and the witness's passes (weak
  fairness), and the steps that may fail - the row, the file, deciding,
  proving - do not fail for ever (strong fairness). Nothing makes the log grow,
  the operator fork or the probe run.
- The other modules are checked for safety only. Tenancy's bounds are safety
  properties: they say how late an old answer can be given, in units of time.

## 4. Where code and documents part

One disagreement is a run that TLC refutes, and the finding of `PROJECT.json`:

- *A head of a tree that never existed* (`receipts/src/log-store.ts:172`): a
  read that reloads the memory between an append's COMMIT and its push makes the
  push add the leaf twice, and the head over it is signed, although lines 2-5
  say that a second instance is safe and that the memory resyncs. Run
  hosted_log_readers.

The rest was met while modelling. Where a property below would be violated as a
document states it, the property is stated as what does hold, and its comment
names the exception.

Gateway and hosted log
- An action without a receipt (`gateway.ts:268`): the upstream has acted and the
  receipt's append is refused; `receipts/docs/threat-model.md:47` says there is
  no such state. The authorization is in the log (`EvidenceBeforeEffect`).
- In observe mode a tool outside the grant is forwarded like any denied call
  (`gateway.ts:205-223`), and its receipt fails the verifier;
  `receipts/docs/usage.md:118` says every call "the grant allows" is forwarded
  and its receipt accepted. `IssuedVerifies` excludes exactly those.
- A session outlives its grant's window (`gateway.ts:178`); its receipts fail the
  verifier.
- `this.ready` keeps a rejected promise (`log-store.ts:135`): a tenant's log whose
  first query fails is refused until a restart.

Memory
- A held fact erased (`state/src/ledger.ts:340`): whether a hold stands and the
  erasure are separate awaits, and a hold may fall between; `ledger.ts:98` says
  that while it stands the fact cannot be forgotten. `HoldBars` says what holds.
- An erased fact believed (`ledger.ts:347`): the erasure and the forget event are
  two writes; after the first alone, the fact is believed with no value and
  cannot be forgotten again.
- Another call's receipt (`state/src/server.ts:187`): on one shared server, a
  forget records the actor and receipt of a call that began after it
  (`Attributed` excludes it).
- A store that failed to remove a value is never asked again (`server.ts:156`); a
  sweep that throws midway does not name those it has already forgotten (281).
- A row that a refused write left in one store, with the words of another fact,
  keeps the value retrievable after that fact's removal is "verified", in every
  vendor but the one that compares words (`state/README.md:91`, `249`).
- `stores.ts`: with inference on, mem0 may make several memories of a fact and
  the first id is recorded; `ready ??=` keeps a rejected promise (138); cognee is
  sent a JSON array where `metadataOf` reads an object.
- A JSONL ledger opened by two processes: each keeps its own cache
  (`storage.ts:79`), and an erasure rewrites the file from it.
- The reference store follows replacements transitively and the SQL stores one
  step (`storage.ts:67`, `146`), which `QueriesAgree` shows to make no difference
  to what is believed. Retracting the middle of a chain brings back what it
  replaced while its own replacement stands: both are believed at once.

Reports
- A fact forgotten by a sweep, or whose forget left a store holding it, has no
  custody pack that verifies (`pack.ts:151`).
- A belief whose replacement begins in the future is called superseded and left
  out of what is open (`explain.ts:66`, `196`); facts that are valid only later
  are not in `stillBelieved`.
- `loadReceipts` also reads `*.authorization.json`, which has its receipt's id: a
  blast radius may show status "?" (`blast.ts:28`), and a pack of a call that has
  only an authorization fails.

Witness and probe
- Two histories countersigned (`witness.ts:146`): two overlapping passes both
  prove against the same earlier head.
- Two overlapping publications can take `latest.json` back to a smaller head, and
  the witness then raises an alarm (`checkpoints.ts:43`).
- The probe measures a stopped publisher's lag against `head.timestamp`, which
  `log-sink.ts:459` sets when the head is asked for (`log-check.ts:107`): while
  the log grows, that check never fails. A publication
  between its two requests is told as a checkpoint ahead of the head (112), and
  "head extends the checkpoint" also fails when only the proof's request did
  (118), unlike `deploy/RUNBOOK.md:126`.

Tenancy and portal
- A revocation takes hold within a cache's life and one query, not the life alone
  (`log-store.ts:318`): a lookup asked before it may fill the cache after.
- The quota may be overshot by what is in flight, and again by every count that
  misses it (`log-store.ts:380`).
- Two concurrent registrations of one tenant id both become owners
  (`portal.ts:459`; `site/reference/hosted.md:31`); a failure between `addTenant`
  and `addMember` leaves the id taken by nobody.
- Two publications of one policy text may both be stored (`log-store.ts:445`); a
  note may be sent twice if the mark fails (`deploy/RUNBOOK.md:86`).
- A `checkout.completed` delivered again after the subscription ended brings the
  team plan back; a `deleted` that comes before its `completed` is ignored; a
  completed checkout takes an enterprise tenant to the team plan.

File log
- A prune that overlaps an append loses an acknowledged leaf
  (`retention.ts:32-59`; `receipts/docs/verification.md:204`).
- A signer that refuses leaves a leaf in the log whose sender is told that it is
  not there; an export begun before a key's rotation stops at the head.

Verifier
- The authorization's head need not be of the same log as the receipt's
  (`verify.ts:106-127`), and `resultDigest` is not checked; `AuthorizedFirst`
  is stated for heads of one log.
- `delegateFrom` does not count depth: it makes chains that do not verify. The
  page's verifier accepts grants without scopes. One Stripe delivery may vouch
  for two receipts that name the same object.

SDK and adapters
- A denial whose receipt is refused: Claude's hook exits with 1 and the host goes
  on as with any failed hook, while `site/reference/claude-code.md` says "Exit
  code 0 in every case" (`Unshielded` in Adapters).
- `wrap` and the two adapters written after it record "error" for a call that
  ran when recording "executed" failed, and if that receipt had landed after
  all, the log has both (`sdk/index.ts:109`; `Retelling`).
- PostToolUse decides again, by the policy of that moment: a deny may stand beside
  an execution.
- The sidecar's error says that no receipt was written, though the leaf may have
  landed. An agent runner's observer keeps the entry of a tool that throws.
  Hermes asks for its decision outside the try (`hermes.py:28`).

## 5. What is proved

Every theorem is checked to its last leaf by TLAPS, for every value of the
constants its module's ASSUME admits; the runs above check the same formulas on
small instances. A theorem with an `ASSUME ... PROVE` has one hypothesis more,
named below with what happens without it.

**Gateway_proofs**, from `GatewayAssumption` (any sets of calls, sessions, tools
and facts, any positive number of attempts):

| theorem | states |
| --- | --- |
| `TypeCorrect` | type invariant |
| `EvidenceFirst` | `EvidenceBeforeEffect`: no consequential request before its authorization is in the log |
| `ReceiptsAreTruthful` | `ReceiptsTruthful`, of every receipt that is or may still get into the log |
| `SentOnce` | `SentOnceAndFirst`: one request a call, never after its outcome was told |
| `HandedOutReceiptsVerify` | `HandedOutVerifies` |
| `ShownUnderReceipt` | `ShownIsReceipted` |
| `StaysConsistent` | `Consistent`: the two invariants above it, as the run checks them |
| `ConsumedIsComplete` | `ConsumedComplete` |
| `KeepsPromise` | `PromiseKept`: initial states map to initial states of Custody, and every step to a step of it or a stutter |

The properties are not inductive: whether a receipt tells the truth depends on
a request sent several awaits earlier. The inductive invariant `IInv` adds what
the code relies on at each await. `Phased` ties where a call stands to its
decision, its execution and whether its request went out. `Evidenced` says a
sent consequential call has its authorization among the leaves. `Truthful` is
about the leaves of the log and the late ones alike: a late leaf must be right
before it lands. `Carried` says the session's consumed facts hold all that it
was shown and all that its calls were served; `ShownIsReceipted` is inductive
with these.

**MemoryServer_proofs**, from `MemoryAssumption` (any calls, any number of stores
and attempts, shared or not):

| theorem | states |
| --- | --- |
| `TypeCorrect` | type invariant |
| `ForgottenErased` | `ForgottenIsErased` |
| `VerifiedForGood` | `VerifiedIsGone` |
| `StoresHaveFacts` | `WrittenThrough` |
| `LedgerAndStores` | `Consistent`: types, the two above, and `Attributed` |
| `AnswersAreTruthful` | `AnswersTruthful` |
| `HoldsBar` | `HoldBars`, an action property |
| `ReplacedOnce` | `OneReplacement` |
| `EveryVendorFits` | `VendorsFit`, with any number of rows a search returns |

The argument goes by layers, each an invariant that the next one uses.
`Phased` ties a call's step to its operation and fact. `PathStep` lists, per
step, the ways a call comes to it (`Into...`), so that the later proofs split on
a handful of arrivals and not on twenty-six actions. `LedgerInv` says what a
call that stands at a step knows of the ledger: a fact is asserted only by its
own write, so nothing is taken back before it was asserted, and a forget erases
before it appends. `StoreInv` says what it knows of the stores: a write has
filled those it passed (`Reached`), a removal has emptied them or noted them in
`kept` (`Emptied`), a certificate stands (`Gone`). That no store ever gets a row
back rests on `Fresh`: only a fact's own write puts it, before it is asserted.
`Barred` and `Replaced` carry, from the moment a forget has asked for holds or a
write has validated, the moment in the log at which the answer was true: the
difference between that moment and now is exactly what `HoldBars` and
`OneReplacement` leave open, and what section 4 and the hazard at
`ledger.ts:232` are about. `EveryVendorFits` is about any index that finitely
many rows were written to (`FiniteStores`, an invariant): a nearest-first search
misses an indexed fact only if at least `TopK` rows say the same.

**Logs_proofs**, from `HostedLogAssumption` (any appends, instances, reads and
crashes), `FileLogAssumption` (any processes, leaves and sizes of page) and
`WitnessAssumption` (any log, fork, passes and publications):

| theorem | states |
| --- | --- |
| `LockSound` | of the hosted log: types; `NextSeqInserted`, whoever is read from |
| `KeepsOneLog` | `OneLog`, if `ReadersApart` |
| `KeepsLog` | `LogKept`: the refinement of AppendOnlyLog, if `ReadersApart` |
| `PrunedIsGoneForGood` | of the file log: `FileConsistent` |
| `ImportsCopy` | `ImportIsACopy` |
| `CopiesHaveTheRoots` | `RootsKept`, an action property |
| `ProofsAlwaysHold` | `ProofsHold`, an action property |
| `RootsCommit` | of the Merkle tree: logs with one root are one log, whatever their lengths |
| `InclusionOnly` | an inclusion proof verifies the leaf at its place, with its own path, and nothing else; both verifiers |
| `ConsistencyOnly` | a consistency proof verifies the root at the smaller size and no other; both verifiers |
| `HealthyMeansOneHistory` | of the witness: types; a probe that finds the log healthy saw one history |
| `SignsOneHistory` | `Consistent`, if `PassesApart` |
| `NeverAccuses` | `NoFalseAlarm`, if `PassesApart` and `PublicationsApart` |

*The hosted log.* `ReadersApart` says that no instance both appends and is read
from, as the run hosted_log has it. The run hosted_log_readers shows what happens
otherwise, and the proofs that it is the only way there. `LockInv` has one holder
of the advisory lock (`OneHolder`), whose INSERT has the next seq. `LogInv` says
that every memory, every set of rows on its way and every signed head is a head of
the table (`MemoryTruthful`, `HeadsTruthful`), that between a COMMIT and its answer
the table has that instance's row right after what it remembers, and that
acknowledgements stand. Only an appender has a queue and only a reader is read
(`Roles`): this is where the hypothesis comes in, at `Push`, which a read's
reload must not have overtaken.

*The file log.* Its theorems go on after two processes, or a prune and an append,
have met on the file, where the run stops (`ImportIsACopy` and `RootsKept` then
say nothing: their hypothesis `apart` is gone). `PruneTruthful` is why a pruned
leaf cannot get its bundle back: nothing is under way for it (`Gone`), nor for a
leaf that a run of prune has found old (`Settled`), since new leaves have new
numbers and the cutoff lies before everything under way. `ImportTruthful` says
that what an import has appended and has still to append are the first leaves of
the file, whose places neither growing nor pruning changes (`LeavesStay`).
`RootInv` is `RootsKept`'s invariant: the one process that holds the file knows
exactly what is in it, but for a line it has written and not yet taken into its
memory (`Alone`); every receipt's tree, the head of an export and what was fetched
of it are how the file begins (`TreesStand`, `ExportStands`).

*The Merkle tree.* That a log which begins with a tree gives its root (`SameRoot`),
and that a root commits to every leaf under it and to their number (`SameLeaves`,
`RootsCommit`), hold for every length, by induction over the size of a subtree.

*Its proofs.* The code makes a proof from the root down, splitting a range in
two, and verifies it from a leaf up, by the binary digits of its place. The two
meet in the row above the leaves, `Above`: pairs are hashed, and a last leaf
without a partner goes up as it is. A row and the row above it have one root
(`RootAbove`), because a range of pairs and the range above it are split at the
same place (`SplitHalf`); a leaf's path is its partner before its parent's path
(`PathAbove`); and a climb from the leaf is, after one hash, a climb from the
parent (`ClimbRises`). Each has half as many leaves, so `InclusionOnly` is an
induction over rows (`OnlyThePath`), and the same climb carries the older tree's
last leaf to the older root (`OldToo`). `subproof` of an even size is that of half
the size in the row above (`SubproofEven`), of an odd size the path of the old
tree's last leaf (`SubproofOdd`), which is where the verifier's first loop goes:
that is `ConsistencyOnly`. The page's verifier takes the same steps in another
order (`SameClimbed`). `ProofsHold` needs one invariant more, `LeavesDiffer`: no
leaf is twice in a tree, since two equal leaves may have one path. It holds
whoever meets on the file; that a log extends every earlier tree needs `RootInv`.

*The witness.* The hypotheses say that a pass of the witness, or of the publisher,
ends before the next begins, as it does when it takes less than the interval;
section 4 has what overlapping ones do. "Is a prefix of" is an order on heads
(`ExtendsReflexive`, `ExtendsTransitive`, `PrefixesAgree`). The state extends every
head signed (`Chain`), and a pass that waits for a proof waits for one against
the present state (`PassInv`). No alarm about an honest log needs more: what is
signed, fetched, in `latest.json`, being published and in the log is in that
order (`Ordered`).

**Ledger_proofs**, from `LedgerAssumption` (any facts, subjects, writers, events
and times):

| theorem | states |
| --- | --- |
| `PastIsSettled` | `PastStands`, an action property |
| `RetractionsUndo` | `RetractUndoes` |
| `QueriesDoAgree` | `QueriesAgree`: types; `StoresBelieveTheSame`, `ViewsAgree`, `SweepsFindAll` |
| `ReportsDoAccount` | `ReportsAccount` |

The invariant `LedgerInv` says that each fact is asserted once, and of each event
what held of the log before it when it was validated (`Proper`): what it replaces,
takes back or forgets was asserted, and its time is not before theirs. The rest is
about what the queries compute of such a log. `AsOfIs` and `AnySelection` say that
belief depends on what is known and on the replacements among it, and not on which
other events a store's select brings along; so the reference's transitive
selection and SQL's single step believe the same (`ReferenceIs`, `SqlIdsAre`).
`JsonlIs` and `RowsAre` say what the file and the table are after any writes:
each event where it was appended, and a forgotten value erased in place.
`SettledStands` needs only that every later event has a later time. The blast
radius is a loop over what grows: each pass that changes something adds a fact, so
that as many passes as there are facts reach the end (`PassesStay`, `PassesReach`),
and the end is the least set closed under what was read and written (`BlastIs`).

*Induction.* The library's induction theorems take an operator that no installed
prover can instantiate. Both modules get induction from what there is: the order
of the naturals is well founded (`NatLessThanWellFounded`, `WFMin`), so a set of
naturals that is not empty has a least member (`LeastNatural`), and a set that has
0 and with each number the next has them all (`UpFromZero`). A recursive function
is the CHOOSE of a function that satisfies its equation; that there is one is shown
by building it up number by number (`Iterates`, `Passes`, `HashedIs`, `PathIs`,
`HalvingIs`), after which the equation may be used.

**Tenancy_proofs**, from `TenancyAssumption` (any instances, tenants, tokens,
requests and operations, any lives of the caches):

| theorem | states |
| --- | --- |
| `ChangesReachEveryInstance` | `CachesFresh` |
| `QuotaReachesEveryInstance` | `QuotaBites` |
| `AppendsArePaidFor` | `LimiterPays`, an action property |

What a request or a cache holds was read at some moment: it was true then, or
became false at that moment or later (`RowBy`, `TokenBy`, `CountBy`). A write
keeps this because it dates what it makes false, and time passes only up to
`MaxQuery` while an answer is awaited. So an answer lags behind its table by the
age of what it was made from: a query when it was asked for, a cache's life and a
query when it was remembered, and for the quota one query more, since the plan
and the count are asked for one after the other.

**Portal_proofs**, from `PortalAssumption` (any accounts, tenants, subscriptions,
identities and requests):

| theorem | states |
| --- | --- |
| `TablesAgree` | `AccountsAgree` |
| `TeamIsPaid` | `TeamWasPaid`, an action property |
| `SessionsAreOfTheirOwn` | `SignedInAs`, an action property |

`Knows` lists what a request has learned at each of its statements; `TablesInv`
what the tables and Stripe agree on. Requests interleave at every query and fail
at any, and yet what one has learned stays true, because no statement takes it
back: accounts, memberships, tenants and notes only come, and a subscription
stays its tenant's (`Grows`). The proofs therefore follow only the request that
takes the step.

**Bundles_proofs**, from `DelegationAssumption` and `BundlesAssumption` (any keys,
tools, moments, chains and calls, any depth limit up to the code's four):

| theorem | states |
| --- | --- |
| `AcceptedGrantsNarrow` | `GrantsNarrow`, and that the two verifiers agree |
| `WhatIsIssuedVerifies` | `IssuedVerifies` |
| `AcceptedWasAllowed` | `AcceptedWasGranted` |
| `AcceptedIsOfOneCall` | `AcceptedIsOneCall` |

The invariant `BundlesInv` (`BundlesInvariant`) says of everything that circulates
where it comes from: a head is of leaves its log still begins with (`HeadInv`), an
authorization is of the call its receipt is of and earlier in the log
(`AuthInv`), an upstream's signature or a provider's delivery was made by it
(`Made`), what the gateway states is as `handleCall` states it (`StInv`, `OwnInv`),
and what is shown is made of such parts (`ShownInv`), with edits of everything an
unsigned or an issuer's own statement can say. What a verifier then checks binds
the parts to one call. With four links at most, the narrowing of each link to
the next (`Within`) is carried along the chain by cases, without induction.

**Adapters_proofs**, from `AdaptersAssumption` (any number of calls, each of the
fifteen adapters):

| theorem | states |
| --- | --- |
| `ReceiptsTellOneStory` | `OneStory` |
| `WhatIsDeniedIsNotRun` | `DenialsHold` |
| `NothingUnreceipted` | `HandedBackIsReceipted` |

A step is of one call and disturbs nothing of another, so each invariant is a
formula of a single call: where it can stand (`Path`), what may already be
written of it (`Written`), that a deny has not been let through (`Barred`), and
that what was handed back is in the log (`Returned`). The exceptions are the ones
section 4 names: the adapters of `Unshielded` and `Retelling`.

**Only model-checked.** Liveness (`CallsEnd`, `QueueDrains`, `Witnessed`), which
rests on fairness and ENABLED, is beyond TLAPS.

## 6. Abstractions

- Hashes and signatures are perfect: a head is the sequence of leaves it
  commits to (HostedLog) or a history and a size (Witness); a hash is the term
  it was made of (Merkle); a signature or a digest likewise (Bundles).
- Cedar's decision is a free choice in `Decide` and in Adapters' answers; an
  evaluation error is a deny, as in `policy.ts`. Fact lookups before the
  decision are part of that choice: they are not recorded as forwarded calls.
- A PostgresLog on a client without a pool (one connection, where queries of
  reads fall into a transaction) is not modelled.
- In MemoryServer the reads one check makes of one fact are one step; only the
  hold's question is apart from them, because the documents make a promise
  about it. A store is the set of facts it has a row of and the set its search
  returns. The provenance filter of `asOf` is left out.
- In Ledger one attribute stands for subject, predicate and space, which all
  only filter, and one clock for all writers. The columns SQL keeps beside an
  event are the event's own; two Postgres writers may commit in another order
  than their sequence numbers, which a reader between them would see.
- In Tenancy the month of a quota does not change; in Portal an email address is
  the account, and of a session only whose it is remains.
- In Witness the three files of a countersignature are written at once.

## 7. Not modelled

- *OTel and Splunk exporters*: output after the evidence is written; their
  failures are swallowed and change nothing.
- *Command lines and configuration*, apart from the probe and the hook command:
  they parse arguments and print what other components return.
- *Canonical JSON and key formats* (`crypto.ts`): a digest is the term it was made
  of, which is what canonicalisation is for; whether two implementations print a
  number alike is a question for tests, not for states.
- *Pages, read-only endpoints, cookies, logout* of the portal, and the *health and
  checkpoint endpoints* of the log server: they read what the modules have.
- *Static token of a server without a database, `usage()`, the pruning of idle
  buckets* (Tenancy): the first two keep no state, and a bucket is pruned
  after an idle minute, by when any rate above a sixtieth of its burst has filled it.
- *A crash among the three files of a countersignature* (`witness.ts:155`): a torn
  `state.json` reads as none, and the witness starts over from the head it then
  sees, which is what `state = None` is at the start.
- *Two processes on one JSONL ledger*, and *two on one log file after they have
  met*: nothing is promised there, and nothing holds.
- *Python's `memory.py`*, a client without state, and the *deployment scripts*.

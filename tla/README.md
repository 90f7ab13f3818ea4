# TgBotXUI in TLA+

TgBotXUI is a Telegram bot with which root admins and their delegated admins
(resellers and sub-resellers) sell and manage the clients of 3x-ui panels. It is
one asyncio process over one SQLite database; the panels are HTTP servers that
others change too. What is hard about it is not any single handler but what
handlers do to each other between two awaits, and what is left of an operation
that pays, calls a panel and fails.

## 1. The system

| component (source) | state it keeps | operations | talks to |
|---|---|---|---|
| Operation guard (`operation_guard_service.py`) | one `asyncio.Lock` per key | `run`, `run_many` | the services that pass it functions |
| Wallets (`financial_service.py`, `finance_repository.py`) | `user_wallets`, `wallet_transactions`, `user_pricing` | charge with its upstream chain, refund, set, adjust, reset, pricing, reports | guard, database, access service |
| Database (`db.py`, repositories) | the SQLite file, ONE connection and so one transaction | some sixty write-and-commit methods | everybody |
| Provisioning (`admin_provisioning_service.py`) | owners, traffic segments, Moaf exemptions | create, top up, extend, reset, delete, change owner, change parent | wallets, panel service, usage service |
| Hierarchy (`db.py`, `delegated_access_service.py`) | `delegated_admins.parent_user_id`, parent events, profiles | add, remove, change parent, subtree query | provisioning, access, wallets |
| Panel service (`panel_service.py`, `xui_client.py`) | panel rows, session cookies, default panel | login, inbound and client calls, read-modify-write of an inbound | X-UI over HTTP |
| Usage (`usage_service.py`) | `user_services`, alert states, notification queue | periodic refresh, refresh on demand, alerts, queued messages | panels, Telegram |
| Routing (`panel_service.py`) | the xray configuration of a panel; owners and grants of outbounds | location of a client, default of inbounds, add an outbound | X-UI over HTTP |
| Access (`access_service.py`, `delegated_access_service.py`) | rows of admins, profiles, panel and inbound grants, default panel | grant, sync, revoke, remove, toggle; who may do what | hierarchy, panels |
| Dialogs (`handlers/`) | one aiogram context per chat, in memory | some eighty handlers that ask, store, take and clear | the services |
| Middlewares | sliding windows in memory | rate limit, menu reset, language | Telegram updates |
| Summaries (`provisioning_financial_summary_service.py`) | traffic segments, exemptions, exclusions, caps of resumed clients | what a scope has been allocated, consumed and owes | panels, database, pricing |
| Migrations (`migration_runner.py`) | `schema_migrations` | apply at start | SQLite |
| Texts, keyboards, reports, installer | none | wording and layout | the services |

Everything above runs in one event loop: a coroutine is interrupted at an
`await` and nowhere else. Handlers run concurrently (one task per update), beside
the periodic jobs that `main.py` schedules. They meet in three places: the wallet
locks of the guard, the shared SQLite connection, and the panels.

Hard behaviours, each listed with its line in `PROJECT.json` under `hazards`:

- *locking*: sets of wallets locked at once, locks worked out from rows that may
  change before they are taken, operations that lock nothing (refund, reset);
- *compensation*: an operation that paid several wallets and then fails;
- *one transaction for everybody*: commit and rollback act on whatever the
  connection has written, by any coroutine;
- *crash*: between statements, between a message and the mark that it was sent,
  between a migration and its version row;
- *read-modify-write over HTTP*: two edits of one client, or of the routing, on a panel;
- *stale checks*: quota, cycle of parents, alert states, default panel;
- *overlapping answers*: aiogram runs a task per update, so two texts sent for one question
  are handled at once, and an old keyboard is pressed while a new one is being made;
- *half-made changes*: rights are rows that are committed one by one.

What makes each component correct:

- guard: functions with a common key never overlap; every caller gets to run;
- wallets: the ledger explains the balance; a refund answers one charge, once; a
  failed operation costs nobody anything, a successful one stays paid;
- database: what a call returned is in the file; the file is explained after a
  crash; nobody's transaction stays open;
- provisioning: an edit changes what it is about and nothing else, a withdrawn uuid stays
  withdrawn, traffic is billed once, a quota is overrun by no more than what is under way;
- pricing: what was consumed at a price stays owed at it, unless it is agreed otherwise;
- summaries: never more than there is, never to two, and nothing lost by a change of hands;
- hierarchy: the parents form a forest; walking up and querying down agree;
- routing: a choice stands until it is changed, whatever rules it is merged with;
- access: no right without the right it rests on; the same question has one answer;
- dialogs: what was asked is done once, and to what it was asked about;
- usage: an end that is stored was told; a notice is delivered once or waits;
- migrations: each script once, in order.

## 2. What is modelled

### `Serializer`, `OperationGuard`

`OperationGuard` is `OperationGuardService`. `phase[c]` is where caller `c` stands in
`run_many`, `need[c]` its normalized key set, `got[c]` the locks it holds and
`waiters[k]` the FIFO of the `asyncio.Lock` of `k`. A key is an integer because all
the code does with a key is to sort it. `Enter` is the call, `Acquire`, `Enqueue`
and `Wake` are the three ways `lock.acquire()` can go, `Leave` is the `finally`
block, with a result or an exception. `asyncio.Lock` does not hand a released lock
over: it wakes the first waiter, which finds the lock free when it runs; a newcomer
that comes first queues behind it. That is the one delicate point of the model, and
is why waking is an action of its own. The lock registry never drops a lock, so every
key has its lock from the start.

`Serializer` is what the services take the guard for: ask, be admitted when nobody
inside has one of your keys, depart. `KeepsPromise` is the refinement.

### `AtomicLedger`, `Wallets`

`Wallets` models `charge_operation`, `refund_transaction`, `set_wallet_balance`,
`adjust_wallet_balance`, the ledger reset and the pay / call / refund skeleton of
`AdminProvisioningService`. It instantiates `OperationGuard` on its own variables,
with the wallet of a user as key. One action runs from one await that matters to the
next:

| actions | code |
|---|---|
| `Start`, `Clear` | the handlers: a charge, `set`, `adjust`; the reset is one step under no lock |
| `ClimbOne`, `LockWallets` | the first `_upstream_charge_targets`, outside the lock, and `run_many` |
| `TakeLock` | the acquire loop |
| `ChargeNothing`, `RefuseCharge`, `ChargeActor` | limits, price, the wallet of the actor |
| `ClimbOne`, `TargetsKnown` | the second `_upstream_charge_targets`, under the lock |
| `SkipUpstream`, `ChargeUpstream`, `UpstreamShort` | the loop over the upstream admins and its except block |
| `ChargeDone`, `CallPanel` | locks released; the panel call and what else is in the try block succeed or raise |
| `CheckRefund`, `CreditRefund` | `refund_transaction`, whose look-up and credit are awaits apart; used by the except block (under the locks) and by `_refund_charge_bundle` (under none) |
| `SetRead`, `SetWrite`, `Adjust` | the two manual changes |
| `ChangeParent` | `set_delegated_admin_parent` at any moment |

`apply_balance_change` is one step in this module (`Post`); whether it may be taken for
one is the question of `SharedConnection`. Prices are constants; the limits of a
delegated admin are a free choice (`RefuseCharge`). A row keeps id, amount, balance
after, kind and reference.

`AtomicLedger` is the books the callers think they have: a change enters one row that
carries on from the balance, under a fresh id, referring to a row of the same book; a
reset empties a book; both in one step. `Wallets` and `SharedConnection` both implement
it, from above and from below.

### `Pricing`

`pricing` is the row of `user_pricing` of one reseller: price of a GB, basis, the answer to
"apply to previous reports" and the tiers. `save` is where a dialog of a root admin, or the
button for the basis, stands:

| actions | code |
|---|---|
| `PricingDay`, `Answer` | the last two handlers of the dialog: the question is put only when the price of a GB changes |
| `ReadBasis`, `TakeSnapshot` | `_save_pricing_and_answer`: the row, and on "no" a summary, whose result ends the tier |
| `SwitchBasis` | `delegated_admin_toggle_basis`, up to its save |
| `SetPricing` | `set_pricing`; `AppliesToPast` and `NextTiers` are its two decisions |
| `Abandon`, `Consume`, `Lose` | a handler that raises; the clients, and usage that is reset or deleted |

`Debt` is `compute_consumed_basis_debt_amount`, divisions rounded down tier by tier. `agreed`
is the reference it is held against: the price of each step consumed, one by one. `late`
counts the steps consumed between a snapshot and its save, which may go either way. `spoilt`
marks what breaks the agreement in the code, until a price is set for all that was consumed:
a summary that passed over a panel that did not answer, usage lost from under a tier, a save
for which nobody was asked (below), another save between a snapshot and its own.

### `Summaries`

One client of one inbound (figures of several add up), the rows a summary goes by, and
summaries made read by read:

| actions | code |
|---|---|
| `Begin`, `Climb` | the scope and the exclusions of everybody above |
| `ReadExemptions`, `ReadSegments`, `ReadCaps`, `ReadPanel` | the reads of one panel, in order; a panel that fails is passed over |
| `InsertCap`, `ReadCap` | a resumed client that is met for the first time |
| `TopUp`, `EnterTopUp`, `DropTopUp` | a top-up or gift, before and after the call of the panel |
| `MoveReseller` | `change_delegated_admin_parent` in one step, with the snapshot of the client for the parent that is left |
| `SetClientTotal`, `ClearUsage`, `TagByHand`, `ToggleInbound`, `HideClient`, `UseTraffic` | what else changes a summary |

`Ledger` is the pure function from what was read to what is billed; `LedgerOf(a)` is the
summary of `a` made in one step. `entries` are the segments of `PanelClients` with their owners (this module has names of its own for what both have);
`Disjoint` is what `BilledOnce` shows there.

### `SharedConnection`

The connection of `Database.connect`, statement by statement: `disk` is the file, `mem`
the database as the connection sees it, `open` its transaction. A data statement opens
a transaction when none is open (the default of `sqlite3`), `BEGIN IMMEDIATE` fails when
one is open and stands outside the `try`, `commit` and `rollback` end the transaction
whoever opened it. The three jobs are a wallet change, a ledger reset and one
write-and-commit method (`add_audit_log`). `Crash` loses `mem` and the coroutines at
any point.

### `Hierarchy`

`known` are the rows of `delegated_admins`, `active` those with `is_active`, `parent` their
`parent_user_id`. Three things change it:

| actions | code |
|---|---|
| `Begin`, `CheckParent`, `CheckSubtree`, `Write` | `change_delegated_admin_parent`, from its early returns over the work on the panels to `set_delegated_admin_parent`; the reads and the write are awaits apart |
| `Admit`, `Regrant` | `grant_delegated_admin_access`: the insert and the conflict clause of `upsert_delegated_admin` |
| `RemoveAdmin` | `deactivate_delegated_admin`: the row keeps its parent, its children keep theirs |

`Tree` is the recursive query down, `Upstream` the walk of `_upstream_charge_targets` up,
both as least sets closed under one step, so that the module can be proved about and a
circle does no harm to TLC. On a circle the query does not end (`QueryEnds`); the walk
does, because it remembers whom it has seen. The write is one step although
`set_delegated_admin_parent` reads the row, updates it and enters an event: what can come
between statements of one connection is the subject of `SharedConnection`.

### `PanelClients`

The clients of a panel and what the bot keeps of them. A client is a record of the fields
that operations change (total, days, enabled, IP limit, Telegram id, the moaf mark, the
comment that names an owner, the uuid); numbers are counted in steps. **An operation is a
plan**: the sequence of its calls, `AddTraffic == <<"detail", "base", "config", "add",
"enter">>`, and `job[r]` is what request `r` has left of its plan and what it has read on
the way. One action per kind of call works off the head:

| actions | code |
|---|---|
| `Start` | a handler calls a `..._for_actor` method; `Plans` has the variants (by button, by link, by user or by admin) |
| `Detail`, `FindByUuid`, `FindByAddress`, `FindDepleted` | the look-ups before an operation |
| `ReadBase`, `ReadConfig`, `WriteClient` | `_update_client_by_mutation`: the value is worked out from one read, the record to write back comes from another |
| `EnterSegments`, `OwnClient`, `SnapshotClient` | `moaf_client_traffic_segments`: after a top-up, at creation, before a change of parent |
| `FindAddress`, `Delete`, `CountOwned`, `CheckAddress`, `AddClient` | deletion and creation |
| `SetOwner` | the owner in `client_owners` |
| `ListAll`, `ListOwned`, `Unsynced`, `SyncOwner` | `list_clients`, and on a legacy panel the rows it overwrites from the comments |
| `UpdateComments`, `ListOfChild`, `FindUnsegmented`, `SetParent` | `change_delegated_admin_parent`, with the call of a method that does not exist |
| `Fail`, `Use` | any call fails, the operation is refused; a client uses itself up |

Whatever lists the clients of a legacy panel (a menu, the count for the quota, a deletion, a
cleanup, the two parts of a change of parent) writes the owners its comments name into the rows before it
goes on: `unsynced[r]` is what request `r` has read in a list and is still to compare with the
rows, client by client, and only then does it come to its next call (`At`). The rows are at hand only when
the list is for one owner; otherwise every comment that names somebody is written (`Differs`).

Two kinds of panel: a legacy one finds the client to update by uuid, a v3 one by address
(`Reaches`). `due` is what the operations amount to when each is applied in one step;
`clashed` are the clients two operations worked on at once, for which the code promises
nothing. `admitted` has the uuids of creations that got past the count for the quota, each with the
admin that asked; a panel that does not answer is counted as empty in the code, and a creation
that gets past in this way is not in it.

### `Routing`

The configuration of xray: a set of outbounds and a sequence of rules, of which the first
that matches counts (`Route`). `RulesWithClient` and `RulesWithDefault` are the pure
functions by which `set_client_outbound_tag` and `set_inbounds_default_outbound_routing`
change the rules; the second is a loop over the inbounds, which either adds the inbound to
a rule that is there or takes out the wide rules of all inbounds that change and puts a new
one in front (`Widen`, `WithoutWide`): the second inbound of a call takes out what was put in for the first, which is
the finding of `routing_defaults`. The actions read everything, change it, write everything, restart.
Whom the outbounds are shown to (`TagsFor`), grants and owners are in it too.

### `AccessRules`

Rows (`row`, `profile`, `onPanel`, `onInbound`, `site`, `defaultPanel`) and the questions
answered from them, each operator with the name of its method. A change is an *errand*:
the statements it executes, in the order of the code, each committed on its own; `Ask`
starts one, an action per statement works it off, `BreakOff` ends it anywhere.

### `Usage`

One client on a panel (`meter`), the row of the service (`service`), alert states of its
delegated admin (`alerts`) and the queue of notices (`notices`). A round is a plan again:
`RefreshAllServices` is the job and the sync button, `SendServiceStatus` what a user's
look at the status does, `BindService` and `DeleteService` what others do. `said` and
`heard` record what people were told. A search that fails counts as "not found" in the
code, and so in `Search`.

### `Dialogs` and its families, `Conversations`

`Dialogs` is the aiogram context of one chat (`waiting`, `data`) and the handlers in
progress. A handler is chosen by the state at the arrival of its update (`Answer`, `Press`,
`Label`), which is a step of its own; middlewares and access checks are awaited before the handler
touches the context, so other updates, a cancel included, may be handled in between; what it
then does to the context between two awaits is one step. The idioms of the handlers are operators: `Ask`
(store the subject and set the state), `Note`, `Take` (read and clear, then act), `Keep` (act, then
clear), `SetsState`, `Clears`. A menu label sent as an answer clears the context some awaits after its
arrival (`LabelClears`), and its handler goes on after that. `Cancel`, and a menu label in its own right,
are taken in any state, so their arrival has no step: they come when they clear.
`ClientDialogs`, `SetupDialogs`, `AdminDialogs` and `Pickers` are the handlers in these
terms, in fifteen families; `Conversations` has all of them, one family in a behaviour.
Families share the context only through what is in `Dialogs`: a menu label or cancel
clears it, whichever family it belongs to.

### How they compose

`Wallets` instantiates `OperationGuard` and implements `AtomicLedger`, which
`SharedConnection` implements from below. A dialog ends in `Act` or `Save`, which stand
for the call of a service: the operations of `Wallets`, `PanelClients`, `Routing` and
`AccessRules`. `Pricing` takes what a
summary says has been consumed; `Summaries` takes the operations of `PanelClients` as one
step or two. `PanelClients` takes the price of an operation for a refusal or nothing;
`Wallets` takes the panel for a success or an exception. `MCServices` puts the six
modules of services side by side: they share no variable, so a behaviour is about one.

## 3. Runs

| run | instance | what it shows |
|---|---|---|
| `operation_guard` | 3 callers, all subsets of 3 keys | exclusion, no circular waiting, every caller runs, implements `Serializer` |
| `wallets` | root admin, reseller, sub-reseller; 3 requests | ledger explains balances, refunds answer charges, successes stay paid, every request ends, implements `AtomicLedger` |
| `wallets_square` | 2 root admins (so neither is charged), 3 levels of which one upstream has a price, 4 requests, fixed parents, no debts, no reset | charges hold the locks of what they change, a failed operation costs nobody anything, setting a balance is isolated from charges |
| `upstream_leak` | chain of 3 paying admins, one charge | **violation**: the second upstream admin is short and the first stays charged |
| `refund_refused` | one reseller that owes | **violation**: its refund is refused as leaving the wallet below zero |
| `shared_connection` | 1 coroutine, 4 calls, 1 crash | file explained after any crash, calls atomic, nothing left open, what returned is stored |
| `hierarchy` | 5 admins, 1 change at a time, grants, removals of an admin in the unmoved chain at the top and of one never above anybody | parents form a forest, walk and query agree, every change ends |
| `parent_circle` | a full admin under another | **violation**: it grants access to the one above it and becomes the parent of its parent |
| `connection_overlap` | 2 coroutines, one charge each | **violation**: a charge returns and the rollback of another has undone it |
| `conversations` | 15 families, 2 handlers at once, 2 subjects, 8 updates | an answer is applied no more often than asked, an open question is about the subject stored last, ticks are saved for whom they were made |
| `services` | see below | edits, billing, quota, prices, summaries, routes, rights and messages hold up under overlap and failure |
| `routing_defaults` | 2 clients in 2 inbounds, 1 operation | **violation**: a default set for two inbounds reaches one |

Bounds. Two callers make a conflict, three a queue behind a holder, and three keys every
pair of crossing sets. In `wallets` three levels of admins make the chain charge two
wallets beyond the actor, so the loop, its failure after one success, and the sole root
admin at its end all happen; three requests are two charges of the same admin and a
manual change or a reset against them, or two charges and nothing else. `MaxCalls` = 4
in `shared_connection` lets a charge, its refund, a reset and an audit row follow each
other in any order; one crash is enough because the state after a restart is the state
after a connect. `CHECK_DEADLOCK FALSE` appears only for `SharedConnection`, whose calls
are bounded and then stop, and for the runs below, whose updates, operations and rounds
are bounded likewise; the other modules check deadlock, `Wallets` with an
explicit `Rest` step once everybody has been served. The first runs use no symmetry: users
and keys are ordered, and requests have different jobs.

`conversations`. Two handlers overlap in every way two steps can; a third adds nothing to
properties about one question and one answer. Two subjects make a mix-up, eight updates
let the longest wizard (create, seven answers) run through with one update to spare.
Handlers and subjects are interchangeable.

`services`. A behaviour picks its part. The *clients* have loads (`SmallLoads`), each a set
of operations that are interesting together: two loads of edits on one client that may be
there already, on either kind of panel (two that overlap and, in the first load, one before or after); creations of three clients against a quota of
one, so that two requests race past it and the third client is the one that must not come, with the rows that each count
on a legacy panel rewrites; top-ups, gifts, changes
of owner and of parent, listings (four operations, three of a narrower choice where neither
admin is below the other at first). The *routing* has two clients in one
inbound, a second inbound, one outbound to add, rules made by hand or by the API, and three
operations of one request at a time. The *access* has an admin, two panels with an inbound
each, three errands of which two overlap. The *usage* has loads (`FewRounds`): a round amid
two changes of the client, two rounds one after the other amid one; two that overlap; a notice, a crash, or
two notices. Requests are interchangeable, and so are two of the three clients.

The *pricing* has two savers, a price of nothing and one of three, three steps of consumption
of which two make a GB, and two saves: two tiers, a change of basis between two prices, a save
that overtakes another. The *summaries* have two resellers and one that may be below either,
one client, and loads (`FewOperations`): traffic of all kinds with changes of parent (three
operations, which let segments of both resellers come about); two summaries of a resumed client
whose total changes between them; one summary amid top-ups, gifts and changes of parent, amid
totals that are set anew, amid tags, exclusions and resets.

What the guards of the properties leave out. `clashed`, `mixed`, `crossed`, `muddled`,
`doubled` and `spoilt` mark that two operations were at work on the same thing (`spoilt`: also what
`Pricing` says above): there the code promises
nothing and the same formulas fail (a lost edit, a lost rule, a right that survives a
removal, an end nobody is told of, a notice sent twice). Failures half way are never left
out. `rebased` marks a total that was set anew, after which segments may overlap.

Why `wallets_square` is narrow. What it checks is wrong in general: with a second paying
level (`upstream_leak`), a reseller that owes (`refund_refused`), or a changing parent
(a charge then takes money from a wallet it did not lock) the same formulas fail. The
run says under which conditions the code does what its tests expect. It also leaves out
the ledger reset, after which nothing of a failed operation is left to give back.

Why `hierarchy` is narrow. Removing an admin whose superiors may be moved hides those below it from the
query, so that a later change can close a circle; so does a grant by an admin below the
target (`parent_circle`), and so do two changes at once (2 under 3 and 3 under 2: both pass the check before either writes). The run keeps clear of these, which
the code does not prevent, and shows that the check is right otherwise.

Fairness. Weak fairness of each coroutine: the event loop runs every ready coroutine,
SQLite calls return, and a panel call returns or is ended by the client's timeout.
Nobody is obliged to call (`Enter`, `Start`) or to change a parent, so these have none.
The runs of dialogs and services check safety only and assume no fairness: their
properties say what is never wrong, and an operation may stop anywhere.
FIFO waiting in `asyncio.Lock` is in the model and not in the fairness: that is why weak
fairness is enough for `EveryCallerRuns`.

## 4. Proofs

Eight modules hold the proofs, each about the modules named in front of it:
`OperationGuardProofs`, `WalletsProofs`, `AdminsProofs` (hierarchy and access),
`ConnectionProofs`, `ConversationsProofs`, `ClientsProofs`, `UsageProofs`, `ServicesProofs`
(routing, pricing, summaries). They hold for every value of the constants that satisfies
`KeysAreOrdered` (keys are ordered), `WalletsAssumption`, `HierarchyAssumption`,
`AccessAssumption` (constants have their types), `ClientsAssumption` (loads ask for
operations there are, on clients there are, and start from families there may be; finitely many
requests and clients; a quota is above zero, as the code compares with it only then,
`admin_provisioning_service.py` 1509), `DialogAssumption` (finitely many handlers at a time, and
updates are counted), `RoutingAssumption` (a client has one inbound, and no inbound is called
"api"), `PricingAssumption` (finitely many prices, none below zero) or `SummariesAssumption`
(finitely many resellers): any number of admins, any hierarchy, circles included, any
prices, any requests, panels, clients, rules, segments, subjects, handlers and crashes.

`OperationGuardProofs`. The inductive invariant `IInv` adds three facts to the types:
a caller holds only what it asked for, and all of it when running; a lock has one
holder; the locks held are below those still lacked. Exclusion needs the first two,
`WaitingClimbs` the third, and the refinement all of them: `Wake` or `Acquire` of the
last lock is `Admit`, and `Admit`'s guard is what one-holder says.

`WalletsProofs` instantiates those theorems on the wallet locks: each action of `Wallets`
is a step of the guard or leaves it alone (`GuardStep`), so `Locks!IInv` is preserved
by citing `StepIInv`, and `WalletsExclusive` follows. `Pending` is the strengthening that
types need: a request that refunds has something to refund. `LedgersExplainBalances` is
inductive given the types because `Post` appends a row that carries on from the balance
(`PostExplained`). `WalletsImplementBooks` maps each payment and refund to
`Change`, `Clear` to `Reset` and the rest to stuttering.

Refunds, in the same module, need an invariant that relates requests to the ledger (`RInv`): ids are
below `nextId`; the transactions of a request were posted as its charges and are its
own; what it refunds is its own; between look-up and credit of a refund nobody else
refunds it (`CreditsOnce`); only a failing request has refunded transactions. `RInv` is
what makes the unguarded check-then-act of `refund_transaction` harmless: not a lock, but
that each transaction is known to one request only. It is proved on top of the types,
and TLC checked it on the instance of `wallets` before.

The three properties of `wallets_square` hold on conditions. `ParentsWait` is one about behaviours:
nobody's parent changes while a charge is planned or made. It holds of `wallets_square`, where nobody
moves, and of every behaviour whose changes fall between charges; nothing in the code enforces it, and
without it `charge_operation` charges, under the locks, admins it did not lock. On it, `LocksInv`
is inductive: the admins found before the locks are asked for are closed under parents (`Climbed`),
so whoever is found on the second climb is locked (`Covered`), and so is whoever is charged.
`ChargesLocked` and, with one holder to a lock, `SetsAreIsolated` follow: what
may still come between the read and the write of a balance is a refund or a reset.
`FailuresCostNothing` needs `NoDebts` as well, a condition on the constants: no wallet may owe, the root
admins have no price, nothing is reset or taken out by hand, and of all who are above somebody one at most has a price. Both
findings about refunds break it (`upstream_leak`, `refund_refused`); so a failure can cost somebody
money in these two ways, or where a root admin has a price, a ledger is reset, money is taken out by
hand or a parent moves meanwhile, and in no other. Its invariant, `PaidBackInv`, says that wallets stay at zero or above, also
after the write that is due (`Solvent`, from the isolation); that a request whose upstream charge may still
fall short has charged its own wallet only (`SecondPays`); and that each charge of a failing request is refunded or in its
hands (`RefundsDue`). TLC checked `LocksInv` on the instances of `wallets` and
`wallets_square`, and `PaidBackInv` on the latter, with moves between charges added.

`AdminsProofs`, hierarchy. `TypeCorrect` needs that the new parent found by `CheckParent` still has a
row at `Write` (`ParentHasRow`): rows are never deleted. `WalkAgrees` is a fact of every
well-typed state: what the query misses is a set closed against the walk, and the other way
round. `CalmForest` states when the one check of a change is enough (`Calm`): its invariant
says that the new parent stays outside the child's subtree until the write
(`StillOutside`), and `WriteKeepsForest` that the write then closes no circle: a circle
through the child, less its subtree, would have been a circle before.

`ConnectionProofs`. `ConnectionTyped` holds whatever overlaps. The rest has the hypothesis
`[]OneAtATime`: at most one coroutine is at a statement. It is a hypothesis about behaviours and not about
the constants, because nothing in `Database` enforces it and `connection_overlap` shows what
happens without it; every behaviour of one coroutine satisfies it, and so does every behaviour
of many whose calls do not overlap. The strengthening is `Ahead(c)`: for every statement a
coroutine can stand at, how far the connection is from the file (nothing before the first write, the
balance after the update, the row after the insert, everything before the commit). Explained
balances, and that nothing is left open, then need no further invariant. `ConnectionStores` needs one more hypothesis,
`NobodyElseResets`: a reset of the same ledger by somebody else may remove the row that was
returned, and is meant to. `ConnectionImplementsLedger` maps the commit of a change, with all
its statements before it, to `Change` (`CommitIsChange`), that of a reset to `Reset`, and every other
step, crash and rollback included, to stuttering.

`AdminsProofs`, access. An errand may stop anywhere, so the invariant is about what is left of its
plan (`Sound`): an inbound is inserted after its panel was, and for an admin
who is active; an admin is deactivated after the last of its rows is revoked, and by an errand
that does nothing else. Each holds because it is done already or stands earlier in the same errand, so
it survives both a statement and a break-off. `Apart` says that two errands have nobody in
common who is not in `crossed`. Every plan the code builds is sound when it is built (`GrantSound`,
`SyncSound`, `RemoveUserSound`), one statement keeps its own errand sound (`RestSound`) and
everybody else's (`OtherSound`). `AccessAgrees` follows from `RowsHavePanels`, `AccessRemoves` from the
revocations that come first.

`ConversationsProofs`. Every step of each of the fifteen families does one of four things: it gives
the context a subject (`Asks`), takes it and clears (`Takes`), applies an answer (`Acts`) or
none of these (`Calm`); this is shown family by family. The invariant then needs four cases and not
eighty. `Accounted` is the strengthening of `AnsweredAsAsked`: answers applied, handlers
that have taken a question and the question still in the context, counted together, are no
more than what was asked. The arrival of a button is calm, and what its handler does later is not
tied to the context it arrived in, so nothing is claimed about a question that was cancelled before it was opened:
it is opened after the cancel, in the model as in the code (section 6). `QuestionHasItsSubject` needs to know in which families such questions
are put at all (`OnlyThere`), `SavedForItsTarget` that ticks and the admin they are for are
stored together (`TicksOfTarget`).

`ClientsProofs`. The invariant is about the calls a request has left, for every operation alike.
`Fits` says how calls follow each other: a mutation right after the read of the record it writes
back, two calls after the first read when its value is worked out from that, what enters a top-up
last, what gives out a uuid once. `PlansWhole` shows it of all sixteen operations, `RestFits`
that what is left of a plan that fits, fits. `Sound` then says what the request must have seen by
then: that what it read is still so, unless a second request is at work on the client (`UpToDate`),
and that what it will enter begins where the segments end that are there (`Billing`, with
`WithinTotal`: no segment goes beyond what the client has). `FreshKeys` is needed for all of it: a uuid
that is yet to be given out is nobody's, so a new client has no segments and a rotated one
none beyond its total. It is also what is left where two requests clash, and enough for
`RotatedKeyStaysDead`. TLC checked `ClientsInv` on the clients of `services` before.

`UsageProofs`. The invariant is about the calls that a round has left here too: `Follows` says
what must have come right before a call, and that what was stored is said and nothing comes
after the notices; every plan follows it (`KindsBegin`), and so does what is left of one
that goes on with its next call or, after a failure, with its next part (`TailFollows`,
`NextPartFollows`). `EndsAreTold` is about moments when no round is under way; `Knows` is what
holds at each call before: the row that a round read is the row that is stored until it stores
another, and then the user has been told or is to be told by this round. Services that were suspended with
nothing left count as ended there (`ToBeTold`): nobody is told a second time when they go on.
`FlushesApart` says that notices in hand are still in the queue, are undelivered but for the one
that is to be marked, and are in the hands of one flush, as long as no two overlapped. TLC
checked `UsageInv` on six small loads with two rounds before.

`ClientsProofs`, the quota. The quota of an admin is checked against a list of its clients, some
awaits before the new client is on the panel. `ClientsQuota` says how far this can be overrun, in
clients that were created after a count that was answered (`admitted`, by uuid: a client that is given a new
uuid is no longer one of them). The account that is inductive (`WithinQuota`) has the clients that an
admin has or may get back (`Claimed`: it was admitted for a uuid that the panel has *or that some request
has read and will write back*), and its creations past the check (`Creators`); together they exceed the
quota by no more than the other requests. The check may count fewer clients than are claimed, because another
request is about to write one back; but that request is then not a creation (`Ordered`), so what
the count misses is paid for by requests that are busy with something else. What the count goes by is the
comment: `Signed` says that wherever a uuid is met that an admin was admitted for, the comment names that
admin, `Tickets` that a uuid is promised to one creation until the client is there, and `OldKeys` that first
reads know no uuid that is yet to be given out. The rows, which the count itself rewrites on a legacy panel,
have no part in it, so listings and changes of owner are within the theorem (`SameKeepsQuota`). A gift puts
its giver into the comment: with gifts in the load `Signed` is lost, and the theorem, which says so in its
hypothesis, claims nothing. It is for admins that may have no parent: what an
admin creates under a parent is in the name of the parent, and does not count towards its quota at all (section 6).

`ServicesProofs`, the lemmas in front. Rules, tiers and segments are computed on by loops and sums,
and induction theorems that take an operator are of no use to the provers here. A set of naturals has a
least element, though (`LeastOf`, from the well-foundedness of `<`), and that is enough: a
smallest counterexample, in the length of a loop or the size of a set, is refuted. So every
loop of N rounds computes something (`IterationExists`), every finite sum exists and is
determined by its equation (`SumExists`, `SumUnique`), and the lemmas on
`SumFunction`, `SelectInSeq`, `InsertAt` and recursive functions follow.

Routing. `RoutingInv` says, as long as no two operations have overlapped (`mixed`): one request is at
work at most (`Alone`), the configuration that is about to be written back was read from what is there (`Fresh`),
what was added is there, and for each first choice its rule stands in front of every other rule that
matches the client (`Stands`, a statement without the word "first"; `StandsIsRoute` turns
it into `Route`). The work is in what the two pure functions do to a rule that stands: a rule of another
client is put where it cannot match this one; setting a default removes wide rules only, which
name no client, and inserts rules that match no client with an inbound of its own before, whatever
the number of rounds of the loop. TLC checked `RoutingInv` on 724,272 and 718,679 states (two requests at
a time, two clients, one and two inbounds).

Pricing. `DebtStaysAsAgreed` compares a sum over tiers with a sum over steps. `Priced` gives each
step the price of the tier it falls into; the sum of the tiers is that sum but for the
divisions (`TiersFit`). `PricingInv` then says that tiers are in order, end where something was
consumed, and that the steps at which the price in the row and the price that was agreed differ
(`Disputed`) are at most as many as were consumed while a change was being saved; the same up to
the snapshot a change holds, because what comes later is not yet priced (`SnapshotSure`). TLC
checked it on 2,378,712 states.

Summaries. `SummariesInv` types what is stored and what reports have read, and says that a cap
that was read is stored for good and that a report shows what was computed from its reads.
`BilledToOneOnly` and `ReportsAlwaysAddUp` then hold of any rows at all: the sums are
cardinalities of sets of steps, one for each segment; segments that are disjoint make the sets disjoint, two
scopes that are disjoint pick different segments, and all of them lie within what the client
has. TLC checked it on 117,082 states.

A parent that is left. `DetachesKeepUsage` has conditions, because without them `DetachKeepsUsage` is not true
of every family. TLC found two ways out. `_snapshot_existing_clients_for_parent` keeps segments for
the clients with the comment of the admin that moves and for no others: in a chain of three, what
the clients of the lowest have consumed is lost to the highest when the middle one leaves
(`OnlyLeavesMove` excludes the chain). And after a gift, or a top-up of a client of
one admin by another, segments may be in the name of an admin that moves later and takes them along
(`OwnTopUps` excludes these). Under both, `DetachInv` says that traffic is billed to those only who stay
(`Lasting`), and that an admin who has left a parent with a client of its own has left a segment. The
theorem is for any number of moves, top-ups, totals, tags, resets and summaries between. TLC checked
`DetachInv` and the property under the conditions on 47,373 and 15,252 states (three admins; six and seven
operations). The run `Services` has gifts and top-ups by others too, at its bounds.

Only model-checked. Liveness (`EveryCallerRuns`, `EveryRequestEnds`, `ChangesEnd`) is out of the
prover's reach. `ServicesTypeOK` collects the types of all services in one
formula; its parts for routing, pricing, summaries and access are theorems or conjuncts
of the invariants above (`RoutingTyped`, `PricingTypes`, `SummariesTyped`, `AccessTyped`).
Nothing is claimed of the quota where gifts are part of a load.

## 5. Plan

Order: what costs money first. Done:

1. `OperationGuard` with `Serializer`, proved.
2. `Wallets` over it, with `AtomicLedger`, proved.
3. `SharedConnection`, proved for calls that do not overlap.
4. `Hierarchy`: parents, their changes and the walks along them, proved.
5. `Dialogs` with its families and `Conversations`, proved.
6. `AccessRules`, `PanelClients` with the quota, `Usage`, `Routing`, proved.
7. `Pricing`, `Summaries`, proved; leaving a parent under the conditions in section 4.

Left, models: the tiers of allocated traffic against a reference definition, sessions with
panels, the sliding window, the scripts of the migrations.

## 6. Not modelled, and why

Handlers that only show something, keyboards, texts and dates: no state worth a property;
the same for the reports of sales, which only read. The copies of handlers in
`admin_access.py` 1439-1529 and `admin_clients.py` 846-1320 are never reached: other
routers take their updates first. Building and parsing of links and panel payloads: data
shaping. `calculate_charge` and the tiers of allocated traffic are arithmetic; `Wallets` takes prices as constants. Sessions with
panels only delay or fail a call, and any call may fail. `rate_limit.py` has no await
between its check and its update; `migration_runner.py` runs alone, before anything else.
`payment_service.py` is called by nothing, and `financial_store.py` is an older copy of the
repository that nothing imports. Placeholder ids for unknown usernames
(`delegated_access_service.py` 116) are outside `AccessRules`, which takes ids as they are.
Installer and scripts run outside the bot. Cancellation of a coroutine inside
`run_many`, which would leave the locks taken so far locked (the acquire loop is outside the
`try`), is not modelled: aiogram does not cancel handlers while it runs.

Met on the way and not the subject of a run: a question whose button was pressed before a cancel
(or a menu button) is opened after it, because its handler awaits the language, the admin check and the access to
the client first (`admin_provisioning.py` 1289-1306 and its like), and the next text is taken for
its answer; an answer that names a wallet may change the wallet of a question for an amount that was opened
meanwhile, or close it (`admin_finance_wallet.py` 54-63); the clients that an admin under a parent creates
have the parent in the comment, which the count for the quota goes by (`panel_service.py` 340, 468-484), so
they count towards the quota of the parent and never of the admin; a panel that does not answer counts as one
without clients (`delegated_access_service.py` 408); a listing of a legacy panel gives the rows of
those clients to the parent. All of these are behaviours of the modules. And, because nothing in the repository says
otherwise or no behaviour of the model shows it: updating any field of a profile puts a
suspended admin back to active (`is_active or 1`); an admin who was removed and is granted
access again stays locked out by the profile; the confirmation of a traffic reset
(`admin_client_detail.py` 270) raises before it reaches the service; a user who looks at an
ended service has it stored as ended, and then nobody is told of it; the selections of the
other pickers (groups, outbound grants, default locations, new delegates) are, unlike those
of "access", not safe against a toggle of an older keyboard; `Settings` has no `moaf_admin_ids`,
so that gifts are made only where something else provides them, while the tag "Moaf" may be
put on any client by hand; on the basis "consumed" an admin without a parent owes for all
that the panels have delivered, so two of them on one panel owe for the same traffic; an admin
created by one and put below another is in the scope of both; saving the same price of a GB again, to
change the price of a day or the tiers, erases the tiers that a "no" has made, because a stored
answer 0 is read as "nothing stored" (`financial_service.py` 245), and the past is owed at the
new price; a panel that does not answer while "no" is saved is passed over by the summary
(`provisioning_financial_summary_service.py` 218) and the tier ends too early (both are in
`Pricing`, as `spoilt`); a client with the tag "Moaf" or an exemption is in no summary of the
admins above it (line 46), so that a later top-up that was paid for is in none either, although
it is entered as a billable segment; when an admin that has others below it leaves its parent, what the
clients of those others have consumed is no longer in the summary of that parent, because only the
clients of the admin itself get a segment (`admin_provisioning_service.py` 369).

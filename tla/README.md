# Verification of ThunderCloud

TLA+ models of ThunderCloud, the software that runs a microgrid: it sells
electricity to customers on account, bills every meter reading, switches meters
on and off through a metering provider, and keeps the books.  The modules here
model what can go wrong between the steps of that program: workers, requests,
billing threads and provider callbacks that interleave, fail, time out and
restart.  TLC checks the models on small instances; TLAPS proves what matters
most for every instance.  Paths below are relative to `src/sparkmeter/`.

Contents: 1 the system, 2 the hard behaviours, 3 the modules, 4 the runs, 5 the
proofs, 6 disagreements between code and documentation, 7 what is not
modelled, 8 the plan.

## 1. The system

A *ground* is one microgrid.  The program runs on the ground (`HEROKU` false)
and in the cloud; only the ground processes transactions and readings.  The
database (PostgreSQL) is the state all parts share, and SymmetricDS copies it
between ground and cloud.

| component | source | state | operations | correct when |
|---|---|---|---|---|
| Payment ledger | `transaction/`, `controller.py`, `salesaccount/` | tables `wallet`, `transactions` | create, reverse, process, zero | each transaction moves its amount once or is rejected for a reason; one reversal; no overdraft; everything pending is settled |
| Billing | `billing.py`, `meter/meterdomain.py` | wallets, `meter_billing` (cycle, plan), `reading` | bill a reading: expire and buy plans, start cycles, price, pay, convert debt, notice low balances | money and energy are accounted for; a plan is paid once; a prepaid meter never owes; low balances are noticed |
| Tariffs | `tariff/`, `misc/intervalutils.py` | `tariff` | validate, find rate, period and cycle | each kWh and each hour has one price and one limit, the right one |
| Reading intake | `metering/events.py`, `controller.py`, `reading/` | the buffer of the consumer, `reading`, `meter_system_info.last_energy` | buffer, flush, save, bill, update | what is received is written; each reading is billed once; what is charged is what was measured |
| Metering runtime | `metering/lifespan.py`, `reconcile.py`, `dispatch.py`, `runtime_client.py` | asyncio tasks, the flags of the gateway, the queue of commands | start, consume, recover, reconcile, dispatch, stop | commands do not stay paused; the provider gets its meters back |
| Meters | `meter/` | `meter_config`, `meter_system_info` | switch, edit, create, remove, send set-config | the meter ends in the state the database wants |
| Registry of meters | `meter/`, `api/customerviews0.py`, `database/schemas/meterschema.sql` | `meter_view` with the tables below it, `meters_tags` | add and edit meters, customers, tags, by API and by page | an edit changes what it is about, and nothing else; a code names one customer, a row one tag |
| Events | `event/`, `tasks.py` | `event` | create, process | each event is acted on once, and has its alert once |
| Text messages | `event/eventdomain.py`, `event/alertviews.py`, `api/smsviews0.py` | `sms_config`, `sms_message`, `customer.phone_number_verified` | configure, hand out, mark, receive, verify | no alert is marked that nobody got; a number is verified only by who has it; an edit of the configuration changes one entry |
| Periodic jobs | `periodic.py` | none | every minute, every night | a failing job does not stop the loop |
| Provider settings | `config/` | a row of `config_parameter` with the list of drivers, a file per driver | register, edit, configure, init, activate | what is saved is what the driver has and what runs |
| Grounds | `ground/`, `system/` | the override of the meters | request, switch, end | the override last requested is in force |
| Sales account commands | `salesaccount/salesaccountcommand.py` | wallets | merge | money is conserved |
| Synchronisation | `database/sync.py` | SymmetricDS tables | configure | (external program) |
| Snapshots, history, dashboard, users, grounds, web | `snapshot/`, `history/`, `dashboard/`, `user/`, `ground/`, ... | rows | views and forms | (no state shared with the above beyond rows they read) |

How they interact:

```
 web/API request ──insert──► transactions ◄──process── once-a-minute loop, CLI
                                  │                          │
                                  ▼ locks                    ▼ locks
 provider ─SSE─► consumer ─batch─► threads ─bill─► wallet, meter_billing, reading
    ▲              │ lost, back        │                     │
    │              ▼                   └─ low balance ─► event ─► messages
    └─ reconcile, set-config ◄── queue of the dispatcher ◄──┘
```

The ledger and billing meet in the `wallet` table: both read balances, compute,
and write absolute values, kept apart by `SELECT ... FOR UPDATE`.  The consumer
hands readings to threads (`asyncio.to_thread`), so it shares no locks with
them.  The tasks of the runtime share only the flags of `metering_gateway_state`
and the provider itself.

What a meter should be told follows from rows that many requests write.  Some
send the command at once, some leave an event for the pass that runs each
minute; either way it goes through one queue in the memory of the process that
has the event loop, and its dispatcher.  The provider it reaches is the one that
the settings name: they are saved by request threads, while the runtime that
talks to it is built and torn down by coroutines of the event loop.

Alerts that events lead to wait in `sms_message` until the SMS gateway, an
external program, polls for them; what customers send it posts, and the reply is
in the response.  Every request works on rows that it read and commits later,
and so do those that add and edit meters: the session writes the columns it
changed, and behind `meter_view` a trigger of the database compares them once
more with what it is given and writes the tables of which the view consists.

## 2. Hard behaviours

* **Transactions in parallel.** The loop, the command `transaction process` and
  the zeroing of wallets all process transactions, while requests insert and
  threads bill.  Each pass works on a list of rows read at its start, holds the
  table lock for one row, then the row locks of the wallets with a timeout.
  A timeout or a crash abandons the pass anywhere.
* **Reversals of what is pending or reversed**: the check at creation looks at
  processed rows, so the one in `Transaction.process` must hold the line.
* **Boundaries of billing**: a cycle, a plan and a block may each end inside
  the energy or the time of one reading, readings come late, and the operator
  changes mode and tariff in between.
* **Two commits for one reading** (`controller.py:151` and after 154), batches
  written while new readings arrive, duplicates, lock timeouts.
* **Tasks that wait for each other**: the stream consumer cancels and joins the
  recovery task, either may reconcile, and events tell of a gateway that has
  changed since.
* **A provider without memory**: whenever it restarts every meter has to be
  registered again, and nothing tells the program of the restart directly.
* **Commands apart from the rows they follow from.** They leave before the
  transaction commits, may be computed from rows a session read long ago, are
  dropped where there is no event loop, are lost in a crash, and are skipped
  when the last reading makes them look unnecessary.
* **One database transaction for many events**, with a commit in its middle: a
  failure undoes part of what was done and repeats the rest.
* **What is asked changes without a request**: load limits go by the hour, and
  the edit of a tariff saves in one transaction and tells the meters in another.
* **Settings in two places**: the list of drivers in the database, their
  configuration in files, read, emptied and written without a lock by requests
  that overlap, with an external driver initialised in between.
* **Activations that overlap**: `ensure_metering_runtime` awaits the end of the
  old tasks, and anything may have happened to the state when it goes on.
* **Messages that are handed out and marked apart**: two polls overlap, an answer
  is lost, a post is repeated, a message from a number arrives while the number
  is being changed.
* **Rows checked and written apart**: columns of JSON are written whole, pages
  show what has changed since, tags are looked up by one request and inserted by
  two, codes are compared with those of others that have not committed.

`PROJECT.json` lists these as hazards, each at its line, with the properties
that would catch it going wrong.

## 3. Modules

In the order they were written.  "MC" modules give the constants their values.

| module | models | extended or used by |
|---|---|---|
| `Wallets` | accounts, wallets, transactions as records; `Settled`, `EnoughFunds`, `HasBeenReversed`, debt conversion | `LedgerSpec`, `Ledger` |
| `Charges` | the arithmetic of billing: payment, conversion, payback | `Wallets`, `Billing` |
| `LedgerSpec` | the abstract ledger: orders settled or rejected in one step | `Ledger` (refinement) |
| `Ledger`, `MCLedger` | the ledger with sessions, locks, queues, crashes | `LedgerProofs` |
| `Sums` | lemmas about sums over finite sets | the modules of proofs that need them |
| `LedgerProofs` | proofs about `Ledger`, the refinement of `LedgerSpec` among them | |
| `Tariffs` | validation, block rates, periods, cycle dates | `TariffUse`, `Billing` |
| `TariffUse`, `MCTariffUse` | readings that follow one another under one tariff | `BillingProofs` |
| `Billing`, `MCBilling` | `CalculateBilling.calculate`, purchases, changes of mode and tariff | `BillingProofs` |
| `BillingProofs` | proofs about block rates, `TariffUse` and `Billing` | |
| `ReadingIntake`, `MCReadingIntake` | buffer, timer, threads, two commits | `IntakeProofs` |
| `IntakeProofs` | proofs about `ReadingIntake` | |
| `ProviderLink`, `MCProviderLink` | one metering runtime | `LinkProofs` |
| `LinkProofs` | proofs about `ProviderLink` | |
| `MeterState` | the decision on relay and limit of one meter, and whether it is worth a command | `GroundOps` |
| `GroundOps`, `MCGroundOps` | requests, events, passes, commands, reconcile, restart | `GroundProofs` |
| `GroundProofs` | proofs about `MeterState` and `GroundOps` | |
| `DriverContract` | contracts, interfaces, config files of drivers: pure operators | `ProviderSettings` |
| `ProviderSettings` | registering, editing and configuring drivers | `DriverRuntime` |
| `DriverRuntime`, `MCDriverRuntime` | those, with the activations of the runtime they lead to | `DriverProofs` |
| `DriverProofs` | proofs about the three | |
| `SmsConfig` | the configuration of text messages and the requests that edit it | `Messages` |
| `Messages` | the queue of the gateway, incoming messages, numbers and their verification, beside `SmsConfig` | `OfficeProofs` |
| `Fleet` | meters, codes and tags, added and edited by API and by page | `OfficeProofs` |
| `MCOffice` | `Messages` and `Fleet` side by side, on small instances | |
| `OfficeProofs` | proofs about the three | |

### Ledger

| model | code |
|---|---|
| `wallet`, `tx` | tables `wallet`, `transactions` |
| `notices`, `zeroEvents` | rows of `event` created by processing, and unprocessed zeroing requests |
| `tableLock`, `walletLock` | `LOCK TABLE transactions` and the row locks of `process_transaction`, `process_reading` |
| `client` | a request between its checks and its `INSERT` |
| `pc`, `queue`, `cur`, `zeroing`, `seen` | a pass of `process_transactions`, and the balances its session has read |
| `bill`, `bseen` | a thread in `process_reading` |
| `CheckCreate`, `CheckReverse`, `Insert` | `create_transactions`, `Transaction.reverse` up to the insert, and the commit |
| `RequestZero`, `StartZeroing`, `CommitEvent` | the zeroing event, its transaction, the commit of the event |
| `StartPass` ... `EndPass` | the list of pending rows and the end of the pass |
| `LockTable`, `LockWallets`, `LockTimeout` | the locks in their order, and the timeout that abandons the pass |
| `Process`, `ProcessNotEnoughFunds`, `ProcessAlreadyProcessed`, `ProcessAlreadyReversed` | the outcomes of `Transaction.process`, each with its commit |
| `LockForBilling`, `CommitBilling` | `process_reading` as far as wallets go |
| `Crash`, `CrashBilling` | the process dies; PostgreSQL rolls back and drops its locks |

Abstracted: permissions, snapshots, memos and the set-config command that
follows a change of balance; money is an integer; a bonus is `amount * markup`
with markup 0 or 1; the cost of a reading is any of `Costs` here, and the
meters have tariffs without plans (the plan is `Billing`'s).  The guard of
`LOCK_WALLETS_ON_PROCESS` is a constant, as it is a setting.

`LedgerSpec` says what all this is for: an order is placed once, settled once
or rejected once; settling moves exactly its amount, in one step; a rejection
has a reason that holds at that moment; no order is reversed twice; otherwise
only billed readings move money.  `Ledger` implements it under the mapping of
`Abstract` (`settled` = processed or reversed), so no lock, queue, stale session
or crash shows through.

### Billing and Tariffs

`ProcessReading` is `CalculateBilling.calculate` whole, in the order of the
code: expire the plan, start a cycle, buy a plan, price the reading (block
average, then the first time-of-use period that covers it), pay, convert
negative credit to debt, pay debt back, expire, start a cycle and buy again a
second later, and note a low balance.  It is one step because `process_reading`
holds the locks of the wallets throughout.  `BuyCredit`, `SetState` and
`SetTariff` come in between.  `fees`, `spent`, `lapsed` and `bought` are not in
the database; they say where the money went.

Abstracted: one tick is an hour for tariffs and at the same time the second by
which billing steps across a boundary; months have one length; energy is whole
kWh, and prices are integers, so a cost needs no rounding (the code uses
decimals).  In `Billing` readings come in the order of their heartbeats; what
happens when they do not is `ReadingIntake`'s question.

`Tariffs` states the lookup functions as the code computes them
(`get_average_block_rate`, `superset_of`, `find_period`, the cycle dates) and
`TariffUse` compares them with a definition by the single kWh and the single
hour.

### ReadingIntake

The consumer is a coroutine: `Receive` (or `ReceiveAgain`, a resent reading)
puts a reading in the buffer and starts the timer, or flushes a full buffer and
waits; `FlushMarker` is a heartbeat event; `TimerFires` is `delayed_flush`,
whose batch the consumer does not wait for.  A thread takes the readings of its
batch one by one: `Save` (first commit, or a duplicate is dropped), `Lock` or
`LockTimeout`, `CommitBilling` or `FailBilling`, `UpdateMeter` (second commit).
Any other session may hold the locks (`OtherLocks`).  `Crash` empties buffer
and threads.  `overlap` is chosen at the start: whether readings may arrive
while earlier ones are being written.  Billing here means charging kWh.
`CommitBilling` and `UpdateMeter` belong to one call of `process_reading`; they
are two actions because the code commits between them.

### ProviderLink

| model | code |
|---|---|
| `up`, `roster`, `gateway`, `open`, `events` | the provider (external): does it answer, the meters it knows, its gateway, the stream |
| `start` | the first reconcile in `ensure_metering_runtime` |
| `sse`, `place` | `_run_sse_consumer`: where it is, and whether its reconcile is at the top of the loop or behind an event |
| `recovery` | `_recover_provider_after_gateway_loss` |
| `paused`, `needs` | `gateway_paused` (with `commands_allowed` cleared), `needs_full_restart` |
| `hasConnected`, `backoff` | locals of the consumer |
| `saw`, `requested` | the watchdog of `events.py` |
| `left` | the meters each reconcile has still to register |
| `overlooked` | history: did a loss happen that the code cannot notice |

A coroutine runs from one `await` to the next without interruption; that is one
step.  `Top`, `Connect`, `StreamBreaks` and `Wake` are the loop with its
backoff; `GatewayLost`, `GatewayBack`, `Joined`, `MetersRegistered`,
`RosterEmpty` are the events, each followed in the same step by the check for a
pending restart (`ThenRestart`); `SseInit` ... `SseEnds`, `RecoveryInit` ...
`Resume` and `StartInit` ... `StartEnds` are `reconcile_all` in each of the three
places that call it, which treat its failure differently.

Abstracted: the configuration of the driver is complete, so `init` is always
sent; registering a meter succeeds whenever the provider answers; `init` does
not change the roster; `gateway_connected`, which only words the log, is left
out.  The queue of commands is in `GroundOps`, the change of provider in
`DriverRuntime`.

`overlooked` needs a word.  The program never learns that the provider
restarted: it concludes so from a broken stream or from heartbeats without
meters.  `Noticed` lists when it can.  It cannot when the roster is lost before
the first event; during the reconcile of the start; during the recovery's
reconcile, whose end clears `needs_full_restart` (`lifespan.py:486`) and with it
the request made meanwhile; while the stream is not open and no restart is
pending, or the consumer is already reconciling at the top of its loop; or,
when the stream stays, before the watchdog has seen meters or after it has asked
for a restart.  Each of these is needed: take out any one of them and TLC finds
`RosterRestored` violated, so each is a gap of the code and not of the model.

### GroundOps

`MeterState` is the decision itself (`state_value`, `_maybe_send_set_config`,
`_needs_update`) over a record that stands for the rows of a meter; `GroundOps`
is everything that leads to it and follows from it.

| model | code |
|---|---|
| `db` | the committed rows: meters, override of the ground, terms of the tariffs (load limit of each part of the day, plan, daily limit), nominal voltage; and the part of the day |
| `edits` | the edits of tariffs under way: the row as it was read, the limit of that moment, whether it is saved |
| `events`, `pass` | table `event` with the alerts made for each; the pass of `process_events`, what it has drafted and what its session has read |
| `queue`, `listening`, `allowed` | `metering.dispatch`: the queue, whether a loop is registered, `commands_allowed` |
| `recon` | `reconcile_all`: owed, or sending the meters it loaded |
| `told` | the last setting that the provider took for a meter (external) |
| `SetMode`, `ResetMeter`, `EditMeter`, `CreateMeter`, `RemoveMeter` | pages, API and command line about meters |
| `RequestOverride`, `EndOverride` | `queue_override_meter_state` and the page that ends an override |
| `ReadTariff`, `SaveTariff`, `TellTariff`, `EditFails` | `update_tariff_from_form` up to its first commit, that commit, and the rest with `update_meters`, or its failure |
| `HourPasses` | another hour, as `get_current_load_limit` sees it |
| `ChangeVoltage`, `ProcessTransaction`, `RequestZero`, `Reading` | the other sources of change |
| `StartPass`, `HandleChanged` ... `HandleZero`, `Zeroed`, `PassEnds`, `PassFails` | `process_events` and the specs of the events |
| `Dispatch`, `Load`, `ReconcileNext`, `ReconcileEnds` | `command_dispatcher`, `reconcile_all` |
| `Pause`, `GatewayBack`, `Crash`, `Register` | the gateway, as far as commands go, and the process |

A request is one transaction and one step, but for the edit of a tariff.  That one
reads the row and the load limit in force, commits the columns that the form
changes, then compares the limit in force once more and sends commands to the
meters of the tariff if it is another; two edits may overlap, and a pass, a
reading or another hour may come in between.  The terms of a tariff stand for
the columns of its row that `state_value` and `get_current_load_limit` look at:
`limits` gives the same limit for every hour unless the limits are scheduled.
A pass is one transaction with a step per event; `HandleZero` commits in its middle, as `zero_balance` does.  Its
session may keep the rows it has read, or forget them when nothing refers to
them (the identity map is weak): both are tried.  The edit of a meter processes
its events before the form is saved (`meterview.py:142`), so its commands carry
the old values, and so they do in the model.

`gap` needs a word, as `overlooked` does above.  `CommandsFollowDatabase` says
that when nothing is under way the provider was last told what the rows ask for,
and it is not true of this program without exceptions.  `gap` holds the meters
for which the code has lost sight of a difference, and loses those that a later
command or reconcile sets right.  A meter enters it

* edited: the command had the old values;
* hidden, when an override begins or ends (`get_active_meters`);
* read: a reading that uses up the money, the plan or the energy of the day, or
  begins a new plan or day, sends no command;
* under a tariff whose limit is scheduled, when the hour changes it: nothing is
  sent;
* under a tariff that was edited, when the limit in force is what it was: a plan
  or a daily limit that the edit brings in or takes away switches the meter, and
  nothing is sent; nor is anything when the request fails between its two commits;
* paid for, or concerned by a voltage change, when `meter_system_info` says that
  nothing need be sent, but an unreported command says otherwise;
* changed by a request, or told by the edit of its tariff, while a pass has an
  override it has not committed;
* changed by the command line, whose commands are dropped;
* created or zeroed on rows of that kind;
* decided on by a pass from rows it had read earlier;
* refused a command, or sent an older one by a reconcile that loaded it before.

Each exception is needed: with any one of them left out TLC finds
`CommandsFollowDatabase` violated.  What remains is what the code does achieve:
the commands dropped before `register_loop`, lost in a crash, or held by a pause
are all made up for.

Abstracted: the balance on the display, unit conversions, registrations; alerts
are configured for every kind of event and the phone number is known; the limit
of a meter that is off does not matter; one reconcile at a time (`ProviderLink`
shows that those of the consumer and of the recovery do not overlap).

### ProviderSettings and DriverRuntime

`DriverContract` says what a driver tells of itself, which interface and target
follow, and what becomes of its config file, all without state.

| model | code |
|---|---|
| `saved`, `files` | the committed list of providers; `meter_driver_configs/*.json` |
| `requests` | per thread, the request it serves and the values it has read |
| `contract`, `configured` | the driver (external): its document, its last init |
| `intended` | history: the values that the operator last saved in each file |
| `Submit`, `Fetch`, `FetchFails` | the form and `save_provider_settings`: the contract, and the contract and the list once more |
| `Load`, `Save`, `Saved` | `_write_driver_config_file` reads the old file; opens it for writing, which empties it; has written and closed it, and `save_providers` removes the files of no provider |
| `Commit`, `CommitFails` | the list is committed, or not |
| `OpenPage`, `Post`, `Posted`, `InitDriver`, `WriteBack`, `Finish` | the page of the config file: `save_provider_config_text` opens and fills the file, `init_provider_from_payload` initialises the driver, opens the file again and fills it with the text that was posted |
| `running`, `registered`, `runtimes`, `ensures` | `app.state`, the loop of `dispatch`, the runtimes built so far, the calls of `ensure_metering_runtime` |
| `Begin`, `Cancel`, `Close`, `Clear`, `Build` | `ensure_metering_runtime` and `shutdown_metering_runtime` between their awaits |
| `Reconciled`, `ReconcileFails` | the end of that call |
| `Finish`, `Start`, `StartStops`, `Restarted`, `Crash` | the page's activation, the start with its init pass, that pass cut short while it writes a file, a driver that restarts, a crash |

Only the config page activates the runtime: registering or editing does not, so
`RuntimeFollowsSettings` compares with what the last activation saw (`asked`).
The start is one step, as requests are served only after it; the pass may also
end in the middle (`StartStops`).  A first call that fails ends the process and
is tried again.

No lock is held on a file.  A request reads it (`provider_settings.py:542`), opens
it for writing, and has its text in it when it is closed (567-569): three
moments, with other requests between them.  While a file is open it is empty,
and `Unreadable` to those that read it.  Who *holds* a file knows whether it has
it alone, shared with another that opened it meanwhile (then one text or the
other is there at the end, or a mixture that cannot be parsed), or swept away by
a request that removed it.  A crash leaves an open file as it is then.  Left out: deleting providers (no
operation does), the default values of a driver's fields, the status shown on
the page.

`gap` and `slips` name what the code is known to get wrong.  For a provider:

* *unsettled*: its driver awaits the next init (settings or file were edited, an
  init failed, another provider has the same driver);
* *stale*: the values in its file may not be the operator's.  A save wrote what it
  had read before a post (542, 567), an init wrote back a text after a newer one
  (868), two writes overlapped, a crash cut one short, or a save that had read
  the list earlier swept the file away (501).  It ends with the next post that
  meets no other write;
* *lost*: the fields of the file may not be those of the record, since it was swept
  away, filled in on a page opened before they changed, written back after a
  newer one, or written by two at once;
* *torn*: file and record come from different requests (988), or the commit failed
  after the file was written (1014).

For the runtime: *failed*, its first reconcile failed; *mixed*, settings
changed between its signature and its client (`lifespan.py:137`, 199);
*overtaken*, two activations overlapped in the shutdown, and the second
cleared what the first had filled (142), after which two tasks consume the
events of the provider.  All of them occur in the run.  Each is needed for the
property that names it, *mixed* only with a fourth request: the settings then
return to what they were when the signature was taken.

### SmsConfig and Messages

| model | code |
|---|---|
| `sheet` | the row of `sms_config`: commands, alerts and messages of the system, a column of JSON each |
| `editing` | a request between its read of the row and its commit, with the column as it will write it |
| `CreateEntry`, `UpdateEntry`, `DeleteEntry`, `SaveEntry` | the requests of `alertviews.py`, and their commit |
| `Updated`, `LastKeys`, `Assigned` | `SMSConfig.update`: what had the id goes, the key has the new values; and the attribute that its `setattr` sets in the end |
| `waiting`, `outbox`, `marked` | events not processed; outgoing messages; those with the mark *processed* |
| `customer` | number of the customer and the mark that it is verified |
| `poll`, `receipt`, `desk` | a poll, a post of the gateway, an edit of a customer, each between read and answer |
| `ProcessEvent`, `SendVerification` | `maybe_create_alert`, `verify_phone_number` |
| `ReadOutgoing`, `CommitPoll`, `AnswerPoll`, `LoseAnswer` | GET `sms/outgoing`, with or without marking |
| `MarkDelivered` | PUT `sms/mark-delivered` |
| `ReceiveSms`, `CommitSms` | POST `sms/incoming`, `handle_incoming` |
| `EditForm`, `EditApi`, `CommitEdit` | the page and the API, as far as the number goes |

`handed`, `lost`, `again`, `doubled`, `vouched` and the like are history: they say
how a message or a mark came about.  `behind` holds the edits whose column was
written since they read it, `crossed` the customers whose row changed under a
request, until the next one that crosses none sets the number or hears from it.  `MarkDelivered` is one step, as what it reads can only shrink before
its commit.  Abstracted: texts, the reply (it is in the response and stored with
its mark), listing, cost of messages.

### Fleet

| model | code |
|---|---|
| `meterRow` | the rows of `meter_view`: code of the customer, and one column that stands for the others |
| `tagNames`, `present`, `active` | `meter_tag`, `meters_tags`, and its column *active* |
| `work` | a request before its commit, with what it read and what it will write; or an open page |
| `AddApi`, `EditMeterApi` | `customer_add`, `customer_edit` of the API |
| `AddPage`, `OpenPage`, `PostPage`, `AnnounceMeter` | `add` and `edit` of the web; `finish_creation`, a commit of its own |
| `CommitWork` | the commit, with the trigger `meter_view_dml`, `meter_add_tags` and `meter_remove_tags` |
| `EndWork` | the request ends before or between its commits |

A tag of a meter that is taken off keeps its row.  The API makes such a row
itself, with an id computed from tag and meter; the trigger makes one with a
random id, so nothing in the database keeps two of them apart.  `cut`, `loose`,
`raced` and `crossing` name what the code is known to allow: a meter whose
creation ended between its two commits; a code that a page gave, which does not
check, or two requests at once; a tag that two requests added at once; a
request whose meter was written since it read it.

## 4. Runs

All runs use two TLC workers; the longest takes a little over three minutes.
`CHECK_DEADLOCK FALSE` stands where the system may stop: once the bounded
requests, readings and losses are used up there may be nothing to do (ledger,
billing, intake, ground, drivers, office), and the consumer of the provider link
may really end.
`Tariff_use` never stops and is checked for deadlock.
The type invariants (`TypeOK` and its like) are in no run: they are proved (section
5) for every value of the constants.

| run | checks | shows |
|---|---|---|
| `Ledger_concurrent` | `FreshView`, `OneReversal`, `MoneyConserved`, `ImplementsLedgerSpec` | loop, command, billing thread, crash, zeroing and reversals requested twice, a billed reading: no session writes a balance computed from a stale one, one reversal counts, no money is made or lost, every step is allowed by `LedgerSpec` |
| `Ledger_flows` | `NoOverdraft`, `PendingSettles` | sales, transfers with a bonus, debt payments, negative transactions: no account is overdrawn by paying, and every pending row is settled though passes are abandoned |
| `Ledger_reversed_parent` | `ReversedHasReversal` | violated, see 6 |
| `Billing_account` | `CycleEnergyCounted`, `CyclePricedByBlocks`, `MoneyAccounted`, `PlanBalanceRuns`, `PrepaidNeverOwes`, `PlanPaidOnce`, `PlanKeptUp`, `LowBalanceNoticed` | one account through cycles, plans, debt, mode and tariff changes |
| `Tariff_use` | `BlocksPricedByKwh`, `TouCoversReading`, `OnePeriodPerHour` | every valid tariff of up to three blocks or periods |
| `Intake_readings` | `NoReadingStranded`, `ChargedIsMeasured`, `BilledOnce`, `ReadingWritten` | three readings, two threads, one resent, one crash |
| `Intake_overlap` | `EnergyCharged` | violated when two threads write one meter's readings, see 6 |
| `Link_recovery` | `PauseWatched`, `OneReconciler`, `PauseEnds`, `RosterRestored` | losses of provider, roster and stream with gateway changes still queued |
| `Link_consumer` | `ConsumerLives` | violated, see 6 |
| `Ground_operations` | `CommandsFollowDatabase`, `OverrideFollowsRequest`, `AlertedOnce`, `EverythingHandled` | two requests of any kind about two meters and two tariffs, one of the meters possibly created later, edits of tariffs in their three steps, and a reading, another hour, refusal, failed pass or edit, pause or restart at any moment |
| `Driver_setup` | `ConfigKept`, `DriverFollowsConfig`, `RuntimeFollowsSettings`, `OneConsumer` | three requests from two threads about up to two registered providers, which overlap at every reading, opening and closing of a file, or which lead to two overlapping activations; an upgrade of the driver, a failure or crash |
| `Office_requests` | `OneEntryPerId`, `OnlyEditedChanges`, `MarkedIsHandedOver`, `VerifiedIsVouched`, `MappedOnce`, `TagsAsAsked`, `UntouchedKept` | requests that overlap: edits of the configuration; polls, confirmations and lost answers; posts and edits of customers; additions and edits of meters |

### Bounds, and why they are enough

* **Ledger**: one meter, one vendor, the system account; three transactions
  (five in the violation): a sale, its reversal and a rival for either,
  which is what a double reversal or a race between two workers needs.  Two
  workers and one thread give each pair of actors that share a lock; one crash
  can come at each of their steps.  One zeroing request can be tried twice,
  before and after a crash.  Amounts and costs of one or two units against
  balances of one or two make funds run out.  `ReversalRequests` leaves out the
  reversal of a reversal; with it, and five transactions, TLC finds `OneReversal`
  violated (see 6).  Transaction ids are symmetric; no symmetry is used with liveness.
* **Billing**: four readings, days of four ticks, months of two days: a gap of
  two stays inside a day and one of eight spans a month, so each boundary is
  met on a reading, inside one and skipped.  Zero or three kWh against blocks of
  two: a reading inside a block, over its edge, and none.  Three tariffs cover
  blocks, a monthly plan with blocks, and a daily plan with time of use.  One
  purchase and one change of setting can fall between any two readings.
* **Tariffs**: all periods of whole hours, all sets of up to three four-hourly
  periods, all sets of up to three blocks below 4 kWh, and readings that start
  at every hour, of one hour, four hours and more than a day, and energy up to five.  An explicit upper bound equal to the
  maximum leaves the energy above without a price; the property speaks of the
  energy below.
* **Intake**: batches of two and three readings give a full batch, a batch by
  timer and one by marker, with two threads at work.
* **Link**: two meters, so that a reconcile can be interrupted half-way; two
  queued events, so that an event is out of date when consumed; two losses,
  two gateway changes and a crash; a backoff of at most two shows its limit.
* **Ground**: two meters, so that an override treats one and not the other, and
  one can be created or removed.  Two requests, of every kind: a change and what
  overtakes it.  One trouble or reading or change of the hour, at each
  possible moment.  Two tariffs, one with a plan and a daily limit; a form asks
  for these, or for a limit of its own at night.  Two edits may be under way, so
  that each compares with what the other has saved.  Two load limits on either
  side of what the model of the meter allows at the one or the other voltage.
  The hours have one column of limits, the scheduled; a flat limit is the same in
  all of them.
* **Drivers**: each behaviour is about one matter (`matter` in `MCDriverRuntime`): the
  requests at the files, or the activations at the runtimes.  In the first the
  requests interleave at every step, with all the values of a file; all providers
  are enabled, and only the runtime of the start is there.  In the second the
  steps of a request at its file follow one another at once and there is one
  value to fill in, while activations interleave with each other and with
  saves; a trouble is a failed activation or a crash, and drivers are not
  upgraded.  Two providers on one
  driver, so that they compete for it; three
  contracts: gRPC with a required key, HTTP only, and one without all the
  routes, each of which an upgrade may bring.  Three requests let a registered provider be edited, configured and
  configured again, which two overlapping activations need.  Two values of the
  key tell an old text from a new one.  Threads, activations and values are
  symmetric.  `MaxRuntimes` is what two activations and an orphan can need, so
  it does not bound anything.
* **Office**: the matters share no variable but the configuration, which phones
  and queue read, so a behaviour is about one of them (`matter` in `MCOffice`) and
  the state spaces add up.  Two of every kind of request, since each hazard is
  a pair of them.  Two edits of the commands, one of which may be of another
  column, with one more id than there are entries; two events and one request
  to verify, two polls and an edit of the alerts; one external id, two
  customers and two numbers, and three requests (a post and its repetition
  around an edit, or two edits around a post); two meters, one code, one tag and
  three requests about them.

### Fairness

* **Ledger**: the loop starts a pass each minute whatever the last one did
  (`periodic.py:54-66` catches every exception), and a process that runs goes
  on: weak fairness of `StartPass`, `StartZeroing`, `Run` and `CommitBilling`.  None
  for requests, readings and commands, nor for any one outcome of a pass.
* **Intake**: the timer of asyncio goes off, threads run, and other sessions
  release their locks, since each commits or rolls back.  None for readings,
  resends or markers.
* **Link**: the event loop runs every task that can run, and each request has a
  timeout, so each task gets on; a provider that is up and connected sends
  heartbeats.  Nothing is assumed of the provider's or the gateway's return:
  the properties say what follows *if* both stay up (`<>[]Online`).
* **Ground**: the loop starts a pass each minute, a pass gets on with its events,
  the dispatcher and the reconcile are tasks of the event loop, the process is
  started again after a crash, and the gateway comes back.  An edit that has begun
  to save comes to its end, as a request does.  None for new requests, readings or
  hours.
* **Drivers**: none; the properties are invariants.

### Can the properties fail?

Before many definitions stands a second one whose comment begins "A faulty":
the same operator with a plausible bug (a dropped guard, an off-by-one, a reset
left out).  Put in place of the right one, each makes the property it is paired
with in `PROJECT.json` ("mutants") fail under the same configuration, so no
property holds only because the bounds never reach it.

## 5. Proofs

TLAPS proves what follows for every value of the constants: any number of
meters, accounts, workers, threads, readings, providers and requests, and no
bound on how long the system runs but those that the models name.  Every
invariant and every action property that a passing run checks is proved; what
is left to TLC is liveness.  The assumptions are those
named in the modules (`WalletsAssumption`, `LedgerAssumption`, and so on: types and
signs of parameters) and those given with a theorem here.

| module | theorem | of | where |
|---|---|---|---|
| `LedgerProofs` | `TypeCorrect` | `TypeOK` | |
| | `ViewsStayFresh` | `FreshView` | wallets are locked |
| | `ReversedOnce` | `OneReversal` | nobody reverses a reversal |
| | `Refines` | `ImplementsLedgerSpec` | both |
| | `FundsAreThere` | `NoOverdraft` | wallets are locked |
| | `MoneyStays` | `MoneyConserved` | wallets are locked |
| `BillingProofs` | `BlocksArePriced` | (`PricedByKwh`) | |
| | `EveryKwhIsPriced` | `BlocksPricedByKwh` | |
| | `TouAppliesWhereItCovers` | `TouCoversReading` | |
| | `LimitsAreUnique` | `OnePeriodPerHour` | |
| | `TypeCorrect` | `TypeOK` | |
| | `AllMoneyAccounted` | `MoneyAccounted` | |
| | `OnlyRunningPlans` | `PlanBalanceRuns` | |
| | `CycleIsCounted` | `CycleEnergyCounted` | |
| | `CycleIsPriced` | `CyclePricedByBlocks` | |
| | `PrepaidStaysPaid` | `PrepaidNeverOwes` | |
| | `PlansPaidOnce` | `PlanPaidOnce` | |
| | `PlansKeptUp` | `PlanKeptUp` | |
| | `LowBalanceIsNoticed` | `LowBalanceNoticed` | |
| `IntakeProofs` | `TypeCorrect` | `TypeOK` | |
| | `NothingStranded` | `NoReadingStranded` | |
| | `NeverBilledTwice` | `BilledOnce` | |
| | `MeasuredCharged` | `ChargedIsMeasured` | the counter moves on |
| `LinkProofs` | `TypeCorrect` | `TypeOK` | |
| | `PauseIsWatched` | `PauseWatched` | |
| | `ReconcilesAlone` | `OneReconciler` | |
| `GroundProofs` | `SkippedIsInForce` | (`NeedsUpdate`) | |
| | `TypeCorrect` | `TypeOK` | |
| | `AlertsOnce` | `AlertedOnce` | |
| | `OverrideAsAsked` | `OverrideFollowsRequest` | |
| | `CommandsFollow` | `CommandsFollowDatabase` | |
| `DriverProofs` | `ChosenGrpcIsAccepted`, `ChosenGrpcHasTarget` | (`Choosable`) | |
| | `TypeCorrect` | `TypeOK` | |
| | `ConfigStays` | `ConfigKept` | |
| | `DriverIsTold` | `DriverFollowsConfig` | |
| | `RuntimeIsAsked` | `RuntimeFollowsSettings` | |
| | `OneConsumes` | `OneConsumer` | |
| `OfficeProofs` | `ConfigTypeCorrect`, `MessagesTypeCorrect`, `FleetTypeCorrect` | `ConfigTypeOK`, `MessagesTypeOK`, `FleetTypeOK` | |
| | `IdsStayUnique` | `OneEntryPerId` | |
| | `EditsStayApart` | `OnlyEditedChanges` | no key is named like a column |
| | `ConfigurationBeside` | (`MessagesSpec => ConfigSpec`) | |
| | `MarksAreDeserved` | `MarkedIsHandedOver` | |
| | `RepeatsAreExplained` | (`HandedOutOnce`) | |
| | `PostsAreStoredOnce` | (`StoredOnce`) | |
| | `VerificationIsEarned` | `VerifiedIsVouched` | |
| | `CreationsAreAnnounced` | (`CreatedIsAnnounced`) | |
| | `CodesAreDistinct` | (`CodesDistinct`) | |
| | `TagsAreMappedOnce` | `MappedOnce` | |
| | `TagsComeAsAsked` | `TagsAsAsked` | |
| | `OthersAreUntouched` | `UntouchedKept` | |

In parentheses: what a theorem states that is in no run.  The four conditions:

* *wallets are locked*: the setting `LOCK_WALLETS_ON_PROCESS` is on, as it is by
  default.
* *nobody reverses a reversal* (`NoNestedRequests`): the page offers it, and
  section 6 says what it leads to.
* *the counter moves on* (`CounterMovesOn`): what the meter shows is above zero
  and does not go down.  `update_kilowatt_hours` charges nothing otherwise,
  whatever was used.
* *no key is named like a column* (`Keys \cap Columns = {}`): no command, event type
  or message type is called "commands", "alerts" or "messages".  Where one is,
  the theorem is false (see 6).

### The arguments

**Ledger.**  `TypeOK` is not inductive: a worker that settles a transaction needs
to know that its session has read integers for the wallets the transaction
touches, and that the transaction is in the table.  `TypeInv == TypeOK /\
Sessions` adds that, by where the worker is.

`FreshView` (what a worker or thread has read is still in the table when it
writes) needs `Locking`: a worker holds the table lock and the locks of the two
wallets of its transaction, a billing thread those of its meter's three.  This
is less than what a worker reads: for a customer's wallet it also reads the
meter's credit and debt, which it does not lock.  That is enough only because
another worker is kept out by the table lock, and a thread that bills the meter
by the one wallet of the meter that is locked (`NoSharedWallet`,
`NoSharedMeter`): so a write of the one cannot touch what the other has seen.

`OneReversal` needs `UndoneOnce`, that no reversal is ever marked reversed itself.
`has_been_reversed` looks at processed rows only, so two reversals of the same
row are kept apart just as long as the first stays processed.  That in turn
needs `Reversals`: a row that is a reversal, in the table or still in the request
that is about to insert it, moves back what its parent moved, and the parent was
applied and stays applied.

The refinement maps the steps one by one (`StepRefines`).  Those of `Insert`,
`Process`, `ProcessNotEnoughFunds` and so on are steps of `LedgerSpec`, the rest
stutter.  A settling step is the abstract one only because of `FreshView`: what
it writes was computed from what the session read.  And an order is settled
once only because of `Reversals` and `UndoneOnce`.  `NoOverdraft` is an action
property that needs `FreshView` and `Reversals`, and `MoneyConserved` a sum over all wallets
which each step changes by the cost of a reading or not at all.

**Tariffs.**  A reading starts within the first day, as the days before it are
forgotten, so one that is no longer than a day ends within the second.  Then
`t % TicksPerDay` is `t` or `t - TicksPerDay`, and the four comparisons of
`superset_of` are taken apart in three cases: a period within the day, across
midnight, and until midnight.  That the hours of `find_period` are the intervals
of validation is said for one period (`HoursAreIntervals`), and that there is one
at most follows from their not overlapping.

**Billing.**  The price of a reading by blocks is first brought to a form without
cases, the share of each block in it (`Share`); shares add up when readings meet
(`ShareAdds`), which the price kWh by kWh does as well (`PriceByShares`).
`BlocksArePriced` follows, for any blocks that pass validation and any reading;
`EveryKwhIsPriced` says it of the behaviours of `TariffUse`, whose readings keep to
the amounts and the blocks that it assumes (`ReadingStartsToday`).  Each operation on the account has a
lemma that says what it returns (`PayReadingResult` ... `CalculateResult`), where
`Charges` keeps money accounted for.  The invariant `AccountInv` adds that cycle
and plan have been renewed up to the last reading: without that a reading could
be charged to a plan that was over before it.  `CycleInv` speaks of every tariff
that a cycle may have been under, since a tariff may be changed and changed back
in the middle of one; `NoticeTold` of the reading for which the last event was
created.

**Intake.**  `NoReadingStranded` holds together with `TimerRuns` (the timer runs just
while something is in the buffer).  `BilledOnce` needs `Claims`: no two threads have
saved the same reading.  `ChargedIsMeasured` needs the order: when readings do not
arrive while others are written, one thread writes at a time (`OneAtATime`), and
what was measured before a reading is in the table or ahead of it (`Ordered`), so
the meter's last energy is that of the reading before (`Charging`).

**Provider link.**  Both theorems follow from `Handover`, which says who owns the
pause: a recovery at work implies `paused`; a consumer that joins implies `paused`
and that the recovery no longer works; a cancelled recovery implies a consumer
that joins; and a consumer that reconciles implies that nothing is paused.
Without `Handover` neither is inductive: `Resume` and `Joined` both clear `paused`,
and only the ownership says that the other task is not relying on it.

**Ground.**  `SkippedIsInForce`: when `_needs_update` finds no command worth sending,
what the meter last reported amounts to what the rows ask for.  So a command
that is left out is missed only where the meter was told something after its
last reading, which is the exception `Unsure` makes.  The three properties speak
of moments when nothing is under way; the invariants say what holds in between.
`AlertInv`: what a pass has in hand is not processed, and an event that zeroes a
wallet has its alert as soon as the session commits in the middle.  `OverrideInv`:
a pass that has written the override has the event about it in hand, and while
requests do not overlap there is one such event at most.  `FollowInv`: each meter
that the code has not lost sight of will have been told the right thing once the
queue is empty (`Right`), or an event that will send it a command is not in hand
yet (`Covered`), or the reconcile is still to come to it (`Owing`), or an edit of
its tariff is saved and has still to tell it (`Editing`).  What is right depends on
the row, the terms of its tariff and the limit of the hour (`WantedKept`), so only an
edit and an hour change it for meters whose rows stay; the one leaves every
meter of the tariff `Editing`, and its last step sends each a command, or leaves it
to `gap` if it is not right.

**Drivers.**  `ChosenGrpcIsAccepted`: after `check_grpc_selection`, whatever the
operator fills in, a config that validates has all that an init over gRPC needs;
`ChosenGrpcHasTarget`: nor is a target missing, as long as the driver advertises
what it did or cannot be asked.  The invariants are of what the requests hold
between their steps at the files.  `HeldInv`: a request that writes a file whose
fields are not lost has it alone.  `KeptInv`: while its values are not *stale*, a
file has the operator's, or one request writes it, alone, and will put them there;
and every provider in a list that a request has read, or will save, has a file or
lost it.  `SuitedInv`: the file, and what a page is writing to it, suit the
interface of the record but while a request has written the one and not the other;
`ToldInv`: the driver was told what the file says, and what will be written to it
with the outcome of the init, unless it awaits its next init.  `Cancelled`: the runtime that an activation
has cancelled gets no tasks again until the activation is over, since its number
is not used again; from this `OneConsumer`.  `FollowInv`: when no activation is
shutting a runtime down, the current one is that of the provider which an
activation last found enabled, with its settings (`Serves`).

**Configuration of messages.**  `OneEntryPerId` is inductive only with the columns that
requests hold: `EditsDistinct` says that no id is twice in any of them, which
`Updated` keeps whatever entry it is given.  `EditsFresh`: an edit that is not behind
holds just the update of the column as it is now, so what its commit changes is
what `Updated` changes.  `EditsStayApart` needs that `setattr` hits the column
itself: the last key is then no column, and the hypothesis is exactly that.
`ConfigurationBeside`: each step of `Messages` is an edit or leaves the
configuration alone, so both theorems hold of `MessagesSpec` too.

**Messages.**  `QueueInv` speaks of what polls hold.  `PollsMark`: a poll that has
still to commit is one that marks; `HeldIsKnown`: what a poll that is done holds,
and what the gateway has, is marked or shared, so that no later poll reads it
unless it is shared; `TwiceIsShared`: what a poll holds is with the gateway
already, or held by another poll, only if it is shared.  With
these an answer adds to `again` nothing but shared messages, and a commit to
`marked` nothing that is not in a response.  `PhoneInv`: two posts of an id that are
under way are *doubled* (`PostsOnce`), and an edit by a page keeps a mark only with
the number that had it (`EditsMade`), so a mark and a number that do not belong
together can only meet by a commit over a row that changed (`crossed`).

**Registry.**  The three invariants and the two action properties speak of rows; the
rest of `FleetInv` is about requests.  `RowsExist`: a row of a tag, a row to be
turned on and an open page are of a meter that is there, so a new meter starts
without tags.  `OthersKept`: a request that is not about a column has it as it
read it, so the trigger's comparison leaves the column alone, whatever others
wrote; `OthersAreUntouched` follows, pages included, since a page is about every
column that has changed since it was opened.  `CodesReady` and `MappingReady`: a code
or a row of a tag that is about to be written is still free, or another request
is about to write it too and it is *loose*, or *raced*, already; each commit turns
this into the property about rows and must keep it for the requests that are
left.  `TagsReady`: unless its meter was written since, the tags that will be
active after a request's commit (`Wanted`) are those it was asked for; the two ways
of writing tags, by the API and by the trigger, are brought to one form first
(`Tagged`, `TaggedWanted`).

**Sums.**  What is charged or owned in all is a sum over a finite set, which the
library defines by recursion in an order that CHOOSE picks.  Its lemmas (adding
an element, changing a value, leaving out zeros) do not follow by the induction
theorems, which take an operator as a parameter; they are proved by taking a
smallest set for which they fail (`SmallestSubset`), or a smallest number
(`SmallestNumber`, for `PriceByShares`).

### What the proofs corrected

* In the driver modules the variables that record what the code gets wrong were
  too weak for more requests than the run has.  *Lost* must count every file
  that a sweep removes, not only those that the saved list needed, as the
  provider may be saved again.  *Unsettled* must be set by a commit of its own
  record.  `asked` is what an activation reads, also when it keeps the runtime it
  finds.  Each was found by a step of the proof that failed, and with the
  change the run still passes and its mutants still fail.
* `TouCoversReading` said that a reading which a period covers is always found to
  be in it.  A reading longer than a day in an all-day period is not:
  `superset_of` looks across one midnight only.  The run had no such reading; now
  it has, and the property excludes it.
* `BlocksPricedByKwh` is split, so that what it says of blocks (`PricedByKwh`) can be
  proved of all of them, and the assumption of `TariffUse` says of the blocks of a
  proposal what `PricedByKwh` needs: numbers, and finitely many.

### Model-checked only

* Liveness, which is out of the prover's reach: `PendingSettles`,
  `ReadingWritten`, `PauseEnds`, `RosterRestored`, `EverythingHandled`.
* The runs that find a violation, which are about single behaviours.

## 6. Where code and documentation disagree

With a run that shows it:

* `Ledger_reversed_parent` (`transactiondomain.py:724`): a reversal that fails for
  lack of funds has already marked its parent reversed, and the error is
  committed with that mark.
* `Intake_overlap` (`controller.py:154`): two threads can bill the same energy.
* `Link_consumer` (`lifespan.py:344`): the consumer ends for good when the provider
  is still down after the first pause.

Met while modelling, without a run of their own:

* `transactionview.py:156`: a reversal may be reversed through the page, which the
  API refuses.  It is then no longer processed, the check against double
  reversals forgets it, and another pending reversal of the same transaction
  goes through, against the comment at `transactiondomain.py:716-717`.  With
  `"reversal"` among its `ReversalRequests` and five transactions `Ledger_concurrent`
  finds `OneReversal` violated.
* `eventdomain.py:315`: the loop of `SMSConfig.update` reuses the name of its
  parameter, so `setattr(self, name, objects)` (321) sets the attribute named after
  the last key.  Where a command has the code "alerts" and is the last key, an
  edit of any command replaces the alerts by the commands, against the
  docstring (301).  With such a code among `Codes` TLC finds that an edit changes
  another column.
* `meterschema.sql:56`: `meter_add_tags` inserts into `meters_tags` without an id, so
  that two requests make two rows for a tag of a meter, against the comment at
  `models.py:41` that mapping tables need a computed id; `MappedOnce` excludes them.
* `customerviews0.py:145`: the code of a customer is looked up and written later,
  and the web does not look at all; with two of a code the lookup raises
  (`loose` in `Fleet`).
* `meterview.py:107`: a meter added by the web has its event in a second commit
  (`cut` in `Fleet`).
* `smsviews0.py:87`: a message posted again before the first post commits has two
  rows (`doubled` in `Messages`); and the reply to a post is only in its response,
  so that a customer whose response is lost gets none.
* `transactiondomain.py:597`: the check that an `external_id` is new and the insert
  are two steps with nothing to keep two requests apart, though line 524 says it
  must be unique.
* `eventspecs.py:587`: the amount of a zeroing transaction is read before the lock
  is taken; a reading billed in between stays in the wallet.
* `tariffdomain.py:797,804`: after an outage longer than the time a period leaves
  out, `superset_of` takes the reading to lie in the period, against the comment
  at `billing.py:67-68`; `TouCoversReading` excludes it.
* `billing.py:266`: the heartbeat's end is compared with the time the event was
  created, so a reading processed late does not count as "above the threshold
  since the last event" (comment at 263-264); `LowBalanceNoticed` excludes it.
* `tariffform.py:74-76` says that a daily plan lasts until the start of the next
  day; `tariffdomain.py:249-251` makes it last 24 hours.
* A plan's balance survives a switch to a tariff without a plan, until the next
  reading under one with a plan.
* `controller.py:154`: a crash between the two commits charges the reading's
  energy again with the next; `ChargedIsMeasured` excludes crashes.
* `lifespan.py:486`: a restart requested during the recovery's reconcile is
  forgotten.
* `lifespan.py:420`: on a "connected" event commands are allowed before the
  reconcile, unlike in the recovery and its docstring (455).
* The reconcile behind an event is awaited in the consumer, so the stream is not
  drained meanwhile, though `reconcile.py:15` says it is: only the database work
  is in a thread.
* `runtime_client.py:256-258` says that nothing is derived from the HTTP base URL
  and that a driver without a grpc interface has no target.  When a driver that
  was registered over gRPC no longer advertises it, `_apply_selected_interface`
  falls back to the http interface (`provider_settings.py:1109-1113`), whose
  `address` is that URL, and `_grpc_target` takes it, before the target that was
  saved (`TargetInUse` in `DriverContract`).
* `get_enabled_provider` returns the first provider when none is enabled, and the
  start initialises all of them: a disabled driver is still run.
* `save_provider_settings` writes the config file before anything is committed,
  and two saves at once undo each other's records and files (`Saved`, `Commit`).
* `provider_settings.py:542` reads a config file that 567-569 writes over later, and
  an init writes a text that was posted earlier (828, 860-868), with no lock: the
  operator's newer values in between are overwritten, though line 565 and the
  docstring of `_load_existing_driver_config` mean to preserve them; two writes may
  leave a text that cannot be parsed; and a crash inside a write leaves an
  empty file, which is read as one without values (520-521).  `ConfigKept` excuses
  this as *stale*.
* `meterview.py:142` processes the event of an edit before the form is saved: the
  command repeats the old mode and tariff.
* `meter send-config` (`metercommand.py:170`) runs without an event loop, so that
  its commands are dropped (`dispatch.py:60`).
* `grounddomain.py:88` says that the override keeps meters from being turned off;
  the code turns them off (`metering/` and `MeterState` agree on that).
* `meterdomain.py:127` says that a phone number is verified with a CHECK message, and
  so do `eventdomain.py:476` and the text sent to the customer (501-513); but
  `handle_incoming` verifies the sender of any active command (880-892), before it
  looks at what the command does.  `VerifiedIsVouched` says what the code does.
* The docstring of `handle_incoming` says that `IncomingMessageReplyError` is raised
  if the customer is not verified (`eventdomain.py:901`); nothing raises it for
  that: a customer who was not is verified by the message itself.
* `eventdomain.py:501-513` says that the message to verify a number is sent when
  the number is added; it has no event, and `get_outgoing` (688) hands out only
  messages that have one.
* `meterdomain.py:1208-1210` gives a scheduled load limit that crosses an hour as
  an example of what `send_set_config_based_on_system_info` takes care of, and
  1225-1233 says that incoming readings send what they show to be wrong.  Nothing
  calls the first when the hour changes, and readings are processed with
  `update_meter_state=False` (`metering/events.py:282`): the limit of the new hour
  reaches the meter with the next command that something else causes, or a
  reconcile (`HourPasses` in `GroundOps`).
* `tariffutils.py:54-58`: the edit of a tariff tells its meters only if the load limit in
  force is another than before.  An edit that brings in a plan or a daily limit,
  or takes it away, changes what `state_value` (`meterdomain.py:962-990`) makes of them,
  and sends nothing; nor does anything when the request fails after the first
  commit (30) and before the second (63) (`TellTariff`, `EditFails`).
* `eventdomain.py:843` logs that a customer lacks a verified number; the code
  only asks for a number.
* An event about a meter that was removed makes each pass fail from then on
  (`Poison` in `GroundOps`).

## 7. Not modelled

| what | why |
|---|---|
| Texts of messages, replies, the list of messages | wording and display |
| The recovery task that outlives its runtime (`lifespan.py:87`) | `ProviderLink` has the task and one runtime, `DriverRuntime` the runtimes and no such task: planned, 8.1 |
| Merge of two sales accounts | planned, 8.2 |
| Fields of a driver's config beyond blank, good and wrong | the types and patterns are checked value by value, without state |
| Parameters other than the voltage and the list of drivers | read where they matter as constants of the modules |
| Types and models of meters, the provider of a meter, the other columns of `meter_view` | one column stands for them in `Fleet`; commands refer to them |
| Synchronisation of ground and cloud | done by SymmetricDS; the code only writes its configuration |
| Snapshots, dashboard, history, users, permissions | rows for display, or who may do what: the models allow each request some user may make |
| Routing, forms, templates, migrations | no state of their own |
| Lengths of months, rounding of decimals, time zones | the properties do not depend on them; the model has equal months and integers |

## 8. Plan

Done, in the order of importance: the ledger with its abstract specification
and first proofs; charges, tariffs and billing; intake; the provider link with
its proofs; commands, events and passes of the ground; drivers and their
runtimes; text messages and the registry of meters; the proofs of all of these.
Left:

1. `ProviderLink` composed with `DriverRuntime`, for tasks left behind.
2. `AccountMerge` against the ledger.
3. That `Noticed` and the `gap`s are needed, as counterexamples in runs.

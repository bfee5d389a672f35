# BabelTrader in TLA+

BabelTrader puts one JSON-over-websocket protocol in front of several brokers and exchanges:
CTP and XTP (C++), OKEx (Go). Each gateway is a process of its own. Upwards it listens for
clients; downwards it keeps one session with a trading API that answers on threads of its own,
in an order of its own. Nearly everything that can go wrong is in between: which client asked,
which id belongs to whom, what has been told already, what the session was when it was looked at.
These modules model that middle.

## 1. Inventory

| Component | State it keeps | Operations | Modules |
|---|---|---|---|
| OKEx trade gateway, orders (`babeltrader-okex-v3-trade`, `order_cache_manager.go`) | `OutsideOidMap`, `OrderTradeCache`, the hub's channels | insert, confirm, status, clean | `OkexTrade`, `OrderFeed`, `OkexProofs` |
| CTP trade gateway, orders and session (`ctp_trade_handler.cpp`) | `wait_deal_orders_`, `outside_order_maps_`, `tunnel_`, `api_ready_`, `ctp_front_id_`, `ctp_session_id_`, `req_login_cnt_` | insert, cancel, notifications, cleaning; authentication, login, retries | `CtpTrade`, `CtpTradeProofs`, `CtpLogin`, `ServiceProofs` |
| CTP trade gateway, queries (`ctp_trade_handler.cpp`, `query_cache.cpp`) | `req_id_`, `qry_ws_cache_`, one cache per kind of query, `rsp_qry_*_caches_` | nine queries and their results | `CtpQuery`, `CtpQueryProofs` |
| XTP trade gateway (`xtp_trade_handler.cpp`) | `order_ref_`, `req_id_`, `wait_deal_orders_`, `api_ready_`, `xtp_session_id_`, the query caches | insert, events and errors, queries and results, `Reconn` | `XtpTrade`, `QueryPromise`, `XtpTradeProofs` |
| Websocket service (`ws_service.cpp`, `trade_service.cpp`) | `ws_set_`, `msg_tunnel_` | connect, disconnect, message, dispatch, answer, broadcast | in `CtpQuery` and `XtpTrade` |
| CTP quotes gateway (`ctp_quote_handler.cpp`, `http_service.cpp`) | `sub_topics_`, the session with CTP | subscribe, unsubscribe, login, loss of the connection | `CtpQuote`, `CtpQuoteProofs`, `QueueLemmas` |
| XTP quotes gateway (`xtp_quote_handler.cpp`, `http_service.cpp`) | `sub_topics_`, `topic_exchange_`, the session with XTP | the same for three streams, `Reconn` on the callback thread | `XtpQuote`, `XtpQuoteProofs`, `QueueLemmas` |
| Kline builder (`kline_builder.cpp`) | one kline and the volume it began with, per instrument | add, del, update | `KlineBuilder`, `ServiceProofs` |
| OKEx connection and channels (`trade_api.go`, `quote_api.go`, `okex_quote_service.go`, `client_service.go`) | the peer, the map of channels, `ByteMessageChannel` | dial, login, subscribe, unsubscribe, end of a connection | `OkexChannels`, `OkexProofs`, `QueueLemmas` |
| Peer and message linker (`peer_msg_linker.go`) | peers and the messages they wait for | add, delete, cache, get, clean | not modelled |
| Conversions of the trade gateways and of OKEx (`Convert*` of the handlers, `converter.cpp`, `utils.go`) | none | orders to and from a market, cancels, ids, channels | `OrderText`, `CtpConversion`, `XtpConversion`, `OkexConversion`, `Conversions` |
| Configuration, entry points, demo clients, vendored headers | none that outlives the start | | not modelled |

### How they interact

* **Threads.** A C++ gateway has the hub's thread (uWebSockets), the *message loop* which takes
  `msg_tunnel_` one message at a time, the *callback thread* of the broker's API, and `AsyncLoop`,
  which takes `tunnel_` in batches. They share plain members of the handler: `api_ready_`,
  `req_id_` and the session ids have no lock; `wait_deal_orders_`, `msg_tunnel_`, `tunnel_` and
  the query caches have one each.
* A Go gateway has a read goroutine per connection (also one for OKEx's), a ticker and one hub
  goroutine; they talk through `Hub.ObjectMessageChannel`, which blocks when it is full.
* **Identity.** A client names its order with `user_id`, `order_id` and `client_order_id`;
  the exchange with an id of its own. `confirmorder` ties the two; `orderstatus` and `orderdeal`
  carry the first only as far as the gateway remembers it.
* **Time.** Finished orders are kept for 60 seconds and then cleaned.

### What is hard, and what makes each part correct

* *Orders (OKEx).* Confirmation and statuses of one order come through different goroutines.
  No status before its confirmation, each status once and in order, no foreign ids, nothing
  forgotten that is not finished, every insert answered.
* *Orders (CTP).* Two threads confirm, a third may change the session between a check and a use.
  One confirmation at most, own ids only, an id forgotten only when its order is over.
* *Orders (XTP).* The session is renewed on the callback thread between any two lines of
  `InsertOrder`; events of other programs come with references of theirs. One confirmation, own
  ids, an error only for an order that is not at the exchange.
* *Queries.* A request id is the only link between a client, its query, the rows collected
  and the answer; at CTP two threads draw the ids from an unprotected counter. The asker gets its
  own result once; nothing stays cached; every query ends in a result or an error.
* *Login (CTP).* A detached thread retries a refused login after a minute, whatever became of the
  connection. Ready only in the session that was granted; no end before the retries are made.
* *Quotes.* What is subscribed upstream after a reconnect is what clients subscribed: callbacks,
  requests and the loss of the connection cross each other in every order.
* *Klines.* Open, high, low and close are those of the minute the kline names, its volume what was
  traded in it. The code keeps this for the open and close, and for the volume within a trading day; not
  quite for high and low (section 5).
* *Conversions.* Three tables of directions, written three times in both ways: what a client means,
  what the market does and what everybody is told must be the same; the end of an order must be told.
  A topic that is listed must be the one that was subscribed.

`PROJECT.json` lists every hazard at its line with the properties for it.

## 2. Plan

Each trade gateway came before its quotes gateway, state before text: `OkexTrade` with `OrderFeed`,
`CtpTrade`, `CtpQuery`, `KlineBuilder`, `CtpQuote`; then `XtpTrade` with `QueryPromise`, `XtpQuote`,
`OkexChannels`, `CtpLogin`, the conversions; and the proofs of
each model that is small and regular enough, after TLC had agreed.

* Abstract specifications: `OrderFeed` (what is broadcast of an order), `QueryPromise` (what a
  client gets for a query). The detailed modules are shown to implement them.
* `Conversions` composes the three conversion modules with a market and a client; `CtpQuery` and
  `XtpTrade` compose the message loop of `WsService` with the handler.
* One run per component, its safety and liveness on one instance. Minor invariants are named parts
  of one `Inv`.

What could come next: the time stamps of CTP quotes as arithmetic over the moments of a night
session, the peers' send queues of the Go hub.

## 3. The modules

Where a proof module extends several models, the names they would share bear the model's name:
`ChannelsInit`, `LoginNext`, `ConversionsSpec` and so on. Elsewhere it is `Init`, `Next` and `Spec`.

### `OkexTrade`

| Model | Code |
|---|---|
| `pc[o]`, `ret[o]` | where `ClientService.InsertOrder` stands for request `o`, and its local outside id |
| `owner`, `book`, `log` | OKEx: whose an id is, whether it is open, the statuses it sent |
| `objCh`, `ChanCap` | `Hub.ObjectMessageChannel` and its capacity |
| `cache` | `OutsideOidMap`; `ts` is the stamp of a finished order, 0 before |
| `parked` | `OrderTradeCache` |
| `confirmed`, `refused`, `feed` | what was broadcast |

`InsertOrder`, `RestReturn` and `PushConfirm` are the three points at which other goroutines can
come between the lines of `InsertOrder`: before the REST call, after it, and after the push.
`OnOrder` is the websocket goroutine's push. `OnHubObjectMessage` and `OnTimerTicker` are the hub
goroutine's steps and run to the end before the next, as in the code. `RestReturn(o, NoOid)` is a
2xx reply that carries no order id: `HttpRequst` and `InsertOrder` look at the HTTP status only.

`OrderFeed` says what clients are promised, with no threads, channel or cache in it;
`ImplementsOrderFeed` maps `Receive` to `OnOrder`, `Confirm` to a confirmation with its replay,
`Publish` to an immediate status.

### `CtpTrade`

| Model | Code |
|---|---|
| `req[o]` | where `CTPTradeHandler::InsertOrder` stands |
| `ready`, `session` | `api_ready_`; `ctp_front_id_` and `ctp_session_id_` as one value |
| `wait` | `wait_deal_orders_`, by order reference and session |
| `tunnel`, `batch`, `cnt` | `tunnel_`, what `AsyncLoop` still has to do of its batch, its counter |
| `maps` | `outside_order_maps_`, `ts` is `completed_ts` |
| `link`, `logins`, `sent`, `book`, `told`, `notified` | CTP itself |

`CheckReady`, `RecordOrder`, `ReqOrderInsert` are separate steps because the callback thread runs
between them. A CTP status and submit status are the enumerators; `ConvertOrderStatus` and
`ConvertOrderSubmitStatus` translate them as the code does. `OnRspOrderInsert` broadcasts a
`confirmorder` whether it finds the record or not: `confirms` counts those that carry the client's ids,
`unnamed` has the orders of which one went out without.

### `CtpQuery`

`req_id_++` is a read and a write on each of the two threads (`LoadReqId`/`StoreReqId` and
`SpiLoad`/`SpiStore`), and `CacheQry` and the request read `req_id_` independently. `raced` is a
history variable, true once the two overlapped; the safety properties are stated for runs in which
they did not; in the others they are false (section 5). `FoundWs` is the value of the
uninitialised local `ws`: any pointer when the id is not in the cache. Connections are pointers,
which are reused. All nine queries have the same code but for the kind, hence one parameter
`Kinds`; `query_tradingday` has no request and is apart.

### `KlineBuilder`

| Model | Code |
|---|---|
| `caches[k]` | `caches_`: no entry, `last_update_local_sec` 0 (`"new"`), or a `start_vol` and a kline |
| `result` | what the last `updateMarketData` returned |
| `bar`, `prev` | history: the ticks of this minute and of the last |
| `traded`, `began` | history: what was traded since the last tick of the minute before, and whether a trading day began since |

Its actions are `add`, `del` and the four ways through `updateMarketData`, which runs on one thread.
A time stamp is the number of its minute, `DayMinutes` of which make a day; `MinuteUpdate` compares
modulo that, as `tm_hour` and `tm_min` do. `Follows` is what an exchange can send next: the
volume goes up during a trading day and starts again at the `OpenMinutes`. The properties compare
klines with `bar`, `prev` and `traded`, that is with the open, high, low, close and volume of a minute
as one would define them; `traded` adds up what the exchange traded between ticks (`Traded`), not what
the builder subtracts.

### `CtpQuote`

| Model | Code |
|---|---|
| `sub_topics[t]` | `sub_topics_`: no entry, `false` (`"off"`), `true` (`"on"`) |
| `klines` | the keys of `kline_builder_` |
| `http` | the REST request whose call of the API has still to be made |
| `link`, `upstream`, `reqs`, `rsps` | CTP: the session, what it is subscribed to, requests and callbacks on their way |
| `alive` | false after the `exit(-1)` of a refused login |
| `asked` | history: the last request for each instrument |

`SubTopic`/`UnsubTopic` (under the lock) and `CallApi` (after it) are separate steps of the hub's
thread. `SubTopics` is one step of the callback thread, which holds the lock for the calls. A
request made without a connection is lost, one made before the login is refused, and the API makes
its callbacks in order. `Batches` cuts the names into calls of at most `BatchMax`.

### `CtpLogin`

`OnFrontConnected`, `OnRspAuthenticate`, `OnRspUserLogin` and `OnFrontDisconnected` are the callback
thread's, and take `rsps` in order; `Check`, `Wake` and `Retry` are the three points of a detached
thread at which the others may run: `req_login_cnt_ < 3`, the load of `req_login_cnt_++` a minute
later, its store together with `DoLogin`. `exited` is the `exit(-1)`. `stale` is a history variable: a retry
acted on another connection than the one its refusal came on. Each refusal has a number, so that two
threads are never one.

### `XtpTrade`

| Model | Code |
|---|---|
| `at`, `cur` | where the message loop stands in `InsertOrder` or `Query*` |
| `api_ready`, `xtp_session_id`, `reconn` | the members of that name; whether the callback thread is in `Reconn` |
| `ref`, `order_ref`, `wait_deal` | `order_client_id` of each order, `order_ref_`, `wait_deal_orders_` by reference and session |
| `req_id`, `qry_ws`, `qry`, `rsp` | `req_id_` and the caches of `QueryCache` and of rows |
| `link`, `logins`, `book`, `events`, `foreign`, `flight` | XTP itself |
| `confirmed`, `told`, `refused`, `delivered`, `errors` | what the clients were sent |

`InsertBegin`, `RecordOrder`, `ApiInsertOrder` or `ApiInsertFailed`, `CleanRecord` are separate since
the callback thread may change the session between them; so are `QueryBegin` and `ApiQuery`.
`ReconnFailed` is a turn of the loop in which `Login` returns 0, which is stored. Foreign events
carry any reference drawn so far or the next. `QueryPromise` has no ids, caches, threads or
sessions: a query ends in one error or in one result, to its asker, with rows of its own.

### `XtpQuote`

As `CtpQuote`, but for what differs in the code: the maps are keyed by the symbol alone
(`topic_exchange` has the exchange, `Unknown` where the code reads a missing entry); a request is
one call for each stream of `Streams`, made one after the other without the lock (`http`,
`CallApi`); only the answers about market data change the maps; `sub_all` subscribes to everything and
ignores requests; `Reconn` is a step of the callback thread that logs in and subscribes. `named`,
`crossed` and `torn` are history: the exchanges a symbol was asked for on, a subscription made while an
unsubscription was under way, a break between the calls of one request.

### `OkexChannels`

| Model | Code |
|---|---|
| `gateway` | which of the two this is; the trade gateway logs in before it subscribes |
| `channels[c]` | `okexQuoteService`'s and `ClientService`'s maps: no entry, `false` (`"off"`), `true` (`"on"`) |
| `stage`, `peer` | the goroutine of the connection, and the API's peer |
| `hub`, `wire`, `events` | `ByteMessageChannel`; requests to OKEx and events from it |

`OnActive` and `OnConnected`, and `OnInactive` and `OnDisconnected`, are two steps each since the hub
may write in between. `Restore` is the body of `OnConnected`, or of the trade gateway's `OnLogin`. A
request is dropped without a peer and lost on a dead connection. The hub and its connections are
the cascade library's and external: nothing is assumed of the order in which it takes messages
and calls `OnActive` and `OnInactive`.

### The conversions

A text is a sequence of words, cut where the code may tell two texts apart, so that comparing
prefixes (`strncmp` with a length), searching for the first or last `_` and splitting at `-` and `:` are
modelled as what they do. `OrderText` has what `converter.cpp` and the `Extend*Id` helpers do;
`SplitOrderDir` returns the set of its outcomes, for it falls off its end for some texts.
`CtpConversion`, `XtpConversion` and `OkexConversion` have each gateway's `Convert*`. `Conversions`
follows one order from a client to the market, back as a report and into a cancel, and one
subscription of the quotes gateway; `Effect` and `Final` say what the markets' own fields mean. The
statuses are all of the markets' enumerations; what a `Convert*` refuses is dropped, as in the code.
`Panicked` is the nil pointer `GetSubTopics` writes to for a channel that does not convert back.

`Words` is what texts are made of, any set that has the words of the tables; `Text` is every sequence
of them. `ConversionsAssumption` says what the conversions rely on, and TLC evaluates it for the
texts of the run: no digit in a symbol of CTP (the first digit divides an instrument), no `-` in a
contract of OKEx, no `_` in an id; no contract where the product has none; a direction of the
document, or one that `SplitOrderDir` refuses or falls off its end for. That function compares
fronts only, so it takes `open_longer` for `open_long`; what such a text should mean nobody says, so
such texts are left out.

## 4. Runs

| Run | What it asks | Bounds |
|---|---|---|
| `okex_orders` | the inductive invariant, ids, expiry, answers, and that the gateway implements `OrderFeed` | 2 orders, 2 ids (an id may be foreign), 2 statuses each, channel of 2, with fairness |
| `ctp_orders` | ids, confirmation by two threads, cleaning, across a lost session | 2 orders, 2 ids, 2 sessions, 3 notifications |
| `ctp_confirm_lost` | the finding of section 5 | 1 order, 1 id, 2 sessions |
| `ctp_queries` | queries and their results from the start of the process through two logins; each is answered while the link is up | 2 queries, 2 clients, 1 row before the last, with fairness |
| `ctp_login` | ready in the session only; retries; every login decided | 3 retries, 5 refusals, 2 breaks, with fairness |
| `klines` | klines against the ticks of their minutes | 1 instrument, 4 minutes of 2 days, 1 start of a trading day, 3 prices, 3 volumes, 3 ticks a minute |
| `klines_high_low` | the finding of section 5 | the same, 2 ticks a minute |
| `ctp_quotes` | the map against CTP; what is asked for gets subscribed | 3 instruments of which CTP has 1, 2 requests, 2 losses, batches of 2, with fairness |
| `xtp_orders` | confirmations, records, errors; `QueryPromise`; every message answered | 2 messages out of 2 orders and 2 queries, 2 clients, 2 kinds, 2 logins, 1 foreign event, with fairness |
| `xtp_quotes` | maps, exchanges and streams against XTP; what is asked for gets subscribed | 2 symbols, one on both exchanges, 2 streams, 2 requests, 1 loss, with fairness |
| `okex_channels` | the map against OKEx through a broken connection; subscriptions and unsubscriptions take effect | 2 channels, both gateways, 3 requests, 1 break, queue of 3, with fairness |
| `conversions` | orders to the markets and back, cancels, topics | every direction, action, product, type and flag of the API document and some it does not have; every status; 12 requests of other terminals for each hedge flag; 2 ids; subscriptions without a symbol or a contract |

The bounds are the smallest that let two of everything that can be confused exist at once: two
clients' orders or queries, two exchange ids (one of which may belong to nobody here), two
statuses in flight so that one is parked while another is queued, a channel that fills, a clock
that passes the expiry after a stamp. `Expire` is 1 and `Keep` 0 or 1 where the code has 60; only
the comparison matters. `ctp_orders` takes three of the statuses: unknown, queueing, canceled.
`ctp_orders` and `ctp_confirm_lost` use symmetry, and check no liveness: orders and ids are told
apart by nothing but their name. Instruments do not meet in `KlineBuilder`, so one is enough;
three prices and ticks let a tick exceed the high, the low or neither. Its minutes are 0, 2, 5 and 7,
where a day has 4 and the trading day begins at 4: the clock passes midnight, the totals start again,
and no two minutes have the same hour and minute (`OneDay`). Three instruments and batches of two in
`CtpQuote` make a login subscribe in a full batch and a remainder, in each of which the one instrument
that CTP has may be; two losses let a callback of one session be due in the next. One loss in `XtpQuote` and `OkexChannels` is enough
for the same: a request of the session before, and its answer, meet the session after. In
`XtpTrade` two messages are an order and another, a query and another, or one of each, around a
session that is renewed.

Deadlock checking is off where requests, sessions or connections are bounded and the market owes no
further step, so that the model really ends: `CtpTrade`, `CtpQuote`, `CtpLogin`, the XTP modules,
`OkexChannels`, `Conversions`.

**Fairness.** `OkexTrade`: the hub goroutine and the ticker always run (`WF`), a read goroutine
that started a REST call gets an answer or an error (the HTTP client has a 45 s timeout), and a
push into the channel succeeds eventually although others compete (`SF`: Go serves waiting senders
in order). Neither clients nor OKEx owe a step. `CtpQuery`: the two threads keep running and CTP
answers what it accepted while the connection is up; `LinkLost` is allowed at any time and excuses.
`CtpQuote`: both threads run and CTP connects and answers; the bound on losses makes one session
the last, and a refused login (`alive`) excuses. `CtpLogin`: the threads run, the API reconnects and
CTP answers a request one way or the other; a break excuses. `XtpTrade`: the message loop finishes
the handler it is in, and XTP tells of orders and answers queries it took; the loss of the session
excuses, and no login is owed. `XtpQuote`: both threads run, a login succeeds eventually (`Reconn`
tries for ever), XTP answers. `OkexChannels`: the hub dials for ever, its goroutines run, OKEx
answers; a refused login excuses.

**Mutants.** Next to the definition it changes, each module has operators named "Mutant": the
plausible bug that a property is there to exclude. None is reachable from `Spec`; putting one in
place of its original breaks the property `PROJECT.json` pairs it with.

## 5. Findings

* **A CTP order can go unconfirmed** (`ctp_confirm_lost`, `ctp_trade_handler.cpp:61`). A login between
  `RecordOrder` and `ReqOrderInsert` leaves the record under the old session. The statuses still go out;
  the document promises a confirmation that ties the ids.
* **A kline's high or low may be of the next minute** (`klines_high_low`, `kline_builder.cpp:68`). A tick
  is compared with the high and low of the kline in the cache before it is known to begin a new minute.
  The document calls them the highest and the lowest price of the kline (`行情 WS API.md:146-147`), and the
  klines are one minute's. `FinishedKline` holds of the code, and would of code without this
  bug: it asks that high and low bound the minute's prices and are among them, or the next minute's first price.

The models have more behaviour that a reader may not expect, with no run of its own: it contradicts
no document, or the property that holds is stated around it.

*Orders and queries*

* A finished OKEx order can stay cached for ever: `OnConfirmOrder` replays parked statuses without
  `UpdateOrderStatus`, so a terminal one leaves no stamp (`client_service.go:314`, `:331`).
* A rejected cancel stamps a live CTP order; after 60 s its entry is cleaned, and what follows
  carries no client ids. `ForgottenWhenOver` says "over, or its cancel was rejected".
* An order that CTP rejects and whose record is under another session gets a `confirmorder` without the
  client's ids (`ctp_trade_handler.cpp:404`). `UnnamedIsMisfiled` says that this is the only case.
* `DoSettlementConfirm` draws a request id after `api_ready_` is set. Between `CacheQry*` and the
  request it shifts the id, and the result goes to an uninitialised pointer (compared with the open
  connections only). `AnswersAsker` is stated without that race.
* `query_tradingday` has no `api_ready_` test and answers, with an empty day, while disconnected.
* XTP's references start at 1 in every process; an event of another program on the account may
  confirm an order with its own id. `ConfirmedWithOwn` says so.
* CTP gives up after three retries counted over detached threads: retries that slept through a
  reconnect count too, so the process may exit while it is logged in
  (`ctp_trade_handler.cpp:369`). `GivesUpAfterRetries` is stated for retries on their own connection.

*Quotes*

* An unsubscription that is lost with the connection stays in the map and is undone by the next
  login, in all three quotes gateways.
* A subscription that comes while the same instrument is being unsubscribed returns early, or is
  overwritten by the response of the unsubscription (`crossed`); at XTP its exchange is lost.
* From the volume of a kline in whose span a trading day begins the total of the day before is
  subtracted (`kline_builder.cpp:84`), so it is wrong and may be negative. `VolumeIsTraded` leaves this
  one kline out.
* Ticks exactly a day apart share a kline, hence the assumption `OneDay` of the proofs.
* The topics of OKEx are listed by converting channels back, and a channel that does not convert is
  written to as a nil pointer (`okex_quote_service.go:202-212`). `SubTopics` takes a future without a
  contract and a spot product without a symbol, whose channels do not. From then on every list panics;
  `net/http` recovers, and the caller gets no list. The document demands both fields, so `TopicIsOwn` is
  about subscriptions that have them (`Complete`), and about whatever is listed or published.

*Conversions*

* CTP's `NoTradeNotQueueing` is told as unknown (`ctp_trade_handler.cpp:1534-1558`), though the order is
  out of the queue as with `PartTradedNotQueueing`, which is told as an end. `EndIsTold` names it as the
  one exception. Statuses OKEx has while it places or cancels an order are refused and not told.
* The API document lists directions with `forceclose`, which `SplitOrderDir` refuses.
* A direction without an underscore that neither `buy` nor `sell` begins falls off the end of a
  function that returns `bool`.
* XTP's `business_type` is never set, so every product is sent as a cash order; a future on OKEx is
  placed as a limit order whatever type it has, but for "market", which is refused (`utils.go:411`).

*Read, not modelled*

* `GetUpdateTimeMs` dates a tick of the 20:00 auction by the clock of the gateway
  (`ctp_quote_handler.cpp:616`). An amount between 0 and 1 is truncated to 0 for CTP.
* `OnSubMarketData` of XTP dereferences `error_info` before any test.
* A message that does not parse is parsed again for its error answer, fails again and is only
  logged. Broadcasts are made from other threads than the hub's.
* The peers' full send queues block the Go hub. A refused trade login of OKEx is only logged.

## 6. Proofs

Every safety invariant and action property that a passing run checks is proved.

### OKEx orders

`OkexProofs` proves of `OkexTrade`, for all sets of orders and ids, every channel capacity, every
expiry and every set of statuses:

* `TypeCorrect`: `Spec => []TypeOK`;
* `IInvCorrect`: `Spec => []IInv`;
* `ConfirmedFirstCorrect`, `OwnIdsCorrect`, `FeedInOrderCorrect`, `NoneParkedCorrect`;
* `ForgottenCorrect`, an action property;
* `FeedRefined`: `Spec` implements `OrderFeed` without its fairness.

None of the properties is inductive. `FeedInOrder`, say, speaks of what was broadcast, while the
next broadcast comes from the channel or from `parked`; so the invariant has to say what those
hold. `IInv` does: `OwnersInv` (who owns an id, and that a goroutine holding an id holds its own),
`ConfirmInv` (one confirmation per order, in the channel or broadcast), `HubInv` (the cache agrees
with what was confirmed), `FeedInv` (feed then parked are a prefix of the log), `ChannelInv` (the
channel holds the rest of the log, all and in order), `LogInv` (a terminal status is the last).
The proof is one lemma per action on top of lemmas about what `Append` and `Tail` do to
`Underway` and `Accounted`. It rests on `OkexTradeAssumption` alone.

### Klines

`ServiceProofs` proves of `KlineBuilder`, for all instruments, times, prices and volumes:

* `TypeCorrect` and `VolumeIsTradedCorrect`, which need no more than `KlineBuilderAssumption`;
* `CacheIsTheMinuteCorrect`, `FinishedOpenCloseCorrect`, `FinishedKlineCorrect`,
  `PushedSoFarCorrect`, `PushedWhenNewCorrect`, which assume `OneDay`: no two of the minutes are a day apart.
  They are false without it: a second tick exactly a day later joins the kline of the first.

Here `IInv` adds to the properties what ties the cache to the history: nothing is remembered
without a kline (`HistoryInv`), and a kline bears the stamp of the last tick (`StampInv`), so that
`MinuteUpdate` is true exactly when `bar` begins again (`SameMinute`). `AppendBar` and `OutsideAll`
are the facts about highs and lows; the rest is one case per way through `updateMarketData`.
`VolumeIsTraded` needs `TradedInv`: unless a trading day began, what was traded since the minute before
is the difference of the two volumes in the cache; and the last volume there is the feed's.

### CTP orders

`CtpTradeProofs` proves for all sets of orders, exchange ids and statuses, and every bound:

* `TypeCorrect`, and `InvCorrect`: `Spec => []Inv`;
* `ConfirmedOnceCorrect`, `IdsAreOwnCorrect`, `ConfirmedInSessionCorrect`;
* `ForgottenCorrect`, an action property.

`Inv` is inductive. That an order is confirmed once needs `RecordOnce`: each thread confirms what it
takes out of `wait_deal_orders_`, so an order must have at most one record there, under whatever
session, and none once it was confirmed. Whose ids a status carries needs `TunnelOwn` and `MapsOwn`:
what the tunnel holds is of the order CTP has under the id, and so is an entry of the map, which is
stamped by a status that ends the order and by nothing else. `ConfirmedInSession` needs `SentOwn`: an
order that went out is recorded until it is confirmed, and CTP tells of it under the session it
went out in. `AnsweredFirst` says that an order is confirmed only after CTP answered it; so a rejection,
which is CTP's one answer, never finds the record taken by a status, and a `confirmorder` without the
client's ids is of an order recorded under another session (`UnnamedIsMisfiled`). The proofs follow the same order, a lemma per part of `Inv` with one case per action.
They rest on `CtpTradeAssumption`.

### OKEx channels

`OkexProofs` proves of `OkexChannels`, for all sets of channels, configurations and bounds:

* `ChannelsTypeCorrect`; `ChannelsInvCorrect`: `ChannelsSpec => []Inv`;
* `KeptThroughBreaksCorrect`.

`Inv` says that the map and OKEx agree when no event is due, which is not inductive: while events
are due, it is the last one about a channel that is true of OKEx. `Agrees` (see the quotes) says so,
for every state of the connection in which the read goroutine runs, and `LinkInv` that the event of
a broken connection is the last of all. `KeptThroughBreaks` speaks of the map, which the event of an
unsubscription changes long after its request; so `Kept` adds that nothing which unsubscribes the
channel waits in the hub, is on the wire or is told by an event. A subscription that finds something
under way is `crossed`.

### XTP orders and queries

`XtpTradeProofs` proves for all sets of orders, queries, clients and kinds, and every bound:

* `TypeCorrect`, and `InvCorrect`: `Spec => []Inv`;
* `ConfirmedWithOwnCorrect`, `ConfirmedBeforeStatusCorrect`;
* `QueriesRefined`: `Spec` implements `QueryPromise`.

`Inv` has two halves that share only where the message loop stands. `OrderInv` says that a reference
is of one order (`RefIsOwn`), a record that of its order (`RecordIsOwn`), and that an order XTP has is
recorded until it is confirmed (`OrderStands`, and `InHand` for the one in the handler): whatever is
found under a reference and a session is then one record, of an order never confirmed (`GetRecord`).
`ConfirmedBeforeStatus` follows since the event that is told first finds that record. `QueryInv`
ties the ids to the caches: an id is drawn once (`IdIsOwn`), and what XTP answers under an id is the
query cached under it with the rows it sent (`FlightIsCached`). So the last row finds the client
that asked, never the uninitialised `ws`, which is what the refinement needs (`LastAnswers`). The
proofs are a lemma per action and half; they rest on `XtpTradeAssumption`.

### CTP queries

`CtpQueryProofs` proves for all sets of clients, queries and kinds, and every bound:

* `TypeCorrect`, and `InvCorrect`: `Spec => []Inv`, and `InvUpCorrect` from the state after the first login;
* `AnswersAskerCorrect`, and `AnswersAskerUpCorrect`.

The invariant has a half that holds whatever the threads do and one for runs without a race. The
first: a message waits untouched until it is read (`MsgsWait`), and the ids never run out, since
each query draws one, each login three, and an increment that is lost makes them no larger
(`IdsSuffice`, by counting `Drawn`); hence the type of `req_id_`. The second follows an id from
`CacheQry*` to the request, where it is what both reads of `req_id_` saw (`PassedAsRead`), and from
the request to the last row: what CTP answers under it is the one query cached under it
(`CachedOnce`, `FlightIsCached`). `CachedIsPending` alone is not inductive: `ReqQryFailed` clears
the entry under `req_id_ - 1`, and only `PassedAsRead` says whose that is. `raced` stays true, so
each conjunct of the second half is proved for steps that leave it false, a lemma per action. The
proofs rest on `CtpQueryAssumption`.

### CTP login

`ServiceProofs` proves of `CtpLogin`, for every number of retries and every bound:

* `LoginTypeCorrect`, and `InvCorrect`: `LoginSpec => []Inv`;
* `GivesUpCorrect`.

`ReadyInSession` speaks of the callbacks that are due, and is kept by `ToldLast`: the last login or
end that is due is the one that CTP's session comes from. `GivesUpAfterRetries` needs that no store
of `req_login_cnt_++` undoes the reset by a login (`CountsRetries`). That holds since a connection
has one thing under way at most, a request, a callback or a retry (`OneUnderWay`), which in turn
needs that callbacks of a connection are made before the next one begins (`EndIsLast`). A
retry on another connection breaks the chain, hence `stale`. The proofs rest on `CtpLoginAssumption`.

### Quotes

`CtpQuoteProofs` proves for all sets of instruments, every size of a batch and every bound
`InvCorrect`: `Spec => []Inv`, which includes the types. `XtpQuoteProofs` proves for all sets of
symbols, listings and streams, and every bound:

* `InvCorrect`: `Spec => []Inv`;
* `ExchangeIsKnownCorrect`, `StreamsTogetherCorrect`.

The invariants compare the gateway's map with what the market sends when no callback is due. Callbacks are
due most of the time, any number of them, and a loss of the connection is one of them. What is inductive
is about the last callback that concerns an instrument: it is true of the market, and the map is if
there is none. `QueueLemmas` calls this `Stands` in one direction and `Agrees` in both, and shows
once what `Append` and `Tail` do to it. CTP has both directions for every instrument. XTP has the
first for every symbol, the second only for those asked for on one exchange: the flag is one for both
exchanges, and an unsubscription on one clears it while the other is still sent. `NamedInv` says that
no call is about any other exchange.

`ExchangeIsKnown` is about `topic_exchange`, which the answer of an unsubscription erases. For a symbol
that is not `crossed`, nothing subscribes behind something that unsubscribes, neither among the
callbacks, the requests and the calls to be made, nor from one of these to the next (`InOrder`). That
a break empties two of the three is `PhaseInv`.

`StreamsTogether` is about the end of a request whose calls are made one by one. `Will` is what XTP
sends once a queue is served. `TogetherInv` says that when all requests and all calls still to be made
are served, an instrument has every stream or none; `HttpInv`, that calls which meet no connection are
the whole of a request or tear it. Between two calls neither the market nor the queue alone is whole.

`BatchesType` and `SubTopicsCallsIn` are about texts of calls that `FlattenSeq` puts together, defined
by recursion. The library's theorems on induction take an operator as a parameter and cannot be
used here; `QueueLemmas` derives induction over a *set* of numbers (`Induct`) from the theorem that the
order of the numbers is well founded, and with it what `FlattenSeq` is (`FlattenIs`, `FlattenIn`).

The proofs rest on `CtpQuoteAssumption` and `XtpQuoteAssumption`: the order of the instruments, which is that
of the `std::map`, has each once; a batch takes one at least; the streams are different.

### Conversions

`ServiceProofs` proves of `Conversions`, for all sets of words, orders, foreign requests, ids and
quotes, texts of every length:

* `PlacedCorrect`, `NoticeIsTheOrderCorrect`, `NoticeIsTrueCorrect`, which includes the types;
* `CancelCorrect`, `TopicCorrect`.

The properties compare two ends of a path, so the invariant, `ConversionsInv`, remembers the path: what
the market was asked is what became of the client's order or another terminal's request (`ReqInv`),
the notice is told of that request and of the market's last report (`NoticeInv`), the cancel
names its id (`CancelInv`), what is said of a topic is said of the channel that the quote's became
(`TopicInv`). It does not compute; what the tables give is in lemmas about texts. `FirstIs`,
`LastIs`, `LastDivides` and `CutIs` find where a text is divided and give back its parts; `JoinedOnce` shows that
the texts of the directions are all different, `JoinedFront` and `DirFront` that `SplitOrderDir` tries them in
an order in which each front is found as itself, although `close` begins two of the others. From
these follow `Splits`, then one lemma per gateway for the way to the market and one for the way back.

`TopicCorrect` needs that the channel of a complete subscription splits (`CompleteSplits`): a symbol
and a contract leave no empty part. Of an incomplete one it says only that a list or a quote, if there
is one, has its fields. `NoticeIsTrueCorrect` goes through the statuses of each market; the one of CTP that
is final and not told as an end is named in the property.

The proofs rest on `ConversionsAssumption`. Of the word between the parts of a direction they use no
more than that it is none of the others (`BarIsNone`); it has a name, `Bar`.

### Model-checked only

* Liveness, and the fairness half of `ImplementsOrderFeed`: `ENABLED` is outside the prover.

## 7. Not modelled

* Vendored headers (`thirdparty`: the CTP and XTP interfaces, some 19 thousand of the 31 thousand lines)
  are declarations: no behaviour to translate. What the libraries behind them do is modelled from
  how the code uses them and marked external, as are `uWebSockets` and the Go `cascade` library.
* `Serialize*`, `Output*`, the JSON field by field, logging: layout, no state, and no property here
  depends on the text. They are about half of the handlers, so the share of all lines the models
  can translate faithfully stays small.
* The conversions of positions, fees, accounts, ticks, order books and trades copy fields one by one
  and can be told right by reading them.
* Configuration files and entry points: read once at the start.
* The broadcast of quotes in batches through `QuoteTunnel`, the list of topics (`/topic/get`, read
  only), the time stamps of quotes (arithmetic over local times).
* The heartbeat of the OKEx connection, whose effect, the end of a connection, may happen at any
  time in `OkexChannels`; the peers' send queues of the Go hub.
* `CancelOrder` of the gateways changes no state of theirs; its text is in `Conversions`, its rejection
  reaches `CtpTrade` as a submit status. The queries of the OKEx gateway are a REST request and its
  reply.
* `PeerMsgLinker` of the Go utilities: the gateways tell it which peers there are, but only its unit test
  gives it messages (`CacheMsg`, `GetMsgPeer`), so its two maps have nothing to agree on in the running
  program.
* The demo clients.

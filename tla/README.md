# opentsdb-protector in TLA+

opentsdb-protector is a proxy in front of OpenTSDB. It refuses queries that its
rules object to, forwards the others, and keeps in Redis, for every query and
length of time range, what the last run cost. Three of the six rules read that
record, so the proxy is a circuit breaker whose memory is shared by all handler
threads (and by every proxy that uses the same Redis server) and is written
without a transaction. This directory holds a model of it, the TLC runs that
check the model on small instances, and theorems checked by TLAPS.

Paths are relative to the repository; `src/` stands for its root.

## 1. The system

| Component | State it keeps | Operations | Talks to | What makes it correct |
|---|---|---|---|---|
| Rules, guard, lists (`rules/`, `guard/guard.py`, `protector_main.py:67-99`) | none (configuration only) | six `check`s, `is_allowed`, the blocked and allowed list of `Protector.check` | reads `query.stats` | the first refusing rule is reported; throttling ends; a refusal is only ever lifted by time |
| Statistics store (`protector_main.py:145-254`) | in Redis: hash `{id}_{interval}`, list `{id}_stats`, string `{id}_query` | `load_stats`, `save_stats` | handler threads, Redis | the record is that of one run; counters agree; everything expires when `db.expire` is set |
| Hourly top lists (`protector_main.py:101-143, 256-282`) | in Redis: sorted sets `top_*_{day}_{hour}` | `set_top_duration`, `set_top_dps`, `get_top` | `save_stats`, `/top/...` | the maximum of the hour is kept |
| Request handler (`proxy/request_handler.py`) | one connection: header buffer, the query, the reply | `do_GET`, `do_POST`, `_handle_request`, `_return_response`, `send_error` | client, protector, backend | nothing refused is forwarded; one record per run; the counted status is the one sent; a connection ends unless Redis keeps it |
| Backend client (`proxy/http_request.py`) | connections of one handler | `request` | OpenTSDB | ends with a response, a timeout or another exception |
| Query, response (`query/query.py`) | the parsed JSON | id, start and end in their several forms, interval, names, summary | rules, store | the id is that of the query without its range; a later request finds the record of an earlier one |
| Server (`proxy/server.py`) | daemon threads | one thread per connection | handler | |
| Configuration (`config/`) | settings | `load_config` | `__main__` | precedence of defaults, file and command line; what it lets through can be used |
| Rule loader (`rules/loader.py`) | the list of rules | `import_rules` | configuration, rules | no rule of the file is missing in what serves |
| Daemon and command line (`__main__.py`, `daemon.py`) | pidfiles, the serving processes | `main`, `start_proxy`, start, stop, restart, status, the worker | all | a configuration that cannot be used ends no daemon that serves; the new worker comes up |

What is hard here: up to ten Redis commands per save that interleave with those
of other saves, with key expiry and with the end of the process; a check that
is separated from its use by a request that takes seconds; a Redis client that waits
without a limit; a clock; and replies
that are buffered, so that an exception comes out in the middle of one. A restart
stops the old daemon before the new one has proved that it can serve, and the
key of a record depends on clock readings that are rounded in different ways.
`PROJECT.json` lists these hazards at their lines.

## 2. The modules

| Module | Models | Notes |
|---|---|---|
| `Rules` | rules, guard, lists | pure operators over a query and a record |
| `QueryWindow` | start, end and interval of a query, and how the interval moves (`Drift`) | pure operators over a range and readings of the clock |
| `MCRules` | one query, with its range, asked again and again while its record ages | small domains for `Rules` and `QueryWindow` |
| `StatsStore` | `check`, `load_stats`, `save_stats` by handler threads on one Redis server | one action per Redis command |
| `Breaker` | what the store promises | the abstract specification: one look, one update, a memory that may forget |
| `MCStatsStore` | small instances of `StatsStore` | |
| `TopStats`, `MCTopStats` | the hourly top lists: `set_top_*` by threads, `get_top` | its own keys in Redis, so apart from `StatsStore` |
| `RequestHandler` | one connection | independent of the store: connections share nothing else |
| `Daemon`, `MCDaemon` | `load_config`, `main`, `import_rules`, `start_proxy`, the commands of daemonocle, the worker | what happens before there is a connection |
| `RulesProofs`, `MCRulesProofs`, `StatsStoreProofs`, `CounterProofs`, `PromiseProofs`, `TopStatsProofs`, `DaemonProofs`, `RequestHandlerProofs` | the proofs | `PromiseProofs`: `StatsStore` implements `Breaker`; `CounterProofs` EXTENDS `StatsStoreProofs` and `RulesProofs`, `MCRulesProofs` EXTENDS `RulesProofs` |

`StatsStore` EXTENDS `Rules`; `Breaker` does too, and `StatsStore` instantiates
it with a refinement mapping (`Promise`). `MCRules` EXTENDS `Rules` and
`QueryWindow`; `MCStatsStore` takes the drifts of its ranges from `QueryWindow`. An operator `Bad...` next to a
definition is a plausible slip of that code; the properties notice each of them.

### Correspondence of StatsStore with the code

* `pc[w]` is the next Redis command of thread `w`, in the order of
  `protector_main.py:145-221`; `req[w]` its local variables.
* `hash[<<q, i>>]` holds the fields the rules or the counters need: `timestamp`
  (as `elapsed`, the seconds since it), `duration`, `emittedDPs`, whether
  `first_occurrence` is there, `total_counter`, `timeout_counter` and the TTL.
  `list[q]` is the length and TTL of the list of runs, `doc[q]` the TTL of the
  stored query. `timeout_last` and the contents of the list are never read.
* Times are relative to now, because the code only uses differences with the
  clock. `Tick` lets a second pass: ages grow up to `MaxAge`, TTLs shrink, keys
  whose TTL is used up go. A local time (the start of the exchange, then
  `current_time`) is kept as its age in `clock`.
* EXISTS and HGETALL of `load_stats` are one step, for the reason given at
  `LoadStats`. A hash is a Redis key as long as one of its fields is there.
* `SaveBegin` takes the interval anew, as `save_stats` does, and by then it may
  have moved. `Drifts` has, for each form of range that clients send, the moves
  it can make (`Drift` of `QueryWindow`: up by one for a fixed start and no end,
  down by one for a relative start and a fixed end, either for a relative start
  like `59s-ago`); a request carries one of them in `drift`. One minute is enough
  as long as `load_stats` and `save_stats` are less than a minute apart, which
  `KeyMoves` checks and `KeysMoveByOne` proves; a longer exchange is not covered.
* After the save of a run that did not time out, the reply is written to the
  client (`"reply"`; also the backend's reply when nothing is saved). A client
  that takes longer than the socket timeout ends up in the same `except` clause
  as a silent backend, and the run is saved once more, as a timeout (`Stall`,
  `"resave"`): `request_handler.py:219-225` after 253 and 306-307.
* `look`, a history, says what the record looked up by a request is worth at its
  verdict: still `"current"`, `"overtaken"` by a run of another thread, or not
  seen because Redis was `"unreachable"`. `torn` has the queries of which a save
  was cut short.
* Faults are chosen by a constant: PING fails (`"unreachable"`), a later command
  raises (`"error"`), a command is never answered (`"silent"`: the client of
  `protector_main.py:48-52` has no socket timeout, and the thread is `"hung"`),
  the process ends (`"crash"`, the threads being daemon threads).

### Correspondence of RequestHandler with the code

`request`, `client`, `redis`, `reply` say what the environment does; `buffer` is
the header buffer of `BaseHTTPRequestHandler`, `wire` what the client is sent.
`path` is the target of the request without its query string and `args` says
whether it has one: `do_GET` and `do_POST` compare the whole (`At`), while
`HTTPRequest.request` drops the query string of a POST (`Forwarded`, what `sent`
collects). With a `"silent"` Redis the handler hangs wherever `get_top`,
`load_stats` or `save_stats` begins with PING (`AsksRedis`, `Hang`).
HEAD and OPTIONS are `do_GET`, which forwards them as a GET, so `method` has only
two values. `sound` stands for a request in which the code finds what it reads;
the exceptions of one that is not are `Unusable`. An `end` in relative form,
which OpenTSDB takes, makes `int()` raise when the interval is computed: in
`load_stats` of a request that asks the guard (`NoInterval`; it returns before
that when Redis is down), or else in `save_stats`.
`HTTPRequest.request` has the outcomes `Answered`, `Unanswered` (the socket
timeout) and `RequestFails`; `max_retries` is 1 wherever it is called, so that
its loop runs once. A write to the client
succeeds, stalls until the socket timeout or fails; the first kind of trouble
raises `socket.timeout`, which `_handle_request` takes for a backend timeout.

### Correspondence of TopStats with the code

`set_top_duration` and `set_top_dps` run the same commands on different keys; the
module has one of the two lists. `top[slot]` is the sorted set of a day of the
month and an hour, `save[w]` and `pc[w]` a call of `set_top_*`, `reader` a call of
`get_top`, which reads one set after the other. The clock counts hours. `best`,
`failed`, `alone` and the hour kept with a score are history variables. The TTL
counts in hours, and no call takes longer than to the end of the next hour
(`Tick`), so a `db.expire` below two hours is not covered: there, ZADD could meet
an expired set, as in `store_leak`.

### Correspondence of QueryWindow with the code

A time counts thirds of a second: rounding (`get_end_timestamp`) and cutting off
(`timetuple` in `get_start_timestamp`) then differ, and no time is half-way
between two seconds, where Python's `round` looks at the parity. The forms are
those the code tells apart: up to 12 digits are seconds, more are milliseconds, a
relative start is its length in seconds whatever its unit, and an end may be
missing. `Minutes` cuts towards zero, as `int()` does, also for a range that has
its end before its start. `Interval(range, t, u)` has two readings of the clock,
because the code reads the end and then the start.

### Correspondence of Daemon with the code

A configuration is a function from the names of its settings to their values, as
it is a dict in the code; a setting that was not given is not in its domain. The
settings are grouped into the kinds that the code treats differently (listed in
the module). `daemon[p]` is what the process behind the pidfile `p` serves,
`call` the one invocation of the program under way and how far it is. Editing the
file between two invocations is another member of `Files` in the next call. The
commands of daemonocle are external and modelled from how `start_proxy` uses them:
`stop` and `restart` end the process of the pidfile, `start` does nothing when
there is one. `Unbindable` has the addresses that cannot be bound, whichever way
(a host that does not resolve or is not local, a port that is no number, needs
permission or is held by another program); a port stands for the whole address.
`load_config` and `Protector` let each of them through, `Serve` fails. `Imports`
is `import_rules` as it runs on Python 3: its handler for a rule that cannot be
loaded raises itself, so that the program ends. `Die` is the end of a serving
process for a reason of its own.

## 3. The runs

| Run | Question | Bounds |
|---|---|---|
| `rules` | Does time only lift a refusal, and does throttling end? Is the record found again, and how far does its key move? | all queries of one or two sub-queries over three names, starts of both lengths and relative ones of a minute, two, "59 seconds" and a fraction more, ends of both lengths or none; minutes of three seconds; `adaptive` of 2 (`store_ttl` has the static limit); records with two durations, one of them 0, and two data point counts; from any third of a second on until no clock rule can change its mind (`Settled`) |
| `store_kept` | What do interleaved saves leave behind when nothing expires? | 2 threads, 1 query, 2 intervals, no request once a run is stored (up to four saves: of two runs, each for a client that stalls), one data point count, every fault |
| `store_ttl` | The same with keys that expire between any two commands. On which record is a request admitted? | 2 threads, 1 query, 1 interval, TTL of one second, Redis may be unreachable |
| `store_live` | Is a refused query permitted again, does every request end? | 2 threads, one rule (`too_many_datapoints`), a result above its limit, TTL of one second, no ages (`MaxAge` 0, as no clock rule applies), Redis may be silent |
| `tops` | Do the lists keep the tops, expire, and return only today's scores? | 2 threads, 1 query, values 0 to 2, days of 2 hours, months of 2 days, TTL of 2 hours, one hour more than a month |
| `handler` | One connection, everything its environment can do | none: the domains are the classes the code tells apart (about a million states) |
| `startup` | Does what serves have the configuration it should? Can a bad file, a restart or an edited pidfile end a daemon, or leave nobody serving? | two pidfiles, a port per source and one that cannot be bound, every combination of log section, rules and database; one call at a time |

Two concurrent saves of one query can lose the higher value (ZSCORE, then ZADD);
`TopOfUndisturbed` says what is left: a value saved without meeting another save
of its query is never lost. `TodaysTops` needs an expiry shorter than a month: with
a longer one, or none, which is the default (`protector_main.py:45`), `get_top`
serves the scores of the same day a month ago, and its comment, "Dump all hourly
tops for today" (line 274), is not true. `TodaysTops` therefore has the condition
(`ShortExpiry`), and no run shows the other case.

Violations, each of something the repository says (`PROJECT.json`, findings):

* `rules_allowedlist`: with two allowed patterns, a query must match both to
  skip the filters; the documentation says one.
* `store_leak`: a hash that expires between TTL and HINCRBY comes back without a
  TTL and stays ("data ttl 1 week").
* `store_killed`: a process that ends between HMSET and EXPIRE leaves a record
  that never expires; if it has too many data points, its query is refused for
  ever, because only a run would repair it.
* `handler_gate`: `do_POST` compares the path with its query string,
  `HTTPRequest.request` sends a POST without it. So a POST to `/api/put` or
  `/api/query` with a `?` is neither refused nor checked and reaches the backend
  as a put or a query. The README says that there is no `/api/put` proxying and
  that each query is checked. (That no GET is checked is the same divergence.)
* `handler_test_post`: a response without Content-Encoding is not passed on; the
  handler writes a `str` to the socket, which raises. `test_post` expects the
  opposite.

Why the bounds are enough: two threads are the least that race; a third adds no
command that the second does not already put in between. An `emittedDPs` of 0
and 2 with a limit of 1 is either side of every comparison, as are ages up to
`MaxAge`, which the assumption `AgeAssumption` keeps above each threshold. A TTL
of one second makes expiry happen between any two commands. Everything but
the liveness is also proved for all values (section 4); in particular the
lists of `Protector.check`, which no run of the store has (every query goes to the
guard), are part of `KeepsThePromise` and of the other theorems about the store.
`Workers` is a symmetry set in the runs with two threads that check no liveness.

CHECK_DEADLOCK is FALSE in `rules` (a record stops ageing at `Settled`) and
`handler` (a closed connection ends). The others never stop: `get_top` and the
program can always be called, and in the store time passes.

Fairness. In `StatsStore`, `FairSpec` assumes that time passes and that a thread
which can take its next step does (`Handle`). Each wait of `Handle` is bounded by
the code: those for the backend by the timeout that `http_request.py` gives its
connection, those for the client by the one that `StreamRequestHandler` sets on
the socket (`daemon.py:74`). Waits for Redis are not (`protector_main.py:48-52`
gives no `socket_timeout`), and nothing is assumed of them: `Hang` competes with
every Redis command of a thread, and `RequestsEnd` and `RefusalEndsUnlessTorn` say
what is left then. Nothing is assumed of arrivals, faults or which thread is
first; a client may stop asking. `Longest` bounds an exchange in the model; the
socket timeout bounds each wait in it. In `RequestHandler` the next step, whichever
it is, is weakly fair, for the same reasons, and a handler that Redis does not
answer hangs (`Terminates` lists where this can happen). Left out is a backend or
a client that is never silent for as long as the timeout but never ends either.

What some properties do not say:

* `TimeOnlyLifts` leaves out ranges whose key jitters, where a record can come
  back under its key, and admits that `query_old_data` turns against a fixed
  start.
* `KeepsServing` is about the calls of the program; a process may die of its own
  accord. It admits that `stop` without a configuration file does nothing and
  exits with 0, as `main` has it. "Unusable" is what the rules and the database
  make of the file: a restart with an address that cannot be bound ends the old
  daemon and leaves nobody serving. `ComesUp` says that only the address can do
  this: one that is not bindable, or a port that a daemon holds, which is what an
  edited pidfile leads to.
* `AdmittedOnCurrentRecord` admits a request that the rules refuse on the record
  as it is by then when another thread has saved a run of the same query and
  interval since this one looked: requests that look before the first of them
  saves its run are all admitted. It says that this is the only way, besides a
  Redis that cannot be reached; expiry, time and other keys do not lead to it.
* `FirstOccurrenceKept` is about the field being there. Of two first runs that
  are saved at the same time, one overwrites the value of the other; nothing in
  the program reads it.
* `Terminates` and `RequestsEnd` admit a handler that waits for Redis for ever.
* `Gatekeeping` is about what `do_POST` takes for a put or a query, with safe mode
  as an exception; what it does not take for one is `handler_gate`.
* `RecordsWillExpire` and `RefusalEndsUnlessTorn` leave out the queries of which
  a save was cut short; for those `store_killed` shows the opposite.
  `HashesExpire` is about hashes that have a timestamp; the others are
  `store_leak`.
* `OneRecordPerRun` admits two records for a client that stalls, because the
  code writes them (`request_handler.py:219-225`), and so does `KeepsPromise`.
* `KeepsPromise` admits that a run that timed out leaves the data points of the
  run before it next to its own duration, as `save_stats` does.

## 4. The proofs

Twenty-two theorems in eight modules, for all values of the constants that
satisfy the assumptions of the modules (`RulesAssumption`, `RangeAssumption`,
`RunAssumption`, `StoreAssumption`, `AgeAssumption`, `TopAssumption`,
`DaemonAssumption`): any number of threads, any queries, intervals,
configurations, faults. They include every invariant and every action property
that a passing run checks. Where a property adds up counters, the
theorem asks that threads and intervals be finite (`IsFiniteSet`), as they are in
any run of the program. `RunAssumption`
says that durations and data point counts are natural numbers.

`RulesProofs`

* `ThrottlingLifts`: what is permitted stays permitted when the record is older.
  It is the core of `TimeLifts`. `GuardVerdict` and `FirstRefusing`, its lemmas,
  turn `IsAllowed`, which names the first refusing rule, into what every rule says.
* `LeastNumber` and `LeastSubset`, for the proofs about loops: a set of numbers
  that is not empty has a least member, and a set of finite sets a member none of
  whose proper subsets is in it (well-foundedness of < and of the strict subset).
  They stand in for the library's induction theorems, which cannot be used (below).

`MCRulesProofs`

* `RecordsAreFound`, `KeysMoveByOne`: `Spec => []RecordIsFound`, `[]KeyMoves`, for
  any clock and any length of a minute, also when the clock ticks once (a third of
  a second) between the reading of the end and that of the start; over a longer
  pause `RecordIsFound` does not hold, and the code has none there. `RecordInv` says that the interval of a
  record is the interval of its range at some time not after now; the rest is
  arithmetic of `Rounded`, `Truncated` and `Minutes`, one lemma for each.
* `TimeLifts`: `Spec => TimeOnlyLifts`. While a range whose interval does not jitter
  ages, its interval either stays or has left that of the record for good
  (`IntervalStays`: `Minutes` is monotone, and each form of range moves it one way,
  `Drift`). So the record is gone or the same and older (`RecordAges`), and
  `RuleLifts` takes each rule but `query_old_data`.

`StatsStoreProofs`

* `TypeCorrect`: `Spec => []TypeOK`. `TypeOK` is not inductive alone: a thread at
  a TTL command must have a TTL to set. `TypeInv` adds it.
* `FirstOccurrence`: `Spec => []FirstOccurrenceKept`. Inductive because a thread
  at HMSET that found a `first_occurrence` still finds it (`FirstInv`): without
  expiry no step removes one.
* `Expiry`: `Spec => []RecordsWillExpire`. `RecordsWillExpire` says already who
  stands between a key without a TTL and its expiry: a thread that is about to
  set one. With `TypeInv` it is inductive (`ExpiryInv`).

`CounterProofs`

* `CountersMatch`: `Spec => []CountersMatchList`, for finite sets of threads and
  intervals. The sum of `total_counter` over the intervals of a query is the
  number of runs those counters stand for (`CountedRuns`, `TotalIsCount`), which
  turns HINCRBY into adding one element to a set and the commands of a save into
  a thread that joins or leaves the set of those not yet counted. `CountInv` is
  the property in these terms and, with `TypeInv`, is inductive.

`PromiseProofs`

* `KeepsThePromise`: `Spec => KeepsPromise`, the refinement of `Breaker`. HGETALL
  is the look, HMSET is where a run enters the memory, expiry is forgetting, a
  stalled client is `Again`, and every other command stutters. `ViewInv` adds two
  facts to `TypeInv`: a thread that is not between the look and the guard holds no
  statistics, an idle or hung one nothing, and a second save is one of a timeout
  (`Threads`, or the view of a thread were not one that `Breaker` has there); and
  a hash without a timestamp, as HINCRBY leaves one, has no duration and no data
  points (`Hashes`, or HMSET of a run that timed out would bring back what
  `Breaker` has forgotten).
* `AdmittedOnCurrent`: `Spec => AdmittedOnCurrentRecord`, for any number of
  threads. `LookedInv`: the record a request has looked up, if no run has
  overtaken it, is what is there or has expired; an expired one permits
  everything (`ForgottenIsPermitted`).

`RequestHandlerProofs`

* `HandlerTypeCorrect`, `GateIsKept`, `LastStatusIsCounted`, `RunsAreRecordedOnce`,
  `NoOtherSilence`: the five invariants of `handler`, from one inductive invariant
  `ConnInv`. The module has no constants and the run explores it whole, so that the
  theorems say no more than the run does; what they add is why it holds:
  the status line begun last is the one written next (`InOrder`), which body
  belongs to which status (`Matched`), what is with the backend and what a refusal
  looks like (`Kept`), and what has been recorded at each step (`Recorded`). Only
  `SilenceIsExplained` is inductive beside `Typed` and `Kept`.

`TopStatsProofs`; but for the first, with `ShortExpiry`: `db.expire` is at least two
hours and shorter than a month

* `TopTypeCorrect`: `Spec => []TypeOK`, whatever `db.expire` is. `TypesInv` adds that a
  value under way is one of `Values` (or a score were not), that a thread at EXPIRE
  has a TTL to set, and how far back `get_top` can be (`Readings`).
* `UndisturbedKept`: `[](TypeOK /\ TopOfUndisturbed)`, also without `db.expire`.
  `TopInv` follows a save from ZSCORE to ZADD: what the thread knows of the
  highest undisturbed value (`Claims`) still holds because another save of that
  member in between makes both disturbed (`Meetings`), and because a set does not
  expire in the hour and the next in which it is written (`Expiries`, `Recent`).
* `SetsExpire`: `[]TopsExpire`. A thread that raises a score finds it in its set,
  which therefore has a TTL or a thread about to set one (`Raised`).
* `TodayServed`: `[]TodaysTops`, for months of at least two days; the condition
  `ShortExpiry` is in the property. A score is less
  than a month old (`Months`), as its set expires before its key comes again.

`DaemonProofs`

* `ServingIsKept`, `WorkersComeUp`, `ConfigurationServed`: the three properties of
  `startup`, from `CallInv`: the configuration of a call is the merge of its
  command line, the settings of its file and the defaults; past `Build` it has
  rules that exist and a database; and a worker is only started for a pidfile
  without a process. `WorkersComeUp` is for any set of `Unbindable` addresses. `MergedSettings` says what the merge does to each kind of
  setting.

Each step lemma has one case per action; `HashesFrame`, `ListsFrame`, `FirstFrame`
and `ThreadsFrame` are the cases of the actions that do not touch what the
invariant is about.

Only model-checked:

* `RefusalEndsUnlessTorn`, `RequestsEnd`, `ThrottlingEnds`, `Terminates`: liveness under
  fairness, and ENABLED, are out of the prover's reach.
* What the five runs that expect a violation show: they are counterexamples.

Induction over data is out of reach in general: the library's induction theorems
take an operator as a parameter, which none of the installed provers can
instantiate. The one recursion that a property speaks of, the sum of the counters,
has a closed form (`TotalIsCount`).

## 5. What is abstracted, and what is left out

* Regular expressions: a pattern is the set of names it matches. Texts of
  refusals, logs, headers. The id of a query is an identity: that it is a hash of
  the query without its range is not looked into.
* `adaptive` is a natural number; the sample configuration has 1.5. Seconds are
  whole in the store, as the timestamps are; a duration is rounded to seconds.
* The clock does not jump. `get_start_timestamp` takes a naive local time, which is
  off by an hour over a turn of daylight saving time: a hazard no property covers.
* `safe_mode` is a constant of `StatsStore`, FALSE in its runs; with it no
  verdict has an effect. `RequestHandler` checks both values.
* The Prometheus counters, but for the return code of `requests_total`: nothing
  reads them.
* The cache of connections in `http_request.py`: it lives as long as one handler,
  which sends one request.
* `object_view.py` is attribute access, `smart_formatter.py` the layout of the help
  text; packaging and dashboards have no behaviour.
* Two calls of the program at a time: daemonocle's own handling of the pidfile
  decides what happens then, and it is not in the repository.

## 6. Plan

Done, in this order: `Rules`, `StatsStore` with `Breaker`, `RequestHandler`, the
first proofs, `TopStats`, `QueryWindow`, `Daemon`, the refinement and the proofs
about the top lists, the time range, the daemon, the counters and the connection;
then the second save of a stalled client, a Redis that does not answer, query
strings, and addresses that cannot be bound. What would come next:

1. A clock that jumps: daylight saving time in `QueryWindow`, a clock that is set
   back in `StatsStore`, where a record then has an age below zero.
2. An exchange of more than a minute in `StatsStore`: intervals that move by more
   than one.
3. Runs for three statements of the repository that the model could refute and no
   run does: `foreground` of a file is always overridden (`loader.py:23-27`), a
   counter of one interval does not match LLEN (`protector_main.py:217`), and
   without `db.expire` `get_top` serves last month (`protector_main.py:274`). The
   comments of `ServedAsConfigured`, `CountersMatchList` and `TodaysTops` say so.

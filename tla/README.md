# Verification of UTM, the framework of TMeter

TLA+ models of the parts of UTM that keep state under concurrency, failure or
restart, the TLC runs that check them on small instances, and TLAPS proofs of
their main properties. Every definition that models code is listed in
`PROJECT.json` ("map") with the lines it stands for.

## The system

UTM is a set of C++ libraries for Windows. The TMeter service links them; the
service itself (packet capture, timers, the calls into the libraries) is not in
the repository and is *external* to the models.

| part | state | operations | interaction |
|---|---|---|---|
| packet queue (`corefilters/pkt_queue`) | ring of packets, two 64 bit counters, shaper delay | put, get | packet threads put, the shaper thread gets and sets the delay without the lock |
| queues of a filter set (`pkt_queue_filterset`) | vector of queues per filter id behind a pointer | init, put, get, set state | the filter set is replaced while packet threads hold references |
| traffic counter (`filtercnt`, `filter2`, `filterset`, `filtersetstate`) | byte count, what reports have seen, latest reset, limit flags; state file | count, refresh, reset, limit flags, save, restore, reload | packet threads count, timers do the rest; restarts |
| speed history (`filterset_data`, `filtercnt`, `filtersetcons`) | rings of packed speeds, sequence numbers and times | refresh, difference, apply | a console polls over the network and keeps a replica |
| filter matching (`filter2`, `rule`) | rules, limits | match a packet, count it, test the limit | called by packet threads without a lock; the service resets the counters |
| users, SMS, collector, host table, reports (`corefilters`) | tables and lists | update, purge, export | timers of the service |
| proxy connection (`proxyserver/proxy-conn`, `http_headers`) | two sockets, two buffers, request, response | chain of asynchronous handlers | browser, origin server, rules, category lookup |
| site category (`proxy-serverbase`, `googlecache`, `sqcore`, `askgoogle`) | list of queries, database table | look up, wait, ask, store | all connection threads share it |
| proxy server, rules, configuration (`proxyserver`) | acceptor, rule lists | accept, match | start connections |
| DHCP and DNS server (`dualserver`) | leases, ranges, cache, forwarded queries, lease file | one loop over sockets | clients and upstream servers |
| monitor (`monitor`) | ranges of addresses and ping results; process list | ping, receive, read | timers and sockets |
| base library (`utm`) | - | strings, times, XML, registry | used by all |

What is hard here: locks are taken by some calls on an object and not by others
(`pkt_queue_filterset`, `ticks_left`, `cnt_prev`); values are read in one step
and used in a later one; a list is checked and extended in separate calls; rings
and counters wrap; the service may stop between any two steps; handlers complete
in any order and with errors. `PROJECT.json` ("hazards") lists them by line.

## Modules

**PacketQueue** is `pkt_queue`: counters modulo `CounterMod` and `QsizeMod` (2^64
and 2^32 in the code), slots, and `ticks_left`. put_packet and get_packet hold
the mutex and are one step each; the decrement of `ticks_left` is a load and a
store, because `set_queue_state` writes it without the mutex. **PacketFifo** is
what the queue promises, a FIFO of at most `MaxPackets` entries; `ImplementsFifo`
maps the occupied window of the ring to the FIFO's contents.

**PacketQueueSet** is `pkt_queue_filterset`: the container behind `pq` has a
number so that a reference into a freed one is recognised. put_packet and
set_queue_state are sequences of steps without a lock on the container; what
`pkt_queue::put_packet` stores (data, pktput_counter, current_freeslot, its return to
the first slot) are separate steps under the queue's own mutex. init copies each queue
in three steps (`operator=` reads pktput_counter, current_freeslot, data in that
order) and does not take that mutex; `torn` marks the filters of which it read the
counter after and the free slot before the same put_packet stored them. Whether the service stops its packet threads around init is external, so
`World` has both cases and Init chooses one: one packet thread and init between its
calls, or two threads and init at any point.

**TrafficCounter** is one direction of one filter: `cnt`, `cnt_prev`, `cnt_xml`
(which also stands for `cnt_xml2` and `cnt_logdb`, which get the same additions),
`last_reset_ts`, the limit flag and the state file. do_refresh, reset and the saving
of the file (truncated, then written) are two steps each, packets are counted in
between, and Restart may happen anywhere; a file cut off is not loaded. `LocalTime` is
the way of `last_reset_ts` through the file: saved as local time, read back as if there
were no daylight saving.
`hist` records what the properties talk about and nothing reads it.

**RuleMatch** holds the tests of `filter2::match_filter` as operators, one per stage
of the loop over the rules; a packet and a rule have two ends, and the backward
pass exchanges the packet's. **FilterMatch** is the call: the match, the addition
and each read of the limit test are steps of a thread, and the two stores of
`reset_filter_counters` come anywhere between them. It composes with
TrafficCounter by the counter: TrafficCounter's AddCnt is FilterMatch's.

**SpeedPacking** holds pack_speed and unpack_speed with their 16 bit cut;
**SpeedTransfer** sends two speeds through them. **ConsoleSync** is the speed
history, its replication and the momentary speed. The constant `Total` is what a filter
has counted when a point is recorded, so every speed has a filter and a point it
belongs to and a value in a wrong place shows; packets are counted between the points
(`Count`), and an answer to the console may be lost (`LoseReply`). `Advance` applies a
whole answer at once; an assumption of the MC module checks that this is
goto_next_point for one point after the other. Speeds are below 512 MByte/sec, so that
the 32 bit sum of five of them does not wrap.

**SiteCategory** is `serverbase::whatsiteref`, one step per call to the cache, the
database and the search engine. The answer of the search engine is chosen freely.

**ProxyConnection** is `connection`: the set of outstanding asynchronous operations
and one action per handler. Contents are numbered units, so that order, gaps and
early reuse of a buffer show. Headers are abstracted to the number of reads they
take; a read may hold the end of a header and the first units of the contents. The
reads after which `process_until_header_end` or `process_rawbody` has lost its place
are choices: bytes of the header counted as contents, a header parsed as that of
another response, the last chunk seen early or missed (`astray`).

**HttpResponse** looks inside those reads: the symbols of an answer (hexadecimal
digits, line ends, others) arrive in pieces of any length; `Split` is
process_until_header_end, `Unchunk` the loop of process_rawbody, `More` the test of
http_browser_write for reading on. A header that lost a part may be parsed as
anything (`Parsed`). Its actions are ProxyConnection's handlers on the path of a
response, with a failing operation as one action.

**DhcpServer** is the DHCP half of `CDualServer`. `mem` is its memory: `dhcpCache`, the
entries as objects on a heap, and the two arrays of the range, whose slots point to
entries; so an entry that moved, and a slot that still points to it, are there as in
the code. `Resad` is resad, branch by branch; an index into the range goes through
`Char`. The messages of a client (DISCOVER, REQUEST, DECLINE, RELEASE, BOOTP) are
actions. One that grants a lease only sends the reply (`Promise`); `Alad` then updates
memory and lease file, and no other message is handled before it, but the process may
stop: then the client holds a lease (`owed`) that was never recorded. init reads the lease
file record by record (`Load`), then writes it anew and the server is up (`Start`);
`StartCut` is a stop while it writes, `Crash` one at any other point.
`held` is what clients have been told. Times are relative to the clock, so the clock
needs no bound; a client that leaves without a word, and a lost reply, are covered
because clients never have to act.

**DnsForwarder** is the DNS half: one round of the service's loop is a query (`phase`
"dns"), an answer ("forw") and checkSize ("check", one step for each entry that is due). `dnsCache` holds for each key the
entries in their order, as the multimap does: ids of queries in decimal, names, host
names of DHCP clients. `age` is the time under which `dnsAge` has an entry, which is
not always its expiry. It composes with DhcpServer by `HostUpdate`, the call of
updateDHCP that stores a client's host name.

Four specifications (PacketQueueSet, DhcpServer, DnsForwarder, FilterMatch) take a
constant set of surroundings, one of which Init chooses: each makes one kind of
trouble happen, and together they keep the state space small.

Modules named `MC...` give the constants values; `...Proofs` hold the theorems.
A definition `Mut...` is a wrong version of the definition behind it, used to
show that the properties can fail; no specification refers to it.

## Runs

| run | what it shows |
|---|---|
| packet_queue | 3 slots, counters modulo 8 and qsize modulo 4: both wraps happen. Refinement of the FIFO, no uninitialised packet handed out; a polled queue delivers. |
| queue_set | one packet thread with reordered, shrunk and grown filter sets: no packet vanishes, no freed queue is written, the container matches the filter set. Two threads and init at any point: packets still come in order, once, and from their own filter, unless the copy caught a packet half stored. (Packets may be lost then, freed memory be written and the lazy init replace the container of init: `Conservation` and `ServesFilterset` claim nothing there.) |
| traffic_counter | three packets, two reset periods, one of which ends in summer time, two restarts, a limit that the second packet exceeds. |
| speed_transfer | all pairs of speeds at and around 0, 128 KByte/sec and 32 MByte/sec. |
| filter_match | every type of address, port condition, option, counter condition, MAC, NAT, NIC and time test against packets around its boundaries, one call each; and two threads, three calls of lengths 1 and 2 and a reset, for every type of limit, blocking or not, counting up or down from a balance. |
| filter_ports | violation: the switch over the destination port overwrites the result of the one over the source port, so a rule with both conditions ignores the source port. |
| console_sync | rings of 5 points (the least that holds the five points of the momentary speed), 12 points, the same filters in another order plus one the service does not know; slow, fast and idle filters, a count that is set back, lost answers. |
| site_category | two threads, two sites, one of which may have an old row, three calls, one failure of the database or the log, one expiry: the smallest instance in which two threads query the same site and a third call meets what they left. |
| proxy_connection | buffers of 2 units, bodies and pages of 0, 3 and 5 units, all kinds of requests and responses, header in up to three reads, any of which (and any read of chunks) may lose the place, two addresses, two requests per connection. |
| http_response | answers by length, by chunks, until the close, empty and 304; headers of one and two lines, chunk sizes of one and two digits, data that looks like the last chunk; all ways to cut them into reads. |
| dhcp_leases | two clients and a static host, three addresses, an interface and a relay with fewer addresses, one stop (also between a reply and its record), one failing write; a char of two bits, so that the third address has a negative index. Worlds: a client that roams between the networks, a lease file that fails, the static host with BOOTP. |
| dns_forwarding | two forwarding servers. Worlds: two clients with one id, one silent server, and late, doubled and lost answers; a host name that is also an id, with leases that come and go, and a client that is refused; prompt servers of which the first in use is silent, with one failed send, for liveness. |

Bounds: each bound is a constant with `Max` in its name (`maxCalls` and `maxResets`
of a scenario in FilterMatch, `containers`, `stops` and `fails` of a world), tested in the guard of
the action it limits. They are chosen so that every ring wraps, every buffer is
used more than once and every early return is taken. DhcpServer stops after more than
`MaxMishap` of the events that its properties except (0 in the run: the first one is
reached, what follows it is not explored).

Deadlock is not checked where the bounds or the end of the work stop the model
(queue_set, speed_transfer, filter_match, filter_ports, site_category,
proxy_connection, http_response, dhcp_leases): a system without
further calls, a closed connection and a server that is not started again may stop.

Fairness. packet_queue: the shaper's timer polls get_packet for ever (weak
fairness of Get). console_sync: the console polls (weak
fairness) and answers get through from time to time (strong fairness, as any answer may
be lost).
site_category: threads are scheduled, the one second of timed_wait passes and the
search ends; the last one is an assumption the code does not enforce
(`analyze_site` has no time limit). A wake-up without a cause is possible but not
fair. proxy_connection: some outstanding operation always completes, with success
or an error; the code has no timeouts, so this says that the peers and the
system's TCP do not leave an operation open for ever. dns_forwarding: the loop goes
round (weak fairness of its steps that need no message), time passes, an answer
that keeps arriving is read, and a client without an answer repeats its query
(strong fairness, for the world of prompt servers only): resolvers do so, and the
code's change of server depends on it.

## Proofs

Each `...Proofs` module proves its theorems from an inductive invariant that is
stated before its first lemma, with one lemma per action. Nothing is assumed but
the named assumptions on the constants in the component's module, which TLC
evaluates for the values of the runs.

`PacketQueueProofs`, for every queue size, counter range and packet set: type
correctness, `RingConsistent` and the refinement `ImplementsFifo`. Assumed: the
queue is smaller than the range of qsize, which is not larger than that of the
counters (`QueueAssumption`; 200 or 1000 packets against 2^32 and 2^64 in the
code). The inductive invariant adds to the two that `current_freeslot` and the
counters move together; with it the window of a put is the old one with an entry
behind it, and that of a get the old one without its first. The lemmas on
counters and windows carry the modular arithmetic.

`PacketQueueSetProofs`, for any number of packet threads, filters, packets and
replacements of the container: `DeliveryOrder`, `StaysWithFilter`, `Conservation`,
`ServesFilterset`. Assumed (`SetAssumption`): the ids in a filter set are distinct,
as `ubaselist::get_next_id` makes them, and finitely many threads and filters.
`SetInv` says of every queue, old or being built, what its slots hold (`Holds`):
packets of its filter, increasing, beyond what was delivered. It is said of the queue
as it is when the put_packet at work on it is done (`Completed`), and of filters that
are not `torn`. The hard part is a
queue that init is copying member by member (`HalfCopied`): packets put between the
steps make the counter, the free slot and the data of the copy differ in age, and the
invariant says by how much the free slot may be `Ahead`; the copy then holds the newest
packets in order, so order survives the race even where packets do not.
`OrderlyInv` is for one thread with init between its calls: no container is replaced
under a call (`Quiet`), what init has copied is what the old container holds
(`Exact`), no queue is half stored but by the put_packet at work (`Resting`), and
every stored packet is queued, delivered or discarded (`Accounted`).

`TrafficCounterProofs`, for any packet lengths, periods, limits and numbers of
restarts: types, `ReportsBalance` and `PrevBehind`, which are inductive together (the
balance needs the booked difference not to be negative, that needs `cnt_prev` to lag
`cnt` outside a half done reset); `FlagFileOnce`: an excess that was announced keeps
the flag up in memory and, once saved, in the state file (`FlagInv`);
`ResetNotRepeated`: unless a restart did not find it in the file, the latest reset is
in progress or `last_reset_ts` is not before it (`ResetInv`); `NoStaleTraffic`: nothing
in the counter or in the file is older than the reset recorded beside it, and nothing
recorded is ahead of the clock, both up to the hours the recorded time was put ahead
(`StaleInv`).

`FilterMatchProofs`, for any number of threads, any rules, inputs and resets:
- `PassedBelowLimit`. Inductive with it: a call that has counted its packet and not
  returned finds the counter, and has read it, at or beyond the value its own
  addition gave (`CallsSeeThemselves`), and counts are not negative unless the filter
  is reversed (needed where the two counters are summed).
- `PassedWithinLimit`, on the total of what passed. The bytes counted since the counter
  was stored are numbered; each undecided call owns those of its packet, calls own
  different ones, and those let through are a set of them without the owned ones, below
  a count at which some packet passed (`BytesInv`). So no sum over threads is needed.
  Where the limit is on both counters together, `SumInv` adds that of two calls that
  counted in different counters one reads what the other counted.
- `OvershootBounded`: the counter plus one packet for each thread between test and
  addition stays below the bound plus one packet for each thread (`Overshoot`).
- `SynRuleOnlyOpens` and `AnswerCountedOpposite` from the tests of a rule: the call in
  progress is a match of its input (`CallsMatch`), and the lemmas say what a match of a
  rule, or of mirrored rules, means for the packet and its answer.

`SpeedProofs`, for every set of speeds: `DisplayAccurate`, `DisplayMonotone`; the
invariant is that the packed and shown sequences are the images of the measured one.
And for every ring of at least five points, any filters on the two sides in any order,
any speeds, any polling and any lost answers: `ReplicaFaithful`, `ReplicaContiguous`,
`MomSpeedRight`, `ConsoleSpeedCurrent`. A point of a ring has an age, the number of points
recorded after it; `RingInv` says that the sequence number of a point is the latest one
less its age, and `SpeedsInv` that each filter's ring has the speed of that sequence
number there. An answer under way (`ReplyInv`) holds consecutive points which either
continue the console's ring or fill a ring of their own, and stays right while the
service records on, because it was taken from one state. Storing an answer is then a
shift of ages.

`SiteCategoryProofs`, for any number of threads, sites, failures and expiries: types,
`CategoryJustified`, `OrphanHasCause`, `CacheBehindDatabase`. The list of pending
queries is a function from increasing numbers, not a sequence: entries are erased in
the middle, and as a function an erased entry leaves all others where they were, so
"this thread's entry" keeps its meaning across steps. The invariants say for each
place in `whatsiteref` what the thread's answer stands on, which entry of the list it
owns, and which row is behind a complete entry.

`ProxyConnectionProofs`, for every buffer size, body length, number of reads of a
header, addresses and requests: `RelayedInOrder`, `HtmlAfterWhole`, `AnswerComplete`.
`ConnInv` has one conjunct for each outstanding operation (`Stage`): the units in its
buffer are the ones that follow what the receiver has, and which other operations can
be outstanding (two only in a tunnel). `Tracked` says what the code relies on while no
read has lost the place: what it counts are the units read, and an announced length is
that of the body. Assumed
(`ConnectionAssumption`): a CONNECT request carries no contents; a browser waits for the
reply before it sends into the tunnel.

`DualServerProofs`, the DNS server, for any number of clients, ids, names and forwarding servers and
all times: `RightAnswer`, `ServedInTime` and the action property `AnsweredOnce`. The
invariant is a condition on every entry of the map (`Sound`) and that an id has one
entry of type QUEUE (`OneQueue`), so that a query which replaces another leaves nothing
of it behind. An unanswered query agrees with every query of its id that may still be
answered, and is open (`Fits`); the entry of a name is in `dnsAge` under a time not
before the last checkSize and not after its latest expiry (`InTime`), which is its expiry
unless that was moved back.

`DualServerProofs`, the DHCP server, for any number of clients, addresses and networks,
any surroundings, and stops and failing writes at any point: `OneHolder` and
`HeldIsKnown`. Two things the properties need are not said by them: what a slot of the
range and the entries of the map have to do with each other, and that an entry's lease
survives what other clients do. `MemInv` says the first: an entry belongs to the client
the map has it for (`Owned`), an address that is not contested is in one client's entry
(`OneEntry`), and its slot is used (`SlotUsed`) and, unless it is locked, points to that
entry (`SlotPoints`); without the last one a slot that has expired could lead resad to
an entry whose lease still runs. `LeasesKept` says the second: of a lease that is held,
no other client's entry has the address, the slot expires no sooner than the lease and,
unless an entry was taken over that had `moved`, neither does the client's own entry.
Giving an address, taking over an entry, keeping one, updateDHCP and loading a record
are all an assignment of one address to one entry (`Assigned`), for which the lemmas are
proved once; `ResadOutcome` says which assignments resad can make. While init loads the file
nothing is known of the leases, only that slots expire no sooner than their entries
(`SlotCovers`); a server that starts with every held lease in memory then has them in the
slots, too. Between a reply and its record (`Promised`) the entry still has the address the
client was told, and only that client is ahead of what memory says. The order in which init writes the entries back exists because finite sets
of numbers have one (`OrderedFinite`). Nothing is claimed, and no step taken, from a state in which
memory in front of the arrays was used or a lease was lost from the file (`Excused`).
Assumed (`DhcpAssumption`): no two static hosts have one address (init ignores the second),
and a lease is no shorter than the 20 seconds of an offer.

Only model-checked: liveness under fairness (`EventuallyClosed`, `EventuallyAnswered` and
the other leads-to properties), which is beyond the prover; `HeldIsRecorded` of DhcpServer,
whose fold over the lease file is an induction over data;
HttpResponse, whose loop is recursive. The type invariants of PacketQueue,
SiteCategory and TrafficCounter, `PrevBehind` and `PassedBelowLimit` are proved and not
model-checked apart from that: they are parts of the inductive invariants.

## What the models do not say

- TrafficCounter: every save and restart in summer puts `last_reset_ts` an hour ahead
  (`utime::to_time_t`), again and again until the next reset, which is late by that
  time; and a stop while the state file is written loses what was saved in it, so that
  the period is reset and the limit announced once more. `NoStaleTraffic` allows the
  hours, `ResetNotRepeated` and `FlagFileOnce` except the stop.
- PacketQueueSet with two packet threads and an empty pointer can write into a
  freed container (both find NULL, both allocate); `Conservation` is for one thread.
- PacketQueueSet, a copy of a queue into which a packet is being put: when the counter
  was read after and the free slot before its stores, the copy begins one slot early
  and hands out an old packet or a slot never used; `DeliveryOrder` and
  `StaysWithFilter` except the filter from then on. A copy made while
  `current_freeslot` is past the last slot delivers what it holds but refuses every
  packet (`get_pktposptr` returns NULL); no property speaks of it. The stores are
  taken in source order, the test for space and the copy of the packet's bytes as one
  step, so a copy of half of a packet's bytes is not shown.
- SiteCategory: after a duplicate query, or an exception other than askgoogle_exception
  (of the log, or of the directory of the database file), an entry may stay pending for
  ever; `OrphanHasCause` says that this takes one of the two, not that it cannot be.
- ProxyConnection: a page for a name that cannot be resolved is started and cut
  off; the web server's handler for posted data ignores errors. The properties
  except these two. After a read that lost the place in a header or in the chunks of a
  response (below) an HTML page may be sent, and any connection ended without an error,
  before the body is whole; `HtmlAfterWhole` and `AnswerComplete` except it. The same
  fragments of a request's header only change what is parsed (any request may be) and
  are not marked. Units that arrive behind the header of a CONNECT request would be
  dropped (`ssl_start_reading` reads into the buffer they are in); none are sent.
- Speeds of 32 MByte/sec and more are shown modulo 32 MByte/sec. From 128
  KByte/sec on pack_speed stores the whole speed in KByte/sec, not what is over 128
  KByte/sec as the comment above it (`filtercnt.cpp:139`) says; unpack_speed agrees
  with the code.
- HttpResponse: a header fragment without a line end is dropped, one with its first
  line end in second place loses a byte; a chunk that begins inside a read, ends
  beyond it and is shorter than the read is left too early, after which the data is
  read as chunk headers and an HTML page can even be taken for complete. The
  properties except exactly these reads (`AwkwardFragment`, `AwkwardRead`). Chunk
  extensions, whose hexadecimal digits the code takes for a part of the size, and
  trailers are not sent.
- DhcpServer: the properties except (1) an address given because it was asked for
  while another client's entry still had it (`contested`; the branch lacks the test
  of the slot's entry that the branch before it has), (2) slots read under a negative
  index, (3) an entry taken through the slot of an address it has left (`moved`),
  (4) writes of the lease file that failed or were cut, (5) a client with two records
  in the file: an expired entry that was offered to another client and not requested
  leaves the record of its former owner, whose new lease is then passed over when the
  file is read, (6) a static host that declined its address, (7) the lease whose ACK was
  sent but not recorded before the process stopped, until the next start, which does not
  have it. All of them occur in the
  model. One range, no replication. All leases have the configured length: a client that
  asks for a shorter one (option 51) is not modelled, nor that the reply which shortens a
  lease is lost, after which the client relies on the longer one. No time passes between
  a reply and its record.
- DnsForwarder: a host name whose lease was released, and an answer renewed with a shorter
  time to live, go on being served until their old time, because `dnsAge` still has that
  and scanloc does not look at the expiry; `ServedInTime` holds them to the old time
  (`moved`). Two queries with one id at the same time are confused (the answers
  are then marked `clash`), and an answer whose id is a host name is dropped while the
  host name is marked as answered, and also served until its old time. Forwarding is switched on and the answers of
  forwarding servers are what was asked. TCP, zone transfers, child zones, aliases and
  wild hosts are not modelled.
- FilterMatch reads the counters of a rule's condition in the step of the match.
  `RULE_OUTGOING` as a source is tested with `!=` and so matches what is not
  outgoing, against the comment in `rule_common.h`, and a rule with both ICMP options tests
  only the TTL one: the model has both as they are, and no property asks more.
  `PORT_NOTBETWEEN` includes its two ends.
- Users, monitor and the rest listed as not modelled
  in `PROJECT.json`.

## Plan

1. Proofs: what init reads back. `HeldIsRecorded` needs an invariant that relates the
   records of the file to the indexes of the entries, in place of the fold.
2. An abstract specification of a lease (an address has one holder until it
   expires) that DhcpServer without its exceptions implements.
3. UsersConnected and the SMS queue; monitor.

---------------------------- MODULE DnsForwarder ----------------------------
(***************************************************************************)
(* The DNS half of CDualServer: a query is answered from dnsCache or sent  *)
(* on to a forwarding server (gdnmess, scanloc, fdnmess), the server's     *)
(* answer is matched to the query by its 16 bit id (frdnmess), and each    *)
(* round of the service's loop ends with checkSize, which drops what has   *)
(* expired and leaves a forwarding server that did not answer.             *)
(*                                                                         *)
(* One map, dnsCache, holds the queries under way under their ids, the     *)
(* answers of forwarding servers and the host names of DHCP clients under  *)
(* their names; ids are written in decimal, so a host name can be the same *)
(* key.  Child zones, zone transfers, aliases, TCP and wild hosts are left *)
(* out; checkDNS is never called.                                          *)
(***************************************************************************)
EXTENDS Integers, Sequences, FiniteSets, FiniteSetsExt, SequencesExt

CONSTANTS
    Allowed,    \* the clients that may use the server
    Refused,    \* and some that may not
    Id,         \* ids of queries
    Ext,        \* names that are not local
    Host,       \* names DHCP clients give themselves, without a dot
    Servers,    \* how many forwarding servers there are
    QueueTime,  \* how long a query waits for its answer, 2 seconds
    SelectTime, \* the timeout of select, 2 seconds
    Ttl,        \* times answers may be kept
    LeaseTime,  \* length of a DHCP lease
    World       \* the surroundings to look at, see world

Server == 1 .. Servers
Name == Ext \cup Host
Key == Id \cup Name
None == [none |-> TRUE]
NotFound == -1

(***************************************************************************)
(* Times are relative to the clock.  Zero is the time 0, with which an     *)
(* answered query is marked.                                               *)
(***************************************************************************)
Oldest == -(SelectTime + 1)
Zero == Oldest - 1

ASSUME DnsAssumption ==
    /\ Allowed \cap Refused = {}
    /\ Ext \cap (Host \cup Id) = {}
    /\ Servers \in Nat \ {0}
    /\ {QueueTime, SelectTime, LeaseTime} \subseteq Nat
    /\ Ttl \subseteq Nat /\ Ttl # {}
    /\ \A w \in World :
          /\ w.asks \subseteq [client : Allowed \cup Refused, id : Id, name : Name]
          /\ w.alive \subseteq Server /\ w.fails \in Nat
          /\ {w.prompt, w.hosts} \subseteq BOOLEAN

VARIABLES
    world,      \* fixed: the queries clients may send; the servers that
                \* answer, and whether at once; how many sends fail;
                \* whether host names change
    phase,      \* where the loop is: "dns", "forw" or "check"
    waited,     \* time since the loop went to wait in select
    dnsCache,   \* for each key its entries, in the order they were added
    currentDNS, \* the forwarding server in use
    wire,       \* queries sent on that may still be answered
    asking,     \* queries whose clients wait for an answer
    shared,     \* ids of two different queries sent on at the same time
    open,       \* queries sent on since their clients had the last answer
    out,        \* the reply sent in this step
    fails

vars == <<world, phase, waited, dnsCache, currentDNS, wire, asking, shared, open, out, fails>>

NextDNS(i) == (i % Servers) + 1

(***************************************************************************)
(* The map.  "age" is the time under which dnsAge has the entry; it is set *)
(* when the entry is added and when checkSize comes across it.  "granted"  *)
(* is the latest expiry the entry ever had; it is "moved" when its expiry   *)
(* has been set to an earlier time since dnsAge was last brought up to it.  *)
(***************************************************************************)
Entry(type, expiry, client, query, dnsIndex) ==
    [type |-> type, expiry |-> expiry, age |-> expiry, granted |-> expiry, moved |-> FALSE,
     client |-> client, query |-> query, dnsIndex |-> dnsIndex]

\* findEntry with a type: the position of the first such entry, 0 for none.
FindEntry(d, k, type) ==
    LET found == {i \in DOMAIN d[k] : d[k][i].type = type} IN
    IF found = {} THEN 0 ELSE Min(found)

AddEntry(d, k, e) == [d EXCEPT ![k] = Append(@, e)]

Later(a, b) == IF a > b THEN a ELSE b

\* A new expiry for entry i of key k; dnsAge is left as it is.
Renew(d, k, i, expiry) ==
    [d EXCEPT ![k][i].expiry = expiry, ![k][i].granted = Later(@, expiry),
              ![k][i].moved = @ \/ expiry < d[k][i].expiry]

\* The entry of that type gets a new expiry, or is added.
Store(d, k, type, expiry) ==
    LET i == FindEntry(d, k, type) IN
    IF i # 0 THEN Renew(d, k, i, expiry)
             ELSE AddEntry(d, k, Entry(type, expiry, "nobody", k, 1))

-----------------------------------------------------------------------------
Init ==
    /\ world \in World
    /\ phase = "dns" /\ waited = 0
    /\ dnsCache = [k \in Key |-> << >>]
    /\ currentDNS = 1
    /\ wire = {} /\ asking = {} /\ shared = {} /\ open = {} /\ out = None /\ fails = 0

Reply(kind, c, x, about, addr) ==
    [kind |-> kind, client |-> c, id |-> x, about |-> about, addr |-> addr]

(***************************************************************************)
(* scanloc: the first entry of the name decides.  Nothing looks at its     *)
(* expiry.                                                                 *)
(***************************************************************************)
FoundLocally(n) == dnsCache[n] # << >> /\ dnsCache[n][1].type # "QUEUE"

NotKnown(n) == n \in Host /\ dnsCache[n] = << >>

\* A client asks, or asks again because it had no answer.  In a world of prompt
\* servers the client waits for an answer that is on its way, and an id is not
\* used for another query as long as the server remembers it.
MayAsk(q) ==
    /\ phase = "dns" /\ q \in world.asks
    /\ world.prompt => /\ q \in asking \/ dnsCache[q.id] = << >>
                       /\ \A w \in wire : w.query # q

\* gdnmess refuses clients outside the allowed ranges.
QueryRefused(q) ==
    /\ MayAsk(q) /\ q.client \in Refused
    /\ out' = Reply("refused", q.client, q.id, q.name, None)
    /\ phase' = "forw"
    /\ UNCHANGED <<world, waited, dnsCache, currentDNS, wire, asking, shared, open, fails>>

\* The answer is in the map, or a name without a dot is not known.
QueryLocal(q) ==
    /\ MayAsk(q) /\ q.client \in Allowed
    /\ FoundLocally(q.name) \/ NotKnown(q.name)
    /\ out' = IF NotKnown(q.name) THEN Reply("unknown", q.client, q.id, q.name, None)
              ELSE Reply("kept", q.client, q.id, q.name, dnsCache[q.name][1])
    /\ asking' = asking \ {q}
    /\ phase' = "forw"
    /\ UNCHANGED <<world, waited, dnsCache, currentDNS, wire, shared, open, fails>>

(***************************************************************************)
(* fdnmess: a query whose id is still in the queue goes to the next        *)
(* server.                                                                 *)
(***************************************************************************)
ServerFor(x) ==
    LET i == FindEntry(dnsCache, x, "QUEUE") IN
    IF i # 0 /\ dnsCache[x][i].dnsIndex = currentDNS
    THEN NextDNS(currentDNS) ELSE currentDNS

\* Mutant: an entry that is used again keeps the name of its last query.
MutQueued(q) ==
    LET i == FindEntry(dnsCache, q.id, "QUEUE")
        e == Entry("QUEUE", QueueTime, q.client, q.name, ServerFor(q.id))
    IN  IF i = 0 THEN AddEntry(dnsCache, q.id, e)
        ELSE [dnsCache EXCEPT ![q.id][i] =
                 [e EXCEPT !.age = dnsCache[q.id][i].age, !.query = dnsCache[q.id][i].query]]

Queued(q) ==
    LET i == FindEntry(dnsCache, q.id, "QUEUE")
        e == Entry("QUEUE", QueueTime, q.client, q.name, ServerFor(q.id))
    IN  IF i = 0 THEN AddEntry(dnsCache, q.id, e)
        ELSE [dnsCache EXCEPT ![q.id][i] = [e EXCEPT !.age = dnsCache[q.id][i].age]]

ToForward(q) ==
    /\ MayAsk(q) /\ q.client \in Allowed
    /\ ~FoundLocally(q.name) /\ ~NotKnown(q.name)

Forward(q) ==
    /\ ToForward(q)
    /\ dnsCache' = Queued(q)
    /\ currentDNS' = ServerFor(q.id)
    /\ wire' = wire \cup [server : {ServerFor(q.id)} \cap world.alive, query : {q}]
    /\ asking' = asking \cup {q} /\ open' = open \cup {q}
    /\ shared' = shared \cup {x \in {q.id} :
                    \E v \in wire : v.query.id = x /\ v.query # q}
    /\ out' = None
    /\ phase' = "forw"
    /\ UNCHANGED <<world, waited, fails>>

\* The send fails: the next server is taken, the queue is left as it is.
ForwardFails(q) ==
    /\ ToForward(q) /\ fails < world.fails
    /\ currentDNS' = NextDNS(ServerFor(q.id))
    /\ fails' = fails + 1
    /\ asking' = asking \cup {q}
    /\ out' = Reply("failed", q.client, q.id, q.name, None)
    /\ phase' = "forw"
    /\ UNCHANGED <<world, waited, dnsCache, wire, shared, open>>

NoQuery ==
    /\ phase = "dns" /\ phase' = "forw" /\ out' = None
    /\ UNCHANGED <<world, waited, dnsCache, currentDNS, wire, asking, shared, open, fails>>

(***************************************************************************)
(* frdnmess: the first entry under the id, of whatever type, is taken for  *)
(* the query, and marked as answered.  An answer to another question than  *)
(* the one in the queue is sent as an alias of it (addRRExt).              *)
(***************************************************************************)
\* An id is shared as long as a query with it may be answered.
StillShared == {x \in shared : \E v \in wire' : v.query.id = x}

\* What remains on the wire: an answer may come twice.
Arrives(w) ==
    /\ phase = "forw" /\ w \in wire
    /\ wire' \in {wire \ {w}} \cup (IF world.prompt THEN {} ELSE {wire})
    /\ shared' = StillShared
    /\ phase' = "check"

IsAwaited(x) == dnsCache[x] # << >> /\ dnsCache[x][1].expiry # Zero

\* Mutant: the entry is left as it is.
MutMarked(x) == dnsCache

Marked(x) == [dnsCache EXCEPT ![x][1].expiry = Zero, ![x][1].moved = TRUE]

AnswerDropped(w) ==
    /\ Arrives(w) /\ ~IsAwaited(w.query.id)
    /\ out' = None
    /\ UNCHANGED <<world, waited, dnsCache, currentDNS, asking, open, fails>>

\* The id is a host name's: that entry is marked, and nothing is sent.
AnswerMistaken(w) ==
    /\ Arrives(w) /\ IsAwaited(w.query.id)
    /\ dnsCache[w.query.id][1].type # "QUEUE"
    /\ dnsCache' = Marked(w.query.id)
    /\ currentDNS' = w.server
    /\ out' = None
    /\ UNCHANGED <<world, waited, asking, open, fails>>

\* The answer is kept, when it is one (not NotFound), under the name in it, and
\* goes to the client in the queue.
Answer(w, ttl) ==
    LET x == w.query.id
        e == dnsCache[x][1]
    IN  /\ Arrives(w) /\ IsAwaited(x) /\ e.type = "QUEUE"
        /\ dnsCache' = IF ttl = NotFound THEN Marked(x)
                       ELSE Store(Marked(x), w.query.name, "CACHED", ttl)
        /\ currentDNS' = w.server
        /\ LET other(q) == q.client # e.client \/ q.id # x IN
           /\ asking' = {q \in asking : other(q)}
           /\ open' = {q \in open : other(q)}
        /\ out' = [Reply("forwarded", e.client, x, e.query, w.query) EXCEPT
                      !.kind = IF x \in shared THEN "clash" ELSE @]
        /\ UNCHANGED <<world, waited, fails>>

NoAnswer ==
    /\ phase = "forw" /\ phase' = "check" /\ out' = None
    /\ UNCHANGED <<world, waited, dnsCache, currentDNS, wire, asking, shared, open, fails>>

(***************************************************************************)
(* checkSize goes through the entries that are due, in the order of        *)
(* dnsAge.  One with a later expiry by now is put back under it.           *)
(***************************************************************************)
\* Mutant: an entry is due one unit of time too late.
MutDue(k, i) == dnsCache[k][i].age < -1

Due(k, i) == dnsCache[k][i].age < 0

Removed(k, i) == dnsCache[k][i].expiry < 0

\* Mutant: the server stays in use.
MutLeaveServer(k, i) == currentDNS

\* A query without an answer: its server is left, if it is still in use.
LeaveServer(k, i) ==
    LET e == dnsCache[k][i] IN
    IF e.type = "QUEUE" /\ e.expiry # Zero /\ e.dnsIndex = currentDNS
    THEN NextDNS(currentDNS) ELSE currentDNS

CheckEntry(k, i) ==
    /\ phase = "check" /\ Due(k, i)
    /\ \A l \in Key : \A j \in DOMAIN dnsCache[l] : dnsCache[k][i].age <= dnsCache[l][j].age
    /\ \/ /\ Removed(k, i)
          /\ dnsCache' = [dnsCache EXCEPT ![k] = RemoveAt(@, i)]
          /\ currentDNS' = LeaveServer(k, i)
       \/ /\ ~Removed(k, i)
          /\ dnsCache' = [dnsCache EXCEPT ![k][i].age = dnsCache[k][i].expiry,
                                         ![k][i].moved = FALSE]
          /\ UNCHANGED currentDNS
    /\ out' = None
    /\ UNCHANGED <<world, phase, waited, wire, asking, shared, open, fails>>

CheckEnds ==
    /\ phase = "check"
    /\ \A k \in Key : \A i \in DOMAIN dnsCache[k] : ~Due(k, i)
    /\ phase' = "dns" /\ waited' = 0 /\ out' = None
    /\ UNCHANGED <<world, dnsCache, currentDNS, wire, asking, shared, open, fails>>

CheckSize == CheckEnds \/ \E k \in Key : \E i \in DOMAIN dnsCache[k] : CheckEntry(k, i)

(***************************************************************************)
(* updateDHCP: a client that leases or releases an address adds its host   *)
(* name to the map, or sets the name's new expiry.                         *)
(***************************************************************************)
HostUpdate(h, expiry) ==
    /\ phase = "dns" /\ world.hosts
    /\ expiry = 0 => FindEntry(dnsCache, h, "LOCAL_A") # 0
    /\ dnsCache' = Store(dnsCache, h, "LOCAL_A", expiry)
    /\ out' = None
    /\ UNCHANGED <<world, phase, waited, currentDNS, wire, asking, shared, open, fails>>

\* Time passes while the loop waits in select.  A prompt server's answer is
\* read before.
Sooner(t) == IF t = Zero THEN t ELSE Later(t - 1, Oldest)

Tick ==
    /\ phase = "dns" /\ waited < SelectTime
    /\ world.prompt => wire = {}
    /\ waited' = waited + 1
    /\ dnsCache' = [k \in Key |-> [i \in DOMAIN dnsCache[k] |->
          [dnsCache[k][i] EXCEPT !.expiry = Sooner(@), !.age = Sooner(@),
                                 !.granted = Sooner(@)]]]
    /\ out' = None
    /\ UNCHANGED <<world, phase, currentDNS, wire, asking, shared, open, fails>>

\* A query or its answer is lost.
Lose(w) ==
    /\ w \in wire /\ ~world.prompt
    /\ wire' = wire \ {w} /\ shared' = StillShared /\ out' = None
    /\ UNCHANGED <<world, phase, waited, dnsCache, currentDNS, asking, open, fails>>

Ask(q) == QueryRefused(q) \/ QueryLocal(q) \/ Forward(q) \/ ForwardFails(q)

Receive ==
    \E w \in wire : \/ AnswerDropped(w) \/ AnswerMistaken(w)
                    \/ \E ttl \in Ttl \cup {NotFound} : Answer(w, ttl)

Next ==
    \/ \E q \in world.asks : Ask(q)
    \/ NoQuery
    \/ Receive
    \/ NoAnswer
    \/ CheckSize
    \/ \E h \in Host, expiry \in {0, LeaseTime} : HostUpdate(h, expiry)
    \/ Tick
    \/ \E w \in wire : Lose(w)

(***************************************************************************)
(* The loop never stops, time passes, an answer that has arrived is read,  *)
(* and a client that had no answer asks again.                             *)
(***************************************************************************)
Repeated == UNION {w.asks : w \in {v \in World : v.prompt /\ ~v.hosts}}

Fairness ==
    /\ WF_vars(NoQuery \/ NoAnswer \/ CheckSize)
    /\ SF_vars(Receive) /\ SF_vars(Tick)
    /\ \A q \in Repeated : SF_vars(q \in asking /\ Ask(q))

Spec == Init /\ [][Next]_vars /\ Fairness

-----------------------------------------------------------------------------
(***************************************************************************)
(* Properties                                                              *)
(***************************************************************************)
\* An answer of a forwarding server goes to the client that asked, as the
\* answer to the question it asked, unless another query with the same id was
\* under way: frdnmess compares the id alone, and fdnmess keeps one entry for it
\* that outlives its query.
RightAnswer ==
    out # None /\ out.kind = "forwarded" =>
        out.addr = [client |-> out.client, id |-> out.id, name |-> out.about]

\* A query is answered once, however many servers answer it and however often
\* (queue->expiry = 0 in frdnmess), until the client asks again.
AnsweredOnce ==
    [][out' # None /\ out'.kind = "forwarded" =>
        [client |-> out'.client, id |-> out'.id, name |-> out'.about] \in open]_vars

\* A name is served from the map until its time is over and no longer than one
\* wait in select after that, although scanloc does not look at the expiry:
\* checkSize has dropped it by then.  Not so when its time was moved back, by the
\* release of the lease, an answer with a shorter time to live or an answer whose
\* id is the name: dnsAge still has the old time, and the name is served until
\* one wait after that.
ServedInTime ==
    out # None /\ out.kind = "kept" =>
        \/ out.addr.expiry >= -SelectTime
        \/ out.addr.moved /\ out.addr.granted >= -SelectTime

\* With one forwarding server that answers, a query that its client repeats is
\* answered, whichever server is in use at first: fdnmess and checkSize turn to
\* another server and frdnmess stays with the one that answers.
EventuallyAnswered ==
    \A q \in Repeated :
        (world.prompt /\ ~world.hosts /\ q \in asking) ~> (q \notin asking)
=============================================================================

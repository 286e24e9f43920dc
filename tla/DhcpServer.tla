----------------------------- MODULE DhcpServer -----------------------------
(***************************************************************************)
(* The DHCP half of CDualServer: which address a client is offered         *)
(* (resad, chad), how a request is acknowledged (sdmess, alad), how the    *)
(* lease reaches the lease file (updateDHCP, updateStateFile) and how init *)
(* reads the file back after a stop at any point.                          *)
(*                                                                         *)
(* configdhcp gives the server one range, no filters by hardware address   *)
(* or class, and no replication partner, so checkRange is always true and  *)
(* sendRepl and recvRepl do nothing.  Entries (data7) are objects on a     *)
(* heap that the map dhcpCache and the slots of the range point to: a slot *)
(* may point to an entry that has moved on to another address.             *)
(***************************************************************************)
EXTENDS Integers, Sequences, FiniteSets, FiniteSetsExt, SequencesExt

CONSTANTS
    Client,     \* hardware addresses, numbers: the order of the map dhcpCache
    RangeSize,  \* number of addresses in the range
    Locked,     \* addresses locked for good when the server starts
    Static,     \* the configured hosts: a function from clients to addresses
    Net,        \* the networks requests come from: interfaces and relays
    Via,        \* the interface a network's packets arrive at
    Gateway,    \* a relay's own address in the range, 0 for none
    Reach,      \* the addresses within the limits of a network
    CharBits,   \* width of a char
    DhcpWorld,  \* the surroundings to look at: the networks each client sends
                \* from, and how often the file fails and the server stops
    BootpClient,\* the clients that also use BOOTP
    OfferTime,  \* how long an offer is kept, 20 seconds
    Lease,  \* the lease, at least as long as an offer
    MaxIndex,   \* bound on the records of the lease file
    MaxMishap   \* bound on the events the properties make an exception for

Addr == 1 .. RangeSize
NULL == 0
Pointer == Client \cup -RangeSize .. -1

(***************************************************************************)
(* Times are kept relative to the clock, so that the clock needs no bound: *)
(* a tick moves every time one step closer, and what lies behind stays in  *)
(* the past.  The code compares times with the clock and with each other,  *)
(* and never two that have passed.                                         *)
(***************************************************************************)
Never == 0
Past == 1
Now == 2
Forever == Now + Lease + 1                     \* INT_MAX
Until(d) == Now + d

ASSUME DhcpAssumption ==
    /\ Client \subseteq Nat \ {0} /\ IsFiniteSet(Client)
    /\ RangeSize \in Nat \ {0} /\ Locked \subseteq Addr
    /\ DOMAIN Static \subseteq Client
    /\ \A c \in DOMAIN Static : Static[c] \in Addr
    /\ \A c, d \in DOMAIN Static : Static[c] = Static[d] => c = d
    /\ 0 \notin Net /\ Via \in [Net -> Net]
    /\ Gateway \in [Net -> Addr \cup {0}]
    /\ Reach \in [Net -> SUBSET Addr]
    /\ CharBits \in Nat \ {0}
    /\ \A w \in DhcpWorld : /\ w.visits \in [Client -> SUBSET Net]
                        /\ {w.fails, w.stops} \subseteq Nat
    /\ BootpClient \subseteq Client
    /\ {OfferTime, Lease} \subseteq Nat \ {0} /\ OfferTime <= Lease
    /\ {MaxIndex, MaxMishap} \subseteq Nat

VARIABLES
    dhcpWorld,  \* the surroundings, fixed from the start
    up,         \* the server runs
    loaded,     \* how many records of the file init has read, while not up
    mem,        \* the server's memory
    file,       \* the lease file: a sequence of data8 records
    held,       \* for each client the lease it was last told it has
    owed,       \* the lease in the reply just sent, which alad has not recorded
                \* yet, and will not if the process stops here
    hist        \* what went wrong so far, and the bounded events

dhcpVars == <<dhcpWorld, up, loaded, mem, file, held, owed, hist>>

NoLease == [ip |-> 0, until |-> Past]
Nothing == [client |-> 0, until |-> Past]

(***************************************************************************)
(* Memory.  Pointers are the numbers of entries in the heap, NULL is none; *)
(* expiry and dhcpEntry are the two arrays of the range.  An entry nothing *)
(* points to is leaked by the code and blank here.                         *)
(***************************************************************************)
Blank ==
    [mac |-> 0, ip |-> 0, expiry |-> Never, source |-> 0, ind |-> 0,
     fixed |-> FALSE, no_route |-> FALSE]

Referenced(m) ==
    {m.cache[c] : c \in Client} \cup {m.dhcpEntry[a] : a \in Addr}

\* calloc of an entry for client c, which dhcpCache points to.
NewEntry(m, c) ==
    LET e  == CHOOSE x \in Pointer : x \notin Referenced(m)
        m1 == [m EXCEPT !.cache[c] = e]
    IN  [m1 EXCEPT !.heap = [x \in Pointer |->
            IF x = e THEN [Blank EXCEPT !.mac = c]
            ELSE IF x \in Referenced(m1) THEN m.heap[x] ELSE Blank]]

\* What init sets up before it reads the lease file: the address of a static
\* host is locked, its entry fixed and without a lease.  Of two hosts with one
\* address the code takes the first, so Static has none.
Configured ==
    [cache |-> [c \in Client |-> IF c \in DOMAIN Static THEN c ELSE NULL],
     heap |-> [e \in Pointer |->
                  IF e \in DOMAIN Static
                  THEN [Blank EXCEPT !.mac = e, !.ip = Static[e], !.fixed = TRUE]
                  ELSE Blank],
     expiry |-> [a \in Addr |->
                    IF a \in Locked \/ \E c \in DOMAIN Static : Static[c] = a
                    THEN Forever ELSE Never],
     dhcpEntry |-> [a \in Addr |-> NULL],
     dhcpIndex |-> 0]

\* Mutant: the array of the range is left as it is.
MutSetLeaseExpiry(m, e, until) ==
    IF m.heap[e].ip = 0 THEN m
    ELSE [m EXCEPT !.heap[e].expiry = until, !.dhcpEntry[m.heap[e].ip] = e]

\* setLeaseExpiry(entry, ...): an address that is locked stays locked, and the
\* slot of the entry's address points to the entry from now on.
SetLeaseExpiry(m, e, until) ==
    LET a == m.heap[e].ip IN
    IF a = 0 THEN m
    ELSE [m EXCEPT !.heap[e].expiry = until,
                   !.expiry[a] = IF @ = Forever THEN @ ELSE until,
                   !.dhcpEntry[a] = e]

\* setLeaseExpiry(ip, INT_MAX)
LockAddr(m, a) == IF a = 0 THEN m ELSE [m EXCEPT !.expiry[a] = Forever]

\* chad: the address the client's entry has on this network, 0 for none.
Chad(m, c, n) ==
    LET e == m.cache[c] IN
    IF /\ e # NULL
       /\ m.heap[e].fixed \/ m.heap[e].source \in {n, Via[n]}
    THEN m.heap[e].ip ELSE 0

(***************************************************************************)
(* resad.  Indexes into the range are kept in a char in three places.      *)
(***************************************************************************)
Char(i) == ((i + 2 ^ (CharBits - 1)) % 2 ^ CharBits) - 2 ^ (CharBits - 1)

\* The slot that is looked at for address a, 0 when its index is negative.
SlotOf(a) == IF Char(a - 1) < 0 THEN 0 ELSE Char(a - 1) + 1

\* The address the DNS cache has for the client's host name may be given when
\* its slot is unused; the address the client asks for when it has expired.
HintOK(m, n, a) ==
    /\ a # 0 /\ a \in Reach[n] /\ SlotOf(a) # 0
    /\ m.expiry[SlotOf(a)] <= Now /\ m.dhcpEntry[SlotOf(a)] = NULL

AskOK(m, n, a) ==
    /\ a # 0 /\ a \in Reach[n] /\ SlotOf(a) # 0
    /\ m.expiry[SlotOf(a)] <= Now

\* The search through the range: addresses never used, and expired ones.
Unused(m, n) == {a \in Reach[n] : m.expiry[a] = Never}

\* Mutant: any address that is not locked.
MutExpired(m, n) == {a \in Reach[n] : m.expiry[a] < Forever}

Expired(m, n) == {a \in Reach[n] : m.expiry[a] = Past}

\* The entry pointer found in the slot of an expired address: with a negative
\* index it is whatever lies in front of the array.
OwnersFound(m, a) ==
    IF SlotOf(a) = 0 THEN {NULL} \cup Referenced(m) ELSE {m.dhcpEntry[SlotOf(a)]}

\* The entry e has address a from now on, asked for from network n.
Place(m, e, a, n) ==
    [m EXCEPT !.heap[e].ip = a,
              !.heap[e].source = IF m.heap[e].fixed THEN @ ELSE n]

\* The entry e gets address a for the time of an offer.
Offer(m, e, a, n) == SetLeaseExpiry(Place(m, e, a, n), e, Until(OfferTime))

\* A new address goes to the entry the client has, or to a new one.
Give(m, e, a, c, n) ==
    IF e # NULL THEN Offer(m, e, a, n)
    ELSE LET m1 == NewEntry(m, c) IN Offer(m1, m1.cache[c], a, n)

\* The entry of the slot changes hands: its old name leaves dhcpCache.
TakeOver(m, e, a, c, n) ==
    LET old == m.heap[e].mac
        m1  == [m EXCEPT !.cache = [@ EXCEPT ![old] = NULL, ![c] = e],
                         !.heap[e].mac = c]
    IN  Offer(m1, e, a, n)

\* The client keeps the address its entry has.
KeepsAddr(m, c, n) ==
    /\ Chad(m, c, n) # 0
    /\ Chad(m, c, n) \in Reach[n] \/ m.heap[m.cache[c]].fixed

Keep(m, c, n) ==
    LET e == m.cache[c] IN
    SetLeaseExpiry([m EXCEPT !.heap[e].no_route =
                                @ \/ m.heap[e].ip \notin Reach[n]],
                   e, Until(OfferTime))

\* The outcomes of resad: the new memory, and the address and pointer used.
Resad(m0, c, n, ask, hint) ==
    LET m    == LockAddr(m0, Gateway[n])
        e    == m.cache[c]
        done(mm, a, how, own) == [mem |-> mm, ip |-> a, how |-> how, own |-> own]
    IN  CASE KeepsAddr(m, c, n) ->
               {done(Keep(m, c, n), m.heap[e].ip, "keep", e)}
          [] ~KeepsAddr(m, c, n) /\ HintOK(m, n, hint) ->
               {done(Give(m, e, hint, c, n), hint, "asked", NULL)}
          [] ~KeepsAddr(m, c, n) /\ ~HintOK(m, n, hint) /\ AskOK(m, n, ask) ->
               {done(Give(m, e, ask, c, n), ask, "asked", NULL)}
          [] OTHER ->
               IF Unused(m, n) # {}
               THEN LET a == Min(Unused(m, n)) IN
                    {done(Give(m, e, a, c, n), a, "unused", NULL)}
               ELSE IF Expired(m, n) # {}
               THEN LET a == Min(Expired(m, n)) IN
                    {done(IF o = NULL THEN Give(m, NULL, a, c, n)
                                      ELSE TakeOver(m, o, a, c, n),
                          a, "expired", o) : o \in OwnersFound(m, a)}
               ELSE {done(m, 0, "none", NULL)}

(***************************************************************************)
(* The lease file.                                                         *)
(***************************************************************************)
GapRecord == [mac |-> 0, ip |-> 0, source |-> 0, expiry |-> Never]

\* fseek and fwrite: a record beyond the end leaves zeros before it.
WriteAt(f, i, r) ==
    [j \in 1 .. (IF i <= Len(f) THEN Len(f) ELSE i) |->
        IF j = i THEN r ELSE IF j <= Len(f) THEN f[j] ELSE GapRecord]

\* The record updateDHCP makes of an entry.
Record(m, e, c) ==
    [mac |-> c, ip |-> m.heap[e].ip, source |-> m.heap[e].source,
     expiry |-> m.heap[e].expiry]

\* updateDHCP and updateStateFile: the entry's expiry, its index, which is
\* counted up before the record is appended, and the record; "ok" says whether
\* the file could be opened.
UpdateDHCP(m0, f, e, c, until, ok) ==
    LET m1 == SetLeaseExpiry(m0, e, until)
        i  == m1.heap[e].ind
        m2 == IF i # 0 THEN m1
              ELSE [m1 EXCEPT !.dhcpIndex = @ + 1,
                              !.heap[e].ind = m1.dhcpIndex + 1]
        r  == Record(m1, e, c)
    IN  [mem |-> m2,
         file |-> IF ~ok THEN f
                  ELSE IF i # 0 THEN WriteAt(f, i, r) ELSE Append(f, r)]

(***************************************************************************)
(* init: the lease file is read record by record, then written anew.       *)
(***************************************************************************)
\* The entries in the map that have address a.
Having(m, a) == {c \in Client : m.cache[c] # NULL /\ m.heap[m.cache[c]].ip = a}

\* A record is passed over when the client's entry has another address, and
\* when the address has a static host or an entry that expires later.
PassedOver(m, r) ==
    IF r.ip \notin Addr THEN TRUE
    ELSE IF m.cache[r.mac] # NULL THEN m.heap[m.cache[r.mac]].ip # r.ip
    ELSE \E d \in Having(m, r.ip) :
            \/ m.heap[m.cache[d]].fixed
            \/ m.heap[m.cache[d]].expiry > r.expiry

LoadRecord(m, r) ==
    IF PassedOver(m, r) THEN m
    ELSE LET m1 == [m EXCEPT !.cache = [c \in Client |->
                       IF m.cache[r.mac] = NULL /\ c \in Having(m, r.ip)
                       THEN NULL ELSE @[c]]]
             m2 == IF m1.cache[r.mac] # NULL THEN m1 ELSE NewEntry(m1, r.mac)
             e  == m2.cache[r.mac]
         IN  SetLeaseExpiry(Place(m2, e, r.ip, r.source), e,
                            IF r.expiry > Now THEN r.expiry ELSE Now)

\* The clients whose entries are written back, in the order of the map.
WithLease(m) ==
    {c \in Client : m.cache[c] # NULL /\ m.heap[m.cache[c]].expiry # Never}

WrittenBack(m) ==
    CHOOSE w \in [1 .. Cardinality(WithLease(m)) -> WithLease(m)] :
        \A i, j \in DOMAIN w : i < j => w[i] < w[j]

\* Mutant: the counter is not set to the number of records.
MutRenumbered(m) ==
    LET w == WrittenBack(m) IN
    [m EXCEPT !.heap = [e \in Pointer |->
                  [m.heap[e] EXCEPT !.ind =
                      IF \E i \in DOMAIN w : m.cache[w[i]] = e
                      THEN CHOOSE i \in DOMAIN w : m.cache[w[i]] = e ELSE 0]]]

\* Writing the entries back gives each its new index.
Renumbered(m) ==
    LET w == WrittenBack(m) IN
    [m EXCEPT !.dhcpIndex = Len(w),
              !.heap = [e \in Pointer |->
                  [m.heap[e] EXCEPT !.ind =
                      IF \E i \in DOMAIN w : m.cache[w[i]] = e
                      THEN CHOOSE i \in DOMAIN w : m.cache[w[i]] = e ELSE 0]]]

WrittenFile(m) ==
    [i \in DOMAIN WrittenBack(m) |->
        LET c == WrittenBack(m)[i] IN Record(m, m.cache[c], c)]

-----------------------------------------------------------------------------
(***************************************************************************)
(* The state machine: one message of a client is one step of runProg, two  *)
(* when the reply grants a lease: sdmess sends it, then alad records it.   *)
(***************************************************************************)
DhcpInit ==
    /\ dhcpWorld \in DhcpWorld
    /\ up = TRUE
    /\ loaded = 0
    /\ mem = Configured
    /\ file = << >>
    /\ held = [c \in Client |-> NoLease]
    /\ owed = Nothing
    /\ hist = [mishaps |-> {}, contested |-> {}, fails |-> 0, stops |-> 0]

\* The loop waits for a message.
Idle == up /\ owed = Nothing

\* A client's address was given away although another client's entry still has
\* it, or although it is in use.
Contests(m, c, r) ==
    /\ r.how = "asked"
    /\ m.expiry[r.ip] > Now \/ Having(m, r.ip) \ {c} # {}

\* Another pointer than the slot's own was used.
Misread(m, r) == r.how = "expired" /\ r.own # m.dhcpEntry[r.ip]

\* The slot's entry had gone to another address or another client.
Moved(m, r) ==
    /\ r.how = "expired" /\ r.own # NULL /\ r.own = m.dhcpEntry[r.ip]
    /\ m.heap[r.own].ip # r.ip \/ m.cache[m.heap[r.own].mac] # r.own

\* DHCPDISCOVER.  A client that sends one has given up the lease it had.
Discover(c, n, ask, hint) ==
    /\ Idle
    /\ \E r \in Resad(mem, c, n, ask, hint) :
        /\ mem' = r.mem
        /\ hist' = [hist EXCEPT
              !.contested = IF Contests(mem, c, r) THEN @ \cup {r.ip} ELSE @,
              !.mishaps = @ \cup (IF Misread(mem, r) THEN {"misread"} ELSE {})
                            \cup (IF Moved(mem, r) THEN {"moved"} ELSE {})]
    /\ held' = [held EXCEPT ![c] = NoLease]
    /\ UNCHANGED <<up, loaded, file, owed>>

\* Whether the lease file can be opened this time.
FileOK == {TRUE} \cup (IF hist.fails < dhcpWorld.fails THEN {FALSE} ELSE {})

Saving(ok) ==
    hist' = [hist EXCEPT !.fails = IF ok THEN @ ELSE @ + 1,
                         !.mishaps = IF ok THEN @ ELSE @ \cup {"unsaved"}]

\* The entry of client c is updated, until the given time, and saved.
Update(c, until, ok) ==
    LET u == UpdateDHCP(mem, file, mem.cache[c], c, until, ok) IN
    /\ mem' = u.mem
    /\ file' = u.file
    /\ Saving(ok)
    /\ UNCHANGED <<up, loaded>>

CanAck(c, n, a) ==
    Chad(mem, c, n) = a /\ mem.heap[mem.cache[c]].expiry > Now

\* A static host outside the limits of the network gets its address for good.
Granted(c) ==
    IF mem.heap[mem.cache[c]].no_route THEN Forever ELSE Until(Lease)

\* What a client is told.  That an answer is lost needs no step of its own: the
\* client then goes on with the lease it had, which ends no later than the one
\* the server has promised now, as all leases asked for have the same length.
Told(c, lease) == held' = [held EXCEPT ![c] = lease]

\* A new record needs room below the bound.
Room(c) == mem.heap[mem.cache[c]].ind # 0 \/ mem.dhcpIndex < MaxIndex

\* The reply with a lease is sent; the record of it is still to be made.  A reply
\* that cannot be sent is not recorded, and changes nothing.
Promise(c, lease) ==
    /\ Told(c, lease)
    /\ owed' = [client |-> c, until |-> lease.until]
    /\ UNCHANGED <<up, loaded, mem, file, hist>>

\* DHCPREQUEST that is acknowledged.
RequestAck(c, n, a) ==
    /\ Idle /\ CanAck(c, n, a) /\ Room(c)
    /\ Promise(c, [ip |-> a, until |-> Granted(c)])

\* DHCPREQUEST that is refused.
RequestNak(c, n, a) ==
    /\ Idle /\ ~CanAck(c, n, a)
    /\ Told(c, NoLease)
    /\ UNCHANGED <<up, loaded, mem, file, owed, hist>>

\* BOOTP: a client that has an entry gets its address for good.
Bootp(c, n) ==
    /\ Idle /\ Chad(mem, c, n) # 0 /\ Room(c)
    /\ Promise(c, [ip |-> Chad(mem, c, n), until |-> Forever])

\* alad, after the reply: memory and lease file are brought up to what the client
\* was told.
Alad(ok) ==
    /\ up /\ owed # Nothing
    /\ Update(owed.client, owed.until, ok)
    /\ owed' = Nothing
    /\ UNCHANGED held

\* DHCPDECLINE: the address is locked and the entry loses it; the lease file
\* is left as it is.
Decline(c, n) ==
    /\ Idle /\ Chad(mem, c, n) # 0
    /\ mem' = [LockAddr(mem, Chad(mem, c, n)) EXCEPT
                  !.heap[mem.cache[c]].ip = 0]
    /\ Told(c, NoLease)
    /\ UNCHANGED <<up, loaded, file, owed, hist>>

\* DHCPRELEASE: a lease of length zero.
Release(c, n, ok) ==
    /\ Idle /\ Chad(mem, c, n) # 0 /\ Room(c)
    /\ Update(c, Now, ok)
    /\ Told(c, NoLease)
    /\ UNCHANGED owed

\* One unit of time passes (none while init reads the file, or between a reply
\* and its record).
Closer(t) == IF t \in {Never, Past, Forever} THEN t ELSE t - 1

DhcpTick ==
    /\ loaded = 0 /\ (up => Idle)
    /\ mem' = [mem EXCEPT
          !.heap = [e \in Pointer |-> [mem.heap[e] EXCEPT !.expiry = Closer(@)]],
          !.expiry = [a \in Addr |-> Closer(mem.expiry[a])]]
    /\ file' = [i \in DOMAIN file |-> [file[i] EXCEPT !.expiry = Closer(@)]]
    /\ held' = [c \in Client |->
                  LET t == Closer(held[c].until) IN
                  IF t <= Now THEN NoLease ELSE [held[c] EXCEPT !.until = t]]
    /\ UNCHANGED <<up, loaded, owed, hist>>

\* The process ends: what is in memory is lost, and a reply not recorded by now
\* never will be.
Crash ==
    /\ hist.stops < dhcpWorld.stops
    /\ up \/ loaded > 0
    /\ up' = FALSE
    /\ loaded' = 0
    /\ mem' = Configured
    /\ hist' = [hist EXCEPT !.stops = @ + 1]
    /\ UNCHANGED <<file, held, owed>>

\* A lease that is held, and one that is known in memory m.
Active(c) == held[c].until > Now

Known(m, c) ==
    LET e == m.cache[c] IN
    /\ e # NULL
    /\ m.heap[e].ip = held[c].ip
    /\ m.heap[e].expiry >= held[c].until

\* init reads the next record of the lease file.
Load ==
    /\ ~up /\ loaded < Len(file)
    /\ mem' = LoadRecord(mem, file[loaded + 1])
    /\ loaded' = loaded + 1
    /\ UNCHANGED <<up, file, held, owed, hist>>

\* What is missing in the file is missing in memory from now on.
LostLeases ==
    IF \E c \in Client : Active(c) /\ ~Known(mem, c) THEN {"lost"} ELSE {}

\* init has read the file and writes it back; when it cannot be written the
\* indexes start from zero beside the old contents.
Start(ok) ==
    /\ ~up /\ loaded = Len(file)
    /\ up' = TRUE
    /\ loaded' = 0
    /\ mem' = IF ok THEN Renumbered(mem) ELSE mem
    /\ file' = IF ok THEN WrittenFile(mem) ELSE file
    /\ hist' = [hist EXCEPT
          !.fails = IF ok THEN @ ELSE @ + 1,
          !.mishaps = @ \cup LostLeases \cup (IF ok THEN {} ELSE {"unsaved"})]
    /\ owed' = Nothing
    /\ UNCHANGED held

\* The process ends while the file is written back: the first k records of
\* the new file are there.
StartCut(k) ==
    /\ ~up /\ loaded = Len(file) /\ hist.stops < dhcpWorld.stops
    /\ k < Len(WrittenFile(mem))
    /\ file' = SubSeq(WrittenFile(mem), 1, k)
    /\ loaded' = 0
    /\ mem' = Configured
    /\ hist' = [hist EXCEPT !.stops = @ + 1, !.mishaps = @ \cup {"unsaved"}]
    /\ UNCHANGED <<up, held, owed>>

\* Nothing is claimed of a server that has used memory in front of its arrays
\* or has started without a lease that is held.
\* A client that has a host name in the cache and asks for an address gets what
\* it would get for one of the two.
DhcpNext ==
    /\ UNCHANGED dhcpWorld
    /\ hist.mishaps \cap {"misread", "lost"} = {}
    /\ Cardinality(hist.mishaps \cap {"moved"}) + Cardinality(hist.contested)
          <= MaxMishap
    /\ \/ \E c \in Client : \E n \in dhcpWorld.visits[c] :
            \/ \E a \in Addr \cup {0} : Discover(c, n, a, 0) \/ Discover(c, n, 0, a)
            \/ \E a \in Addr : RequestAck(c, n, a) \/ RequestNak(c, n, a)
            \/ Decline(c, n)
            \/ \E ok \in FileOK : Release(c, n, ok)
       \/ \E c \in BootpClient : \E n \in dhcpWorld.visits[c] : Bootp(c, n)
       \/ \E ok \in FileOK : Alad(ok)
       \/ DhcpTick
       \/ Crash
       \/ Load
       \/ \E ok \in FileOK : Start(ok)
       \/ \E k \in 0 .. Cardinality(Client) : StartCut(k)

DhcpSpec == DhcpInit /\ [][DhcpNext]_dhcpVars

-----------------------------------------------------------------------------
(***************************************************************************)
(* Properties                                                              *)
(***************************************************************************)
\* Nothing has happened that excuses a lost lease of this address.
Undisturbed(a, excuses) ==
    a \notin hist.contested /\ hist.mishaps \cap excuses = {}

\* No two clients hold one address at the same time.  resad, sdmess and init
\* keep this through offers, releases, declines, renewals and restarts, except
\* for an address given on request while another entry still had it, for slots
\* found under a truncated index, and for leases lost from the lease file.
OneHolder ==
    \A c, d \in Client :
        c # d /\ Active(c) /\ Active(d) /\ held[c].ip = held[d].ip
            => ~Undisturbed(held[c].ip, {"misread", "lost"})

\* A running server knows every lease it has granted until the lease ends, so
\* that a renewal is acknowledged: nobody else's request may take over the
\* entry, and init finds it again in the lease file.  Between the reply and alad
\* it does not know it yet; no message is handled there.
HeldIsKnown ==
    \A c \in Client :
        up /\ Active(c) /\ c # owed.client /\ Undisturbed(held[c].ip, {"misread", "moved", "lost"})
            => Known(mem, c) /\ mem.expiry[held[c].ip] >= held[c].until

\* The lease file has one record of the client at most: an entry that was only
\* offered to another client keeps the record of its former owner.
OneRecord(c) == Cardinality({i \in DOMAIN file : file[i].mac = c}) <= 1

\* A static host that declined its address was given one of the range, until
\* the server starts again.
Displaced(c) == c \in DOMAIN Static /\ held[c].ip # Static[c]

\* What init would have in memory if it read the lease file now.
Loaded == FoldLeft(LoadRecord, Configured, file)

\* What init would load at any moment contains every lease that is held:
\* indexes into the lease file stay with their entries through take-overs,
\* restarts and renumbering, except where a file could not be written or an
\* older record of the client is left in it.  The lease in a reply that was sent
\* before the process stopped and not recorded any more is missing until the
\* server has started again.
HeldIsRecorded ==
    \A c \in Client :
        Active(c) /\ c # owed.client /\ OneRecord(c) /\ ~Displaced(c)
            => Known(Loaded, c) \/ ~Undisturbed(held[c].ip, {"misread", "moved", "unsaved", "lost"})
=============================================================================

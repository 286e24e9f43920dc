------------------------- MODULE DualServerProofs -------------------------
(***************************************************************************)
(* CDualServer, both halves, for any number of clients, names and servers. *)
(*                                                                         *)
(* DNS: queries are forwarded, and answers are late, lost or doubled: whom *)
(* an answer goes to, how often, and how long a name is served.  The       *)
(* invariant is a condition on each entry of the map (Sound) and that an   *)
(* id has one entry of type QUEUE.  The lemmas say what becomes of it when *)
(* an entry is added, replaced or removed.                                 *)
(*                                                                         *)
(* DHCP: who holds an address, and what the memory knows of it.  The       *)
(* invariant (DhcpInv) relates the map, the heap and the array of the      *)
(* range: an address is in one client's entry, and its slot is used and    *)
(* points to that entry (MemInv).  Every outcome of resad, and every       *)
(* record init reads, assigns one address to one entry (Assigned), so that *)
(* most of the work is done once for an assignment.                        *)
(***************************************************************************)
EXTENDS DhcpServer, DnsForwarder, FiniteSetTheorems, SequenceTheorems, WellFoundedInduction, TLAPS

Question == [client : Allowed \cup Refused, id : Id, name : Name]

EntryType ==
    [type : {"QUEUE", "CACHED", "LOCAL_A"}, expiry : Int, age : Int, granted : Int, moved : BOOLEAN,
     client : Allowed \cup Refused \cup {"nobody"}, query : Key, dnsIndex : Server]

Cache == [Key -> Seq(EntryType)]

DnsType ==
    /\ world \in World
    /\ phase \in {"dns", "forw", "check"}
    /\ waited \in 0 .. SelectTime
    /\ dnsCache \in Cache
    /\ currentDNS \in Server
    /\ wire \subseteq [server : Server, query : Question]

\* What the entries of the map are held against.
Env == [waited |-> waited, wire |-> wire, shared |-> shared, open |-> open]

\* A name's entry is looked at by checkSize not long after the time dnsAge has it
\* under, which was its expiry once, and is not after its expiry now unless that
\* was moved back.
InTime(e, env) ==
    e.type # "QUEUE" =>
        /\ e.age >= - env.waited /\ e.age <= e.granted /\ e.expiry <= e.granted
        /\ e.moved \/ e.age <= e.expiry

\* A query in the queue that has no answer yet is the only one with its id that
\* a forwarding server may still answer, unless the id is shared.
Fits(k, e, env) ==
    e.type = "QUEUE" /\ e.expiry # Zero /\ k \notin env.shared =>
        \A w \in env.wire : w.query.id = k =>
            /\ w.query = [client |-> e.client, id |-> k, name |-> e.query]
            /\ w.query \in env.open

Sound(k, e, env) == InTime(e, env) /\ Fits(k, e, env)

AllSound(d, env) == \A k \in Key : \A i \in DOMAIN d[k] : Sound(k, d[k][i], env)

OneQueue(d) ==
    \A k \in Key : \A i, j \in DOMAIN d[k] :
        d[k][i].type = "QUEUE" /\ d[k][j].type = "QUEUE" => i = j

DnsInv ==
    /\ DnsType
    /\ AllSound(dnsCache, Env)
    /\ OneQueue(dnsCache)
    /\ RightAnswer
    /\ ServedInTime

----------------------------------------------------------------------------
(* The map *)

\* A set of numbers that is not empty has a least one, so Min is one of them.
LEMMA MinIsMember ==
    ASSUME NEW S \in SUBSET Nat, S # {}
    PROVE  Min(S) \in S /\ \A y \in S : Min(S) <= y
  <1>1. PICK x \in S : \A y \in S : ~ (<<y, x>> \in OpToRel(<, Nat))
    BY NatLessThanWellFounded, WFMin, Zenon
  <1>2. \A y \in S : ~ (y < x)
    BY <1>1 DEF OpToRel
  <1>3. \A y \in S : x <= y
    BY <1>2
  <1> QED
    BY <1>3 DEF Min

\* findEntry finds an entry of the type, if there is one.
LEMMA FindEntryFacts ==
    ASSUME NEW d \in Cache, NEW k \in Key, NEW type
    PROVE  LET i == FindEntry(d, k, type) IN
           /\ i # 0 => i \in DOMAIN d[k] /\ d[k][i].type = type
           /\ i = 0 => \A j \in DOMAIN d[k] : d[k][j].type # type
  <1> DEFINE found == {j \in DOMAIN d[k] : d[k][j].type = type}
  <1>1. d[k] \in Seq(EntryType) /\ DOMAIN d[k] \in SUBSET (Nat \ {0})
    BY DEF Cache
  <1>2. found \in SUBSET Nat /\ 0 \notin found
    BY <1>1
  <1>3. found # {} => Min(found) \in found
    BY <1>2, MinIsMember
  <1>4. FindEntry(d, k, type) = IF found = {} THEN 0 ELSE Min(found)
    BY DEF FindEntry
  <1> HIDE DEF found
  <1>5. CASE found = {}
    BY <1>4, <1>5 DEF found
  <1>6. CASE found # {}
    <2>1. FindEntry(d, k, type) \in found
      BY <1>3, <1>4, <1>6
    <2> QED
      BY <1>2, <2>1 DEF found
  <1> QED
    BY <1>5, <1>6

\* The map with another entry in place of the i-th of k.
Replace(d, k, i, e) == [d EXCEPT ![k] = [d[k] EXCEPT ![i] = e]]

\* What holds of the entries after a change under key k: of those of other keys
\* and of those that are not queries what held before.
Elsewhere(k, env, new) ==
    \A l \in Key : \A f \in EntryType :
        Sound(l, f, env) /\ (l # k \/ f.type # "QUEUE") => Sound(l, f, new)

\* An entry is added at the end; a query only where there is none.
LEMMA AddSound ==
    ASSUME NEW d \in Cache, NEW k \in Key, NEW e \in EntryType, NEW env, NEW new,
           AllSound(d, env), OneQueue(d), Elsewhere(k, env, new), Sound(k, e, new),
           e.type = "QUEUE" \/ (\A f \in EntryType : Sound(k, f, env) => Sound(k, f, new)),
           e.type = "QUEUE" => \A i \in DOMAIN d[k] : d[k][i].type # "QUEUE"
    PROVE  /\ AddEntry(d, k, e) \in Cache
           /\ AllSound(AddEntry(d, k, e), new)
           /\ OneQueue(AddEntry(d, k, e))
  <1> DEFINE a == AddEntry(d, k, e)
  <1>1. d[k] \in Seq(EntryType) /\ \A l \in Key : d[l] \in Seq(EntryType)
    BY DEF Cache
  <1>2. /\ a \in Cache
        /\ a[k] = Append(d[k], e)
        /\ \A l \in Key : l # k => a[l] = d[l]
    BY <1>1 DEF AddEntry, Cache
  <1>3. /\ DOMAIN a[k] = 1 .. Len(d[k]) + 1 /\ DOMAIN d[k] = 1 .. Len(d[k])
        /\ Len(d[k]) \in Nat
        /\ \A i \in DOMAIN d[k] : a[k][i] = d[k][i]
        /\ a[k][Len(d[k]) + 1] = e
    BY <1>1, <1>2
  <1> HIDE DEF a
  <1>4. ASSUME NEW l \in Key, NEW i \in DOMAIN a[l]
        PROVE  Sound(l, a[l][i], new)
    <2>1. CASE l # k
      <3>1. i \in DOMAIN d[l] /\ a[l][i] = d[l][i] /\ d[l][i] \in EntryType
        BY <1>1, <1>2, <2>1, <1>4
      <3> QED
        BY <2>1, <3>1 DEF AllSound, Elsewhere
    <2>2. CASE l = k /\ i = Len(d[k]) + 1
      BY <1>3, <2>2
    <2>3. CASE l = k /\ i # Len(d[k]) + 1
      <3>1. i \in DOMAIN d[k] /\ a[l][i] = d[k][i] /\ d[k][i] \in EntryType
        BY <1>1, <1>3, <2>3, <1>4
      <3>2. Sound(k, d[k][i], env)
        BY <3>1 DEF AllSound
      <3>3. e.type = "QUEUE" => d[k][i].type # "QUEUE"
        BY <3>1
      <3> QED
        BY <2>3, <3>1, <3>2, <3>3 DEF Elsewhere
    <2> QED
      BY <2>1, <2>2, <2>3
  <1>5. ASSUME NEW l \in Key, NEW i \in DOMAIN a[l], NEW j \in DOMAIN a[l],
               a[l][i].type = "QUEUE", a[l][j].type = "QUEUE"
        PROVE  i = j
    <2>1. CASE l # k
      BY <1>2, <1>5, <2>1 DEF OneQueue
    <2>2. CASE l = k
      <3>1. i \in DOMAIN d[k] \/ i = Len(d[k]) + 1
        BY <1>3, <1>5, <2>2
      <3>2. j \in DOMAIN d[k] \/ j = Len(d[k]) + 1
        BY <1>3, <1>5, <2>2
      <3>3. i \in DOMAIN d[k] => d[k][i].type = "QUEUE" /\ e.type # "QUEUE"
        BY <1>3, <1>5, <2>2
      <3>4. j \in DOMAIN d[k] => d[k][j].type = "QUEUE" /\ e.type # "QUEUE"
        BY <1>3, <1>5, <2>2
      <3>5. i = Len(d[k]) + 1 \/ j = Len(d[k]) + 1 => e.type = "QUEUE"
        BY <1>3, <1>5, <2>2
      <3>6. i \in DOMAIN d[k] /\ j \in DOMAIN d[k] => i = j
        BY <3>3, <3>4 DEF OneQueue
      <3> QED
        BY <3>1, <3>2, <3>3, <3>4, <3>5, <3>6
    <2> QED
      BY <2>1, <2>2
  <1>6. AllSound(a, new)
    BY <1>4 DEF AllSound
  <1>7. OneQueue(a)
    BY <1>5 DEF OneQueue
  <1> QED
    BY <1>2, <1>6, <1>7 DEF a

\* An entry is replaced by one of the same type.
LEMMA ReplaceSound ==
    ASSUME NEW d \in Cache, NEW k \in Key, NEW i \in DOMAIN d[k], NEW e \in EntryType,
           NEW env, NEW new,
           AllSound(d, env), OneQueue(d), Elsewhere(k, env, new), Sound(k, e, new),
           e.type = d[k][i].type,
           e.type = "QUEUE" \/ (\A f \in EntryType : Sound(k, f, env) => Sound(k, f, new))
    PROVE  /\ Replace(d, k, i, e) \in Cache
           /\ AllSound(Replace(d, k, i, e), new)
           /\ OneQueue(Replace(d, k, i, e))
  <1> DEFINE a == Replace(d, k, i, e)
  <1>1. d[k] \in Seq(EntryType) /\ \A l \in Key : d[l] \in Seq(EntryType)
    BY DEF Cache
  <1>2. /\ a \in Cache
        /\ a[k] = [d[k] EXCEPT ![i] = e]
        /\ \A l \in Key : l # k => a[l] = d[l]
    BY <1>1 DEF Replace, Cache
  <1>3. /\ DOMAIN a[k] = DOMAIN d[k]
        /\ \A j \in DOMAIN d[k] : a[k][j] = IF j = i THEN e ELSE d[k][j]
    BY <1>1, <1>2
  <1> HIDE DEF a
  <1>4. ASSUME NEW l \in Key, NEW j \in DOMAIN a[l]
        PROVE  Sound(l, a[l][j], new)
    <2>1. CASE l # k
      <3>1. j \in DOMAIN d[l] /\ a[l][j] = d[l][j] /\ d[l][j] \in EntryType
        BY <1>1, <1>2, <2>1, <1>4
      <3> QED
        BY <2>1, <3>1 DEF AllSound, Elsewhere
    <2>2. CASE l = k /\ j = i
      BY <1>3, <2>2
    <2>3. CASE l = k /\ j # i
      <3>1. j \in DOMAIN d[k] /\ a[l][j] = d[k][j] /\ d[k][j] \in EntryType
        BY <1>1, <1>3, <2>3, <1>4
      <3>2. Sound(k, d[k][j], env)
        BY <3>1 DEF AllSound
      <3>3. e.type = "QUEUE" => d[k][j].type # "QUEUE"
        BY <2>3, <3>1 DEF OneQueue
      <3> QED
        BY <2>3, <3>1, <3>2, <3>3 DEF Elsewhere
    <2> QED
      BY <2>1, <2>2, <2>3
  <1>5. \A l \in Key : DOMAIN a[l] = DOMAIN d[l] /\
            \A j \in DOMAIN d[l] : a[l][j].type = d[l][j].type
    BY <1>2, <1>3
  <1>6. AllSound(a, new)
    BY <1>4 DEF AllSound
  <1>7. OneQueue(a)
    BY <1>5 DEF OneQueue
  <1> QED
    BY <1>2, <1>6, <1>7 DEF a

\* The sequence without its i-th element.
LEMMA RemoveAtFacts ==
    ASSUME NEW S, NEW s \in Seq(S), NEW i \in 1 .. Len(s)
    PROVE  /\ RemoveAt(s, i) \in Seq(S)
           /\ Len(RemoveAt(s, i)) = Len(s) - 1
           /\ \A j \in 1 .. Len(s) - 1 : RemoveAt(s, i)[j] = s[IF j < i THEN j ELSE j + 1]
  <1> DEFINE p == SubSeq(s, 1, i - 1)
             q == SubSeq(s, i + 1, Len(s))
  <1>1. Len(s) \in Nat /\ i \in Nat
    OBVIOUS
  <1>2. p \in Seq(S) /\ Len(p) = i - 1 /\ \A j \in 1 .. i - 1 : p[j] = s[j]
    OBVIOUS
  <1>3. q \in Seq(S) /\ Len(q) = Len(s) - i /\ \A j \in 1 .. Len(s) - i : q[j] = s[i + j]
    <2>1. CASE i = Len(s)
      BY <2>1
    <2>2. CASE i < Len(s)
      BY <2>2
    <2> QED
      BY <2>1, <2>2
  <1>4. RemoveAt(s, i) = p \o q
    BY DEF RemoveAt
  <1> HIDE DEF p, q
  <1>5. /\ p \o q \in Seq(S) /\ Len(p \o q) = Len(p) + Len(q)
        /\ \A j \in 1 .. Len(p) + Len(q) :
              (p \o q)[j] = IF j <= Len(p) THEN p[j] ELSE q[j - Len(p)]
    BY <1>2, <1>3, ConcatProperties
  <1>6. ASSUME NEW j \in 1 .. Len(s) - 1
        PROVE  (p \o q)[j] = s[IF j < i THEN j ELSE j + 1]
    <2>1. CASE j < i
      BY <1>1, <1>2, <1>3, <1>5, <2>1
    <2>2. CASE j >= i
      <3>1. j - Len(p) \in 1 .. Len(s) - i /\ j - Len(p) = j - i + 1
        BY <1>1, <1>2, <2>2
      <3>2. (p \o q)[j] = q[j - i + 1]
        BY <1>1, <1>2, <1>3, <1>5, <2>2, <3>1
      <3>3. q[j - i + 1] = s[i + (j - i + 1)] /\ i + (j - i + 1) = j + 1
        BY <1>1, <1>3, <3>1
      <3> QED
        BY <1>1, <2>2, <3>2, <3>3
    <2>3. j < i \/ j >= i
      BY <1>1
    <2> QED
      BY <2>1, <2>2, <2>3
  <1> QED
    BY <1>1, <1>2, <1>3, <1>4, <1>5, <1>6

\* An entry is removed.
LEMMA RemoveSound ==
    ASSUME NEW d \in Cache, NEW k \in Key, NEW i \in DOMAIN d[k], NEW env,
           AllSound(d, env), OneQueue(d)
    PROVE  LET a == [d EXCEPT ![k] = RemoveAt(d[k], i)]
           IN  a \in Cache /\ AllSound(a, env) /\ OneQueue(a)
  <1> DEFINE a == [d EXCEPT ![k] = RemoveAt(d[k], i)]
             from(j) == IF j < i THEN j ELSE j + 1
  <1>1. d[k] \in Seq(EntryType) /\ \A l \in Key : d[l] \in Seq(EntryType)
    BY DEF Cache
  <1>2. i \in 1 .. Len(d[k]) /\ Len(d[k]) \in Nat
    BY <1>1
  <1>3. /\ RemoveAt(d[k], i) \in Seq(EntryType)
        /\ Len(RemoveAt(d[k], i)) = Len(d[k]) - 1
        /\ \A j \in 1 .. Len(d[k]) - 1 : RemoveAt(d[k], i)[j] = d[k][from(j)]
    BY <1>1, <1>2, RemoveAtFacts
  <1>5. /\ a \in Cache
        /\ a[k] = RemoveAt(d[k], i)
        /\ \A l \in Key : l # k => a[l] = d[l]
    BY <1>1, <1>3 DEF Cache
  <1>6. /\ DOMAIN a[k] = 1 .. Len(d[k]) - 1
        /\ \A j \in DOMAIN a[k] : from(j) \in DOMAIN d[k] /\ a[k][j] = d[k][from(j)]
    <2>1. DOMAIN a[k] = 1 .. Len(d[k]) - 1 /\ DOMAIN d[k] = 1 .. Len(d[k])
      BY <1>1, <1>2, <1>3, <1>5
    <2>2. \A j \in 1 .. Len(d[k]) - 1 : from(j) \in 1 .. Len(d[k])
      BY <1>2
    <2>3. \A j \in 1 .. Len(d[k]) - 1 : a[k][j] = d[k][from(j)]
      BY <1>3, <1>5
    <2> QED
      BY <2>1, <2>2, <2>3
  <1>7. \A j, m \in DOMAIN a[k] : from(j) = from(m) => j = m
    BY <1>2, <1>6
  <1> HIDE DEF a, from
  <1>8. AllSound(a, env)
    BY <1>5, <1>6 DEF AllSound
  <1>9. OneQueue(a)
    <2>1. ASSUME NEW l \in Key, NEW j \in DOMAIN a[l], NEW m \in DOMAIN a[l],
                 a[l][j].type = "QUEUE", a[l][m].type = "QUEUE"
          PROVE  j = m
      <3>1. CASE l # k
        BY <1>5, <2>1, <3>1 DEF OneQueue
      <3>2. CASE l = k
        <4>1. from(j) = from(m)
          BY <1>6, <2>1, <3>2 DEF OneQueue
        <4> QED
          BY <1>7, <2>1, <3>2, <4>1
      <3> QED
        BY <3>1, <3>2
    <2> QED
      BY <2>1 DEF OneQueue
  <1> QED
    BY <1>5, <1>8, <1>9 DEF a

----------------------------------------------------------------------------
(* The entries *)

\* The numbers of forwarding servers.
LEMMA ServerFacts ==
    ASSUME NEW i \in Server
    PROVE  NextDNS(i) \in Server /\ 1 \in Server
  <1>1. Servers \in Nat \ {0}
    BY DnsAssumption
  <1>2. i \in Nat
    BY DEF Server
  <1>3. i % Servers \in 0 .. Servers - 1
    BY <1>1, <1>2
  <1>4. 1 \in Server
    BY <1>1 DEF Server
  <1> HIDE DEF Server
  <1>5. (i % Servers) + 1 \in 1 .. Servers
    BY <1>1, <1>3
  <1> QED
    BY <1>4, <1>5 DEF NextDNS, Server

LEMMA TimeFacts ==
    /\ SelectTime \in Nat /\ QueueTime \in Nat /\ LeaseTime \in Nat
    /\ Oldest = - SelectTime - 1 /\ Zero = - SelectTime - 2
    /\ Oldest \in Int /\ Zero \in Int
  BY DnsAssumption DEF Oldest, Zero

\* A query, as a record.
LEMMA QuestionFacts ==
    ASSUME NEW q \in Question
    PROVE  /\ q = [client |-> q.client, id |-> q.id, name |-> q.name]
           /\ q.client \in Allowed \cup Refused /\ q.id \in Id /\ q.name \in Name
           /\ q.id \in Key /\ q.name \in Key
  BY DEF Question, Key, Name

\* A name's answer is stored, or the lease of a host name.
LEMMA StoreSound ==
    ASSUME NEW d \in Cache, NEW k \in Key, NEW type \in {"CACHED", "LOCAL_A"}, NEW x \in Nat,
           NEW env, env.waited \in Nat, AllSound(d, env), OneQueue(d)
    PROVE  /\ Store(d, k, type, x) \in Cache
           /\ AllSound(Store(d, k, type, x), env)
           /\ OneQueue(Store(d, k, type, x))
  <1> DEFINE i == FindEntry(d, k, type)
             n == Entry(type, x, "nobody", k, 1)
             r == [d[k][i] EXCEPT !.expiry = x, !.granted = Later(@, x),
                                  !.moved = @ \/ x < d[k][i].expiry]
  <1>1. Elsewhere(k, env, env) /\ \A f \in EntryType : Sound(k, f, env) => Sound(k, f, env)
    BY DEF Elsewhere
  <1>2. CASE i = 0
    <2>1. Store(d, k, type, x) = AddEntry(d, k, n)
      BY <1>2 DEF Store
    <2>2. 1 \in Server
      BY DnsAssumption DEF Server
    <2>3. n \in EntryType /\ n.type # "QUEUE" /\ ~ n.moved /\ n.age = x /\ n.granted = x /\ n.expiry = x
      BY <2>2 DEF Entry, EntryType
    <2> HIDE DEF n
    <2>4. Sound(k, n, env)
      BY <2>3 DEF Sound, InTime, Fits
    <2> QED
      BY <1>1, <2>1, <2>3, <2>4, AddSound
  <1>3. CASE i # 0
    <2>1. i \in DOMAIN d[k] /\ d[k][i].type = type
      BY <1>3, FindEntryFacts
    <2> HIDE DEF i
    <2>2. d[k] \in Seq(EntryType) /\ d[k][i] \in EntryType
      BY <2>1 DEF Cache
    <2>3. PICK e \in EntryType : e = d[k][i]
      BY <2>2
    <2>4. Store(d, k, type, x) = Renew(d, k, i, x)
      BY <1>3 DEF Store, i
    <2>5. Renew(d, k, i, x) = Replace(d, k, i, r)
      BY <2>1, <2>2 DEF Renew, Replace, Cache
    <2>6. r = [e EXCEPT !.expiry = x, !.granted = Later(@, x), !.moved = @ \/ x < e.expiry]
      BY <2>3
    <2> HIDE DEF r
    <2>7. Later(e.granted, x) \in Int /\ Later(e.granted, x) >= x /\ Later(e.granted, x) >= e.granted
      BY DEF Later, EntryType
    <2>8. /\ r \in EntryType /\ r.type = e.type
          /\ r.expiry = x /\ r.age = e.age /\ r.granted = Later(e.granted, x)
          /\ r.moved <=> e.moved \/ x < e.expiry
      <3>1. PICK g \in Int : g = Later(e.granted, x)
        BY <2>7
      <3>2. PICK b \in BOOLEAN : b <=> e.moved \/ x < e.expiry
        OBVIOUS
      <3>3. e.moved \in BOOLEAN
        BY DEF EntryType
      <3>4. b = (e.moved \/ x < e.expiry)
        BY <3>2, <3>3
      <3>5. r = [[[e EXCEPT !.expiry = x] EXCEPT !.granted = g] EXCEPT !.moved = b] /\ x \in Int
        BY <2>6, <3>1, <3>4 DEF EntryType
      <3> QED
        BY <3>1, <3>2, <3>5 DEF EntryType
    <2>9. Sound(k, e, env) /\ e.type = type
      BY <2>1, <2>3 DEF AllSound
    <2>10. Sound(k, r, env)
      <3>1. e.age \in Int /\ e.granted \in Int /\ e.expiry \in Int
        BY DEF EntryType
      <3>2. e.age >= - env.waited /\ e.age <= e.granted /\ (e.moved \/ e.age <= e.expiry)
        BY <2>9 DEF Sound, InTime
      <3> QED
        BY <2>7, <2>8, <2>9, <3>1, <3>2 DEF Sound, InTime, Fits
    <2>11. r.type = d[k][i].type /\ r.type # "QUEUE"
      BY <2>3, <2>8, <2>9
    <2> QED
      BY <1>1, <2>1, <2>4, <2>5, <2>8, <2>10, <2>11, ReplaceSound
  <1> QED
    BY <1>2, <1>3

\* One unit of time later.
Aged(e) == [e EXCEPT !.expiry = Sooner(@), !.age = Sooner(@), !.granted = Sooner(@)]

LEMMA SoonerFacts ==
    ASSUME NEW s \in Int
    PROVE  /\ Sooner(s) \in Int
           /\ Sooner(s) = Zero <=> s = Zero
           /\ s >= - SelectTime => Sooner(s) = s - 1
           /\ \A u \in Int : s <= u /\ u >= - SelectTime => Sooner(s) <= Sooner(u)
  BY TimeFacts DEF Sooner, Later

LEMMA AgedSound ==
    ASSUME NEW k, NEW e \in EntryType, NEW env, NEW new, env.waited \in 0 .. SelectTime - 1,
           new.waited = env.waited + 1, new.wire = env.wire, new.shared = env.shared,
           new.open = env.open, Sound(k, e, env)
    PROVE  Aged(e) \in EntryType /\ Aged(e).type = e.type /\ Sound(k, Aged(e), new)
  <1>1. e.expiry \in Int /\ e.age \in Int /\ e.granted \in Int
    BY DEF EntryType
  <1>2. Sooner(e.expiry) \in Int /\ Sooner(e.age) \in Int /\ Sooner(e.granted) \in Int
    BY <1>1, SoonerFacts
  <1>3. /\ Aged(e) \in EntryType /\ Aged(e).type = e.type
        /\ Aged(e).expiry = Sooner(e.expiry) /\ Aged(e).age = Sooner(e.age)
        /\ Aged(e).granted = Sooner(e.granted)
        /\ Aged(e).client = e.client /\ Aged(e).query = e.query /\ Aged(e).moved = e.moved
    BY <1>2 DEF Aged, EntryType
  <1>4. Fits(k, Aged(e), new)
    <2>1. Sooner(e.expiry) = Zero <=> e.expiry = Zero
      BY <1>1, SoonerFacts
    <2> QED
      BY <1>3, <2>1 DEF Sound, Fits
  <1>5. CASE e.type # "QUEUE"
    <2>1. e.age >= - env.waited /\ e.age <= e.granted /\ e.expiry <= e.granted
      BY <1>5 DEF Sound, InTime
    <2>2. e.age >= - SelectTime /\ e.granted >= - SelectTime
      BY <1>1, <2>1, TimeFacts
    <2>3. Sooner(e.age) = e.age - 1 /\ Sooner(e.granted) = e.granted - 1
      BY <1>1, <2>2, SoonerFacts
    <2>4. Sooner(e.expiry) <= Sooner(e.granted)
      BY <1>1, <2>1, <2>2, SoonerFacts
    <2>7. e.moved \/ Sooner(e.age) <= Sooner(e.expiry)
      <3>1. CASE ~ e.moved
        <4>1. e.age <= e.expiry
          BY <1>5, <3>1 DEF Sound, InTime
        <4>2. e.expiry >= - SelectTime
          BY <1>1, <2>2, <4>1, TimeFacts
        <4> QED
          BY <1>1, <4>1, <4>2, SoonerFacts
      <3> QED
        BY <3>1
    <2>5. InTime(Aged(e), new)
      <3>1. Sooner(e.age) >= - new.waited /\ Sooner(e.age) <= Sooner(e.granted)
        BY <1>1, <2>1, <2>3, TimeFacts
      <3> QED
        BY <1>3, <2>4, <2>7, <3>1 DEF InTime
    <2> QED
      BY <1>3, <1>4, <2>5 DEF Sound
  <1>6. CASE e.type = "QUEUE"
    BY <1>3, <1>4, <1>6 DEF Sound, InTime
  <1> QED
    BY <1>5, <1>6

----------------------------------------------------------------------------
(* The actions *)

\* The reply of this step, if it is a forwarded answer, is to a query that was
\* open: the step of AnsweredOnce.
Once ==
    out' # None /\ out'.kind = "forwarded" =>
        [client |-> out'.client, id |-> out'.id, name |-> out'.about] \in open

LEMMA InitInv == Init => DnsInv
  <1> SUFFICES ASSUME Init PROVE DnsInv
    OBVIOUS
  <1>1. DnsType
    <2>1. 1 \in Server /\ 0 \in 0 .. SelectTime
      BY DnsAssumption DEF Server
    <2>2. dnsCache \in Cache
      BY DEF Init, Cache
    <2> QED
      BY <2>1, <2>2 DEF Init, DnsType
  <1>2. \A k \in Key : DOMAIN dnsCache[k] = {}
    BY DEF Init
  <1> QED
    BY <1>1, <1>2 DEF Init, DnsInv, AllSound, OneQueue, RightAnswer, ServedInTime

\* Entries are held against fewer queries under way; an id is no longer shared
\* when no query with it is left.
LEMMA FewerSound ==
    ASSUME NEW k, NEW e, NEW env, NEW new, Sound(k, e, env),
           new.waited = env.waited, new.wire \subseteq env.wire,
           new.shared = {x \in env.shared : \E v \in new.wire : v.query.id = x},
           \A w \in new.wire : w.query.id = k /\ w.query \in env.open => w.query \in new.open
    PROVE  Sound(k, e, new)
  <1>1. InTime(e, new)
    BY DEF Sound, InTime
  <1>2. Fits(k, e, new)
    <2> SUFFICES ASSUME e.type = "QUEUE", e.expiry # Zero, k \notin new.shared,
                        NEW w \in new.wire, w.query.id = k
                 PROVE  /\ w.query = [client |-> e.client, id |-> k, name |-> e.query]
                        /\ w.query \in new.open
      BY DEF Fits
    <2>1. k \notin env.shared
      OBVIOUS
    <2> QED
      BY <2>1 DEF Sound, Fits
  <1> QED
    BY <1>1, <1>2 DEF Sound

\* Steps that leave the map and the queries under way as they are.
LEMMA SameSound ==
    ASSUME DnsInv, dnsCache' = dnsCache, world' = world, waited' = waited, wire' = wire,
           shared' = shared, open' = open, phase' \in {"dns", "forw", "check"},
           currentDNS' \in Server,
           out' = None \/ out'.kind \notin {"forwarded", "kept"}
    PROVE  DnsInv' /\ Once
  <1>1. Env' = Env
    BY DEF Env
  <1>2. AllSound(dnsCache', Env') /\ OneQueue(dnsCache')
    BY <1>1 DEF DnsInv
  <1>3. DnsType'
    BY DEF DnsInv, DnsType
  <1>4. RightAnswer' /\ ServedInTime' /\ Once
    BY DEF RightAnswer, ServedInTime, Once
  <1> QED
    BY <1>2, <1>3, <1>4 DEF DnsInv, AllSound, OneQueue

\* The server a query is sent to.
LEMMA ServerForFacts ==
    ASSUME DnsType, NEW x
    PROVE  ServerFor(x) \in Server
  BY ServerFacts DEF ServerFor, DnsType

LEMMA QueryRefusedInv ==
    ASSUME DnsInv, NEW q, QueryRefused(q)
    PROVE  DnsInv' /\ Once
  <1>1. /\ dnsCache' = dnsCache /\ world' = world /\ waited' = waited /\ wire' = wire
        /\ shared' = shared /\ open' = open /\ phase' = "forw" /\ currentDNS' = currentDNS
        /\ out'.kind = "refused"
    BY DEF QueryRefused, Reply
  <1> QED
    BY <1>1, SameSound DEF DnsInv, DnsType

LEMMA ForwardFailsInv ==
    ASSUME DnsInv, NEW q, ForwardFails(q)
    PROVE  DnsInv' /\ Once
  <1>1. /\ dnsCache' = dnsCache /\ world' = world /\ waited' = waited /\ wire' = wire
        /\ shared' = shared /\ open' = open /\ phase' = "forw"
        /\ currentDNS' = NextDNS(ServerFor(q.id)) /\ out'.kind = "failed"
    BY DEF ForwardFails, Reply
  <1>2. currentDNS' \in Server
    BY <1>1, ServerForFacts, ServerFacts DEF DnsInv
  <1> QED
    BY <1>1, <1>2, SameSound

\* A name is served while its entry is in time.
LEMMA QueryLocalInv ==
    ASSUME DnsInv, NEW q, q \in world.asks, QueryLocal(q)
    PROVE  DnsInv' /\ Once
  <1>1. /\ dnsCache' = dnsCache /\ world' = world /\ waited' = waited /\ wire' = wire
        /\ shared' = shared /\ open' = open /\ phase' = "forw" /\ currentDNS' = currentDNS
    BY DEF QueryLocal
  <1>2. CASE NotKnown(q.name)
    <2>1. out'.kind = "unknown"
      BY <1>2 DEF QueryLocal, Reply
    <2> QED
      BY <1>1, <2>1, SameSound DEF DnsInv, DnsType
  <1>3. CASE ~ NotKnown(q.name)
    <2>1. /\ out'.kind = "kept" /\ out'.addr = dnsCache[q.name][1]
          /\ dnsCache[q.name] # << >> /\ dnsCache[q.name][1].type # "QUEUE"
      BY <1>3 DEF QueryLocal, Reply, FoundLocally
    <2>2. q.name \in Key
      BY DnsAssumption, QuestionFacts DEF DnsInv, DnsType, Question
    <2>3. dnsCache[q.name] \in Seq(EntryType)
      BY <2>2 DEF DnsInv, DnsType, Cache
    <2>4. 1 \in DOMAIN dnsCache[q.name] /\ dnsCache[q.name][1] \in EntryType
      BY <2>1, <2>3
    <2>5. PICK e \in EntryType : e = dnsCache[q.name][1]
      BY <2>4
    <2>6. Sound(q.name, e, Env)
      BY <2>2, <2>4, <2>5 DEF DnsInv, AllSound
    <2>7. e.age >= - waited /\ e.age <= e.granted /\ (e.moved \/ e.age <= e.expiry)
      BY <2>1, <2>5, <2>6 DEF Sound, InTime, Env
    <2>8. e.age \in Int /\ e.expiry \in Int /\ e.granted \in Int /\ waited \in 0 .. SelectTime
      BY DEF EntryType, DnsInv, DnsType
    <2>9. e.granted >= - SelectTime /\ (e.moved \/ e.expiry >= - SelectTime)
      BY <2>7, <2>8, TimeFacts
    <2>10. ServedInTime' /\ RightAnswer' /\ Once
      BY <2>1, <2>5, <2>9 DEF ServedInTime, RightAnswer, Once
    <2>11. Env' = Env
      BY <1>1 DEF Env
    <2>12. DnsType'
      BY <1>1 DEF DnsInv, DnsType
    <2> QED
      BY <1>1, <2>10, <2>11, <2>12 DEF DnsInv, AllSound, OneQueue
  <1> QED
    BY <1>2, <1>3

\* A query is sent on: it takes the place of an earlier one with its id, and if
\* that one may still be answered the id is shared.
LEMMA ForwardInv ==
    ASSUME DnsInv, NEW q, q \in world.asks, Forward(q)
    PROVE  DnsInv' /\ Once
  <1> DEFINE k == q.id
             i == FindEntry(dnsCache, k, "QUEUE")
             e == Entry("QUEUE", QueueTime, q.client, q.name, ServerFor(k))
             f == [e EXCEPT !.age = dnsCache[k][i].age]
  <1>1. q \in Question
    BY DnsAssumption DEF DnsInv, DnsType, Question
  <1>2. /\ q = [client |-> q.client, id |-> k, name |-> q.name]
        /\ k \in Id /\ k \in Key /\ q.name \in Key /\ q.client \in Allowed \cup Refused
    BY <1>1, QuestionFacts
  <1>3. /\ wire' = wire \cup [server : {ServerFor(k)} \cap world.alive, query : {q}]
        /\ open' = open \cup {q}
        /\ shared' = shared \cup {x \in {k} : \E v \in wire : v.query.id = x /\ v.query # q}
        /\ waited' = waited /\ world' = world /\ phase' = "forw" /\ out' = None
        /\ currentDNS' = ServerFor(k) /\ dnsCache' = Queued(q)
    BY DEF Forward
  <1>4. ServerFor(k) \in Server
    BY ServerForFacts DEF DnsInv
  <1>5. \A w \in wire' : w \in wire \/ w.query = q
    BY <1>3
  <1>6. \A x : x # k => (x \in shared' <=> x \in shared)
    BY <1>3
  <1>7. DnsType /\ AllSound(dnsCache, Env) /\ OneQueue(dnsCache) /\ dnsCache \in Cache
    BY DEF DnsInv, DnsType
  <1>8. PICK new : new = Env'
    OBVIOUS
  <1>9. PICK env : env = Env
    OBVIOUS
  <1>10. /\ new.waited = waited /\ new.wire = wire' /\ new.shared = shared' /\ new.open = open'
         /\ env.waited = waited /\ env.wire = wire /\ env.shared = shared /\ env.open = open
    BY <1>3, <1>8, <1>9 DEF Env
  <1>11. Elsewhere(k, env, new)
    <2> SUFFICES ASSUME NEW l \in Key, NEW g \in EntryType, Sound(l, g, env),
                        l # k \/ g.type # "QUEUE"
                 PROVE  Sound(l, g, new)
      BY DEF Elsewhere
    <2>1. InTime(g, new)
      BY <1>10 DEF Sound, InTime
    <2>2. Fits(l, g, new)
      <3> SUFFICES ASSUME g.type = "QUEUE", g.expiry # Zero, l \notin new.shared,
                          NEW w \in new.wire, w.query.id = l
                   PROVE  /\ w.query = [client |-> g.client, id |-> l, name |-> g.query]
                          /\ w.query \in new.open
        BY DEF Fits
      <3>1. l # k /\ w \in env.wire /\ l \notin env.shared
        BY <1>5, <1>6, <1>10
      <3>2. w.query = [client |-> g.client, id |-> l, name |-> g.query] /\ w.query \in env.open
        BY <3>1 DEF Sound, Fits
      <3> QED
        BY <1>3, <1>10, <3>2
    <2> QED
      BY <2>1, <2>2 DEF Sound
  <1>12. ASSUME NEW g \in EntryType, g.type = "QUEUE", g.client = q.client, g.query = q.name
         PROVE  Sound(k, g, new)
    <2>1. InTime(g, new)
      BY <1>12 DEF InTime
    <2>2. \A w \in wire' : w.query.id = k /\ k \notin shared' => w.query = q
      BY <1>3, <1>5
    <2>3. Fits(k, g, new)
      <3> SUFFICES ASSUME k \notin new.shared, NEW w \in new.wire, w.query.id = k
                   PROVE  /\ w.query = [client |-> g.client, id |-> k, name |-> g.query]
                          /\ w.query \in new.open
        BY DEF Fits
      <3>1. w.query = q
        BY <1>10, <2>2
      <3>2. q = [client |-> g.client, id |-> k, name |-> g.query]
        BY <1>2, <1>12
      <3>3. q \in new.open
        BY <1>3, <1>10
      <3> QED
        BY <3>1, <3>2, <3>3
    <2> QED
      BY <2>1, <2>3 DEF Sound
  <1>13. /\ e \in EntryType /\ e.type = "QUEUE" /\ e.client = q.client /\ e.query = q.name
    BY <1>2, <1>4, TimeFacts DEF Entry, EntryType
  <1>14. dnsCache' \in Cache /\ AllSound(dnsCache', new) /\ OneQueue(dnsCache')
    <2>1. CASE i = 0
      <3>1. dnsCache' = AddEntry(dnsCache, k, e)
        BY <1>3, <2>1 DEF Queued
      <3>2. \A j \in DOMAIN dnsCache[k] : dnsCache[k][j].type # "QUEUE"
        BY <1>2, <1>7, <2>1, FindEntryFacts
      <3>3. Sound(k, e, new)
        BY <1>12, <1>13
      <3>4. AllSound(dnsCache, env) /\ OneQueue(dnsCache) /\ dnsCache \in Cache /\ k \in Key
        BY <1>2, <1>7, <1>9
      <3> HIDE DEF e, k
      <3>5. /\ AddEntry(dnsCache, k, e) \in Cache
            /\ AllSound(AddEntry(dnsCache, k, e), new)
            /\ OneQueue(AddEntry(dnsCache, k, e))
        BY <1>11, <1>13, <3>2, <3>3, <3>4, AddSound
      <3> QED
        BY <3>1, <3>5
    <2>2. CASE i # 0
      <3>1. i \in DOMAIN dnsCache[k] /\ dnsCache[k][i].type = "QUEUE"
        BY <1>2, <1>7, <2>2, FindEntryFacts
      <3>2. dnsCache' = [dnsCache EXCEPT ![k][i] = f]
        BY <1>3, <2>2 DEF Queued
      <3>3. dnsCache' = Replace(dnsCache, k, i, f)
        BY <3>2 DEF Replace
      <3> HIDE DEF e, i, k
      <3>4. dnsCache[k][i].age \in Int
        <4>1. dnsCache[k] \in Seq(EntryType)
          BY <1>2, <1>7 DEF Cache
        <4>2. dnsCache[k][i] \in EntryType
          BY <3>1, <4>1
        <4> QED
          BY <4>2 DEF EntryType
      <3>5. f \in EntryType /\ f.type = "QUEUE" /\ f.client = q.client /\ f.query = q.name
        BY <1>13, <3>4 DEF EntryType
      <3> HIDE DEF f
      <3>6. Sound(k, f, new)
        BY <1>12, <3>5
      <3>7. AllSound(dnsCache, env) /\ OneQueue(dnsCache) /\ dnsCache \in Cache /\ k \in Key
        BY <1>2, <1>7, <1>9
      <3>8. /\ Replace(dnsCache, k, i, f) \in Cache
            /\ AllSound(Replace(dnsCache, k, i, f), new)
            /\ OneQueue(Replace(dnsCache, k, i, f))
        BY <1>11, <3>1, <3>5, <3>6, <3>7, ReplaceSound
      <3> QED
        BY <3>3, <3>8
    <2> QED
      BY <2>1, <2>2
  <1>15. wire' \subseteq [server : Server, query : Question]
    BY <1>1, <1>3, <1>4, <1>7 DEF DnsType
  <1>16. DnsType'
    BY <1>3, <1>4, <1>7, <1>14, <1>15 DEF DnsType
  <1>17. RightAnswer' /\ ServedInTime' /\ Once
    BY <1>3 DEF RightAnswer, ServedInTime, Once
  <1> QED
    BY <1>8, <1>14, <1>16, <1>17 DEF DnsInv, AllSound, OneQueue

\* The map with its first entry of x marked as answered.
LEMMA MarkedIs ==
    ASSUME DnsType, NEW x \in Key, IsAwaited(x)
    PROVE  LET m == [dnsCache[x][1] EXCEPT !.expiry = Zero, !.moved = TRUE]
           IN  /\ 1 \in DOMAIN dnsCache[x] /\ dnsCache[x][1] \in EntryType
               /\ Marked(x) = Replace(dnsCache, x, 1, m)
               /\ m \in EntryType /\ m.type = dnsCache[x][1].type /\ m.expiry = Zero
               /\ m.age = dnsCache[x][1].age /\ m.granted = dnsCache[x][1].granted /\ m.moved
  <1>1. dnsCache \in Cache /\ dnsCache[x] \in Seq(EntryType) /\ dnsCache[x] # << >>
    BY DEF DnsType, Cache, IsAwaited
  <1>2. 1 \in DOMAIN dnsCache[x] /\ dnsCache[x][1] \in EntryType
    BY <1>1
  <1>3. Marked(x) = Replace(dnsCache, x, 1,
                                [dnsCache[x][1] EXCEPT !.expiry = Zero, !.moved = TRUE])
    BY DEF Marked, Replace
  <1>4. PICK e \in EntryType : e = dnsCache[x][1]
    BY <1>2
  <1>5. LET m == [e EXCEPT !.expiry = Zero, !.moved = TRUE]
        IN  /\ m \in EntryType /\ m.type = e.type /\ m.expiry = Zero
            /\ m.age = e.age /\ m.granted = e.granted /\ m.moved
    BY TimeFacts DEF EntryType
  <1> QED
    BY <1>2, <1>3, <1>4, <1>5

\* Marking the entry: what holds of all other entries is kept when some queries
\* with the id x are no longer open.
LEMMA MarkedSound ==
    ASSUME DnsType, AllSound(dnsCache, Env), OneQueue(dnsCache), NEW x \in Key, IsAwaited(x),
           NEW new, new.waited = waited, new.wire \subseteq wire,
           new.shared = {y \in shared : \E v \in new.wire : v.query.id = y},
           \A p \in open : p \in new.open \/ p.id = x,
           dnsCache[x][1].type # "QUEUE" => new.open = open
    PROVE  Marked(x) \in Cache /\ AllSound(Marked(x), new) /\ OneQueue(Marked(x))
  <1> DEFINE m == [dnsCache[x][1] EXCEPT !.expiry = Zero, !.moved = TRUE]
  <1>1. /\ 1 \in DOMAIN dnsCache[x] /\ dnsCache[x][1] \in EntryType
        /\ Marked(x) = Replace(dnsCache, x, 1, m)
        /\ m \in EntryType /\ m.type = dnsCache[x][1].type /\ m.expiry = Zero
        /\ m.age = dnsCache[x][1].age /\ m.granted = dnsCache[x][1].granted /\ m.moved
    BY MarkedIs
  <1> HIDE DEF m
  <1>2. PICK env : env = Env
    OBVIOUS
  <1>3. env.waited = waited /\ env.wire = wire /\ env.shared = shared /\ env.open = open
    BY <1>2 DEF Env
  <1>4. ASSUME NEW l \in Key, NEW g \in EntryType, Sound(l, g, env), l # x \/ new.open = open
        PROVE  Sound(l, g, new)
    <2>1. \A w \in new.wire : w.query.id = l /\ w.query \in env.open => w.query \in new.open
      BY <1>3, <1>4
    <2> QED
      BY <1>3, <1>4, <2>1, FewerSound
  <1>5. ASSUME NEW g \in EntryType, Sound(x, g, env), g.type # "QUEUE"
        PROVE  Sound(x, g, new)
    BY <1>3, <1>5 DEF Sound, InTime, Fits
  <1>6. Elsewhere(x, env, new)
    BY <1>4, <1>5 DEF Elsewhere
  <1>7. m.type = "QUEUE" \/ (\A g \in EntryType : Sound(x, g, env) => Sound(x, g, new))
    BY <1>1, <1>4
  <1>8. Sound(x, m, new)
    <2>1. PICK e \in EntryType : e = dnsCache[x][1]
      BY <1>1
    <2>2. Sound(x, e, Env)
      BY <1>1, <2>1 DEF AllSound
    <2>3. e.type # "QUEUE" => e.age >= - waited /\ e.age <= e.granted /\ e.expiry <= e.granted
      BY <2>2 DEF Sound, InTime, Env
    <2>4. m.type # "QUEUE" => m.age >= - waited /\ m.age <= m.granted
      BY <1>1, <2>1, <2>3
    <2>5. m.type # "QUEUE" => m.expiry <= m.granted
      <3>1. /\ e.age \in Int /\ e.granted \in Int /\ waited \in 0 .. SelectTime
            /\ m.granted = e.granted /\ m.age = e.age /\ m.expiry = Zero
        BY <1>1, <2>1 DEF EntryType, DnsType
      <3> QED
        BY <2>4, <3>1, TimeFacts
    <2> QED
      BY <1>1, <2>4, <2>5 DEF Sound, InTime, Fits
  <1>9. AllSound(dnsCache, env) /\ dnsCache \in Cache
    BY <1>2 DEF DnsType
  <1>10. /\ Replace(dnsCache, x, 1, m) \in Cache
         /\ AllSound(Replace(dnsCache, x, 1, m), new)
         /\ OneQueue(Replace(dnsCache, x, 1, m))
    BY <1>1, <1>6, <1>7, <1>8, <1>9, ReplaceSound
  <1> QED
    BY <1>1, <1>10

\* What an arrival or a loss does to the wire.
LEMMA ArrivesFacts ==
    ASSUME DnsType, NEW w, Arrives(w)
    PROVE  /\ w \in wire /\ wire' \subseteq wire /\ phase' = "check"
           /\ shared' = {y \in shared : \E v \in wire' : v.query.id = y}
           /\ w.query \in Question /\ w.server \in Server /\ w.query.id \in Key
           /\ w.query.name \in Key
  <1>1. w \in wire /\ wire' \subseteq wire /\ phase' = "check" /\ shared' = StillShared
    BY DEF Arrives
  <1>2. w.query \in Question /\ w.server \in Server
    BY <1>1 DEF DnsType
  <1> QED
    BY <1>1, <1>2, QuestionFacts DEF StillShared

\* Fewer queries under way, and nothing else.
LEMMA FewerInv ==
    ASSUME DnsInv, wire' \subseteq wire,
           shared' = {y \in shared : \E v \in wire' : v.query.id = y},
           dnsCache' = dnsCache, world' = world, waited' = waited, open' = open,
           currentDNS' = currentDNS, phase' \in {"dns", "forw", "check"}, out' = None
    PROVE  DnsInv' /\ Once
  <1>1. PICK new : new = Env'
    OBVIOUS
  <1>2. PICK env : env = Env
    OBVIOUS
  <1>3. /\ new.waited = env.waited /\ new.wire \subseteq env.wire /\ new.open = env.open
        /\ new.shared = {x \in env.shared : \E v \in new.wire : v.query.id = x}
    BY <1>1, <1>2 DEF Env
  <1>4. AllSound(dnsCache, new)
    <2>1. ASSUME NEW k \in Key, NEW i \in DOMAIN dnsCache[k] PROVE Sound(k, dnsCache[k][i], new)
      <3>1. Sound(k, dnsCache[k][i], env)
        BY <1>2 DEF DnsInv, AllSound
      <3> QED
        BY <1>3, <3>1, FewerSound
    <2> QED
      BY <2>1 DEF AllSound
  <1>5. DnsType'
    BY DEF DnsInv, DnsType
  <1>6. RightAnswer' /\ ServedInTime' /\ Once
    BY DEF RightAnswer, ServedInTime, Once
  <1> QED
    BY <1>1, <1>4, <1>5, <1>6 DEF DnsInv, AllSound, OneQueue

LEMMA AnswerDroppedInv ==
    ASSUME DnsInv, NEW w, AnswerDropped(w)
    PROVE  DnsInv' /\ Once
  <1>1. /\ Arrives(w) /\ out' = None /\ dnsCache' = dnsCache /\ world' = world
        /\ waited' = waited /\ open' = open /\ currentDNS' = currentDNS
    BY DEF AnswerDropped
  <1>2. /\ wire' \subseteq wire /\ phase' = "check"
        /\ shared' = {y \in shared : \E v \in wire' : v.query.id = y}
    BY <1>1, ArrivesFacts DEF DnsInv
  <1> QED
    BY <1>1, <1>2, FewerInv

LEMMA LoseInv ==
    ASSUME DnsInv, NEW w, Lose(w)
    PROVE  DnsInv' /\ Once
  <1>1. /\ wire' \subseteq wire /\ shared' = StillShared /\ out' = None /\ dnsCache' = dnsCache
        /\ world' = world /\ waited' = waited /\ open' = open /\ currentDNS' = currentDNS
        /\ phase' = phase
    BY DEF Lose
  <1>2. shared' = {y \in shared : \E v \in wire' : v.query.id = y}
    BY <1>1 DEF StillShared
  <1>3. phase' \in {"dns", "forw", "check"}
    BY <1>1 DEF DnsInv, DnsType
  <1> QED
    BY <1>1, <1>2, <1>3, FewerInv

LEMMA AnswerMistakenInv ==
    ASSUME DnsInv, NEW w, AnswerMistaken(w)
    PROVE  DnsInv' /\ Once
  <1> DEFINE x == w.query.id
  <1>1. /\ Arrives(w) /\ IsAwaited(x) /\ dnsCache[x][1].type # "QUEUE"
        /\ dnsCache' = Marked(x) /\ currentDNS' = w.server /\ out' = None
        /\ world' = world /\ waited' = waited /\ open' = open
    BY DEF AnswerMistaken
  <1>2. /\ wire' \subseteq wire /\ phase' = "check" /\ x \in Key /\ w.server \in Server
        /\ shared' = {y \in shared : \E v \in wire' : v.query.id = y}
    BY <1>1, ArrivesFacts DEF DnsInv
  <1> HIDE DEF x
  <1>3. PICK new : new = Env'
    OBVIOUS
  <1>4. /\ new.waited = waited /\ new.wire \subseteq wire /\ new.open = open
        /\ new.shared = {y \in shared : \E v \in new.wire : v.query.id = y}
    BY <1>1, <1>2, <1>3 DEF Env
  <1>5. DnsType /\ AllSound(dnsCache, Env) /\ OneQueue(dnsCache)
    BY DEF DnsInv
  <1>6. Marked(x) \in Cache /\ AllSound(Marked(x), new) /\ OneQueue(Marked(x))
    BY <1>1, <1>2, <1>4, <1>5, MarkedSound
  <1>7. DnsType'
    BY <1>1, <1>2, <1>5, <1>6 DEF DnsType
  <1>8. RightAnswer' /\ ServedInTime' /\ Once
    BY <1>1 DEF RightAnswer, ServedInTime, Once
  <1> QED
    BY <1>1, <1>3, <1>6, <1>7, <1>8 DEF DnsInv, AllSound, OneQueue

\* The answer goes to the client of the entry, whose query it is unless the id
\* is shared, and that query was open.
LEMMA AnswerInv ==
    ASSUME DnsInv, NEW w, NEW ttl \in Ttl \cup {NotFound}, Answer(w, ttl)
    PROVE  DnsInv' /\ Once
  <1> DEFINE x == w.query.id
             e == dnsCache[x][1]
             n == w.query.name
  <1>1. /\ Arrives(w) /\ IsAwaited(x) /\ e.type = "QUEUE"
        /\ dnsCache' = IF ttl = NotFound THEN Marked(x) ELSE Store(Marked(x), n, "CACHED", ttl)
        /\ currentDNS' = w.server
        /\ open' = {q \in open : q.client # e.client \/ q.id # x}
        /\ out' = [Reply("forwarded", e.client, x, e.query, w.query) EXCEPT
                      !.kind = IF x \in shared THEN "clash" ELSE @]
        /\ world' = world /\ waited' = waited
    BY DEF Answer
  <1>2. /\ w \in wire /\ wire' \subseteq wire /\ phase' = "check" /\ x \in Key /\ n \in Key
        /\ w.server \in Server
        /\ shared' = {y \in shared : \E v \in wire' : v.query.id = y}
    BY <1>1, ArrivesFacts DEF DnsInv
  <1>3. DnsType /\ AllSound(dnsCache, Env) /\ OneQueue(dnsCache)
    BY DEF DnsInv
  <1>4. 1 \in DOMAIN dnsCache[x] /\ e \in EntryType
    BY <1>1, <1>2, <1>3, MarkedIs
  <1>5. /\ out'.client = e.client /\ out'.id = x /\ out'.about = e.query /\ out'.addr = w.query
        /\ out'.kind = IF x \in shared THEN "clash" ELSE "forwarded"
    BY <1>1 DEF Reply
  <1>6. x \notin shared =>
            w.query = [client |-> e.client, id |-> x, name |-> e.query] /\ w.query \in open
    <2>1. Sound(x, e, Env) /\ e.expiry # Zero
      BY <1>1, <1>2, <1>3, <1>4 DEF AllSound, IsAwaited
    <2> HIDE DEF e
    <2> QED
      BY <1>1, <1>2, <2>1 DEF Sound, Fits, Env
  <1>7. RightAnswer' /\ ServedInTime' /\ Once
    <2> HIDE DEF e
    <2> QED
      BY <1>5, <1>6 DEF RightAnswer, ServedInTime, Once
  <1>8. PICK new : new = Env'
    OBVIOUS
  <1>9. /\ new.waited = waited /\ new.wire \subseteq wire /\ new.open = open'
        /\ new.shared = {y \in shared : \E v \in new.wire : v.query.id = y}
    BY <1>1, <1>2, <1>8 DEF Env
  <1>10. \A p \in open : p \in new.open \/ p.id = x
    BY <1>1, <1>9
  <1>11. Marked(x) \in Cache /\ AllSound(Marked(x), new) /\ OneQueue(Marked(x))
    <2>1. dnsCache[x][1].type = "QUEUE"
      BY <1>1
    <2> HIDE DEF x, e
    <2> QED
      BY <1>1, <1>2, <1>3, <1>9, <1>10, <2>1, MarkedSound
  <1>12. dnsCache' \in Cache /\ AllSound(dnsCache', new) /\ OneQueue(dnsCache')
    <2>1. CASE ttl = NotFound
      BY <1>1, <1>11, <2>1
    <2>2. CASE ttl # NotFound
      <3>1. ttl \in Nat /\ new.waited \in Nat
        BY <1>3, <1>9, <2>2, DnsAssumption DEF DnsType
      <3>2. PICK d \in Cache : d = Marked(x)
        BY <1>11
      <3>3. AllSound(d, new) /\ OneQueue(d)
        BY <1>11, <3>2
      <3>4. dnsCache' = Store(d, n, "CACHED", ttl)
        BY <1>1, <2>2, <3>2
      <3> HIDE DEF n
      <3>5. /\ Store(d, n, "CACHED", ttl) \in Cache
            /\ AllSound(Store(d, n, "CACHED", ttl), new)
            /\ OneQueue(Store(d, n, "CACHED", ttl))
        BY <1>2, <3>1, <3>3, StoreSound
      <3> QED
        BY <3>4, <3>5
    <2> QED
      BY <2>1, <2>2
  <1>13. DnsType'
    BY <1>1, <1>2, <1>3, <1>12 DEF DnsType
  <1> QED
    BY <1>7, <1>8, <1>12, <1>13 DEF DnsInv, AllSound, OneQueue

\* checkSize removes an entry that has expired, and puts another one back under
\* its expiry, which is not over.
LEMMA CheckEntryInv ==
    ASSUME DnsInv, NEW k \in Key, NEW i \in DOMAIN dnsCache[k], CheckEntry(k, i)
    PROVE  DnsInv' /\ Once
  <1>1. /\ phase' = phase /\ waited' = waited /\ wire' = wire /\ shared' = shared
        /\ open' = open /\ world' = world /\ out' = None
    BY DEF CheckEntry
  <1>2. DnsType /\ AllSound(dnsCache, Env) /\ OneQueue(dnsCache) /\ dnsCache \in Cache
    BY DEF DnsInv, DnsType
  <1>3. PICK env : env = Env
    OBVIOUS
  <1>4. Env' = env /\ env.waited = waited
    BY <1>1, <1>3 DEF Env
  <1>5. AllSound(dnsCache, env)
    BY <1>2, <1>3
  <1>6. /\ dnsCache' \in Cache /\ AllSound(dnsCache', env) /\ OneQueue(dnsCache')
        /\ currentDNS' \in Server
    <2>1. CASE Removed(k, i)
      <3>1. /\ dnsCache' = [dnsCache EXCEPT ![k] = RemoveAt(dnsCache[k], i)]
            /\ currentDNS' = LeaveServer(k, i)
        BY <2>1 DEF CheckEntry
      <3>2. LET a == [dnsCache EXCEPT ![k] = RemoveAt(dnsCache[k], i)]
            IN  a \in Cache /\ AllSound(a, env) /\ OneQueue(a)
        BY <1>2, <1>5, RemoveSound
      <3>3. currentDNS' \in Server
        BY <1>2, <3>1, ServerFacts DEF LeaveServer, DnsType
      <3> QED
        BY <3>1, <3>2, <3>3
    <2>2. CASE ~ Removed(k, i)
      <3> DEFINE r == [dnsCache[k][i] EXCEPT !.age = dnsCache[k][i].expiry, !.moved = FALSE]
      <3>1. dnsCache[k] \in Seq(EntryType)
        BY <1>2 DEF Cache
      <3>2. PICK e \in EntryType : e = dnsCache[k][i]
        BY <3>1
      <3>3. /\ dnsCache' = [dnsCache EXCEPT ![k][i].age = dnsCache[k][i].expiry,
                                            ![k][i].moved = FALSE]
            /\ currentDNS' = currentDNS /\ ~ (e.expiry < 0)
        BY <2>2, <3>2 DEF CheckEntry, Removed
      <3>4. dnsCache' = Replace(dnsCache, k, i, r)
        BY <3>3 DEF Replace
      <3>5. e.expiry \in Int /\ e.age \in Int /\ e.granted \in Int
        BY DEF EntryType
      <3>6. r = [e EXCEPT !.age = e.expiry, !.moved = FALSE]
        BY <3>2
      <3> HIDE DEF r
      <3>7. /\ r \in EntryType /\ r.type = e.type /\ r.expiry = e.expiry /\ r.age = e.expiry
            /\ r.granted = e.granted /\ r.client = e.client /\ r.query = e.query
        BY <3>5, <3>6 DEF EntryType
      <3>8. Sound(k, e, env)
        BY <1>5, <3>2 DEF AllSound
      <3>9. InTime(r, env)
        <4>1. waited \in Nat
          BY <1>2 DEF DnsType
        <4> QED
          BY <1>4, <3>3, <3>5, <3>7, <3>8, <4>1 DEF Sound, InTime
      <3>10. Fits(k, r, env)
        BY <3>7, <3>8 DEF Sound, Fits
      <3>11. Sound(k, r, env)
        BY <3>9, <3>10 DEF Sound
      <3>12. Elsewhere(k, env, env)
        BY DEF Elsewhere
      <3>13. r.type = dnsCache[k][i].type
        BY <3>2, <3>7
      <3>14. /\ Replace(dnsCache, k, i, r) \in Cache
             /\ AllSound(Replace(dnsCache, k, i, r), env)
             /\ OneQueue(Replace(dnsCache, k, i, r))
        BY <1>2, <1>5, <3>7, <3>11, <3>12, <3>13, ReplaceSound
      <3> QED
        BY <1>2, <3>3, <3>4, <3>14 DEF DnsType
    <2> QED
      BY <2>1, <2>2
  <1>7. DnsType'
    BY <1>1, <1>2, <1>6 DEF DnsType
  <1>8. RightAnswer' /\ ServedInTime' /\ Once
    BY <1>1 DEF RightAnswer, ServedInTime, Once
  <1> QED
    BY <1>4, <1>6, <1>7, <1>8 DEF DnsInv, AllSound, OneQueue

\* At the end of checkSize no entry is due.
LEMMA CheckEndsInv ==
    ASSUME DnsInv, CheckEnds
    PROVE  DnsInv' /\ Once
  <1>1. /\ phase' = "dns" /\ waited' = 0 /\ wire' = wire /\ shared' = shared
        /\ open' = open /\ world' = world /\ out' = None /\ dnsCache' = dnsCache
        /\ currentDNS' = currentDNS
        /\ \A k \in Key : \A i \in DOMAIN dnsCache[k] : ~ (dnsCache[k][i].age < 0)
    BY DEF CheckEnds, Due
  <1>2. PICK env : env = Env
    OBVIOUS
  <1>3. PICK new : new = Env'
    OBVIOUS
  <1>4. /\ new.waited = 0 /\ new.wire = env.wire /\ new.shared = env.shared
        /\ new.open = env.open
    BY <1>1, <1>2, <1>3 DEF Env
  <1>5. ASSUME NEW k \in Key, NEW i \in DOMAIN dnsCache[k]
        PROVE  Sound(k, dnsCache[k][i], new)
    <2>1. dnsCache[k] \in Seq(EntryType)
      BY DEF DnsInv, DnsType, Cache
    <2>2. PICK e \in EntryType : e = dnsCache[k][i]
      BY <2>1
    <2>3. Sound(k, e, env) /\ ~ (e.age < 0)
      BY <1>1, <1>2, <2>2 DEF DnsInv, AllSound
    <2>4. e.age \in Int
      BY DEF EntryType
    <2>5. Sound(k, e, new)
      BY <1>4, <2>3, <2>4 DEF Sound, InTime, Fits
    <2> QED
      BY <2>2, <2>5
  <1>6. DnsType'
    <2>1. 0 \in 0 .. SelectTime
      BY TimeFacts
    <2> QED
      BY <1>1, <2>1 DEF DnsInv, DnsType
  <1>7. RightAnswer' /\ ServedInTime' /\ Once
    BY <1>1 DEF RightAnswer, ServedInTime, Once
  <1> QED
    BY <1>1, <1>3, <1>5, <1>6, <1>7 DEF DnsInv, AllSound, OneQueue

LEMMA HostUpdateInv ==
    ASSUME DnsInv, NEW h \in Host, NEW expiry \in {0, LeaseTime}, HostUpdate(h, expiry)
    PROVE  DnsInv' /\ Once
  <1>1. /\ phase' = phase /\ waited' = waited /\ wire' = wire /\ shared' = shared
        /\ open' = open /\ world' = world /\ out' = None /\ currentDNS' = currentDNS
        /\ dnsCache' = Store(dnsCache, h, "LOCAL_A", expiry)
    BY DEF HostUpdate
  <1>2. PICK env : env = Env
    OBVIOUS
  <1>3. Env' = env /\ env.waited = waited
    BY <1>1, <1>2 DEF Env
  <1>4. /\ env.waited \in Nat /\ expiry \in Nat /\ h \in Key /\ dnsCache \in Cache
        /\ AllSound(dnsCache, env) /\ OneQueue(dnsCache)
    BY <1>2, <1>3, TimeFacts DEF DnsInv, DnsType, Key, Name
  <1>5. dnsCache' \in Cache /\ AllSound(dnsCache', env) /\ OneQueue(dnsCache')
    BY <1>1, <1>4, StoreSound
  <1>6. DnsType'
    BY <1>1, <1>5 DEF DnsInv, DnsType
  <1>7. RightAnswer' /\ ServedInTime' /\ Once
    BY <1>1 DEF RightAnswer, ServedInTime, Once
  <1> QED
    BY <1>3, <1>5, <1>6, <1>7 DEF DnsInv, AllSound, OneQueue

LEMMA TickInv ==
    ASSUME DnsInv, Tick
    PROVE  DnsInv' /\ Once
  <1>1. /\ waited < SelectTime /\ waited' = waited + 1 /\ phase' = phase
        /\ wire' = wire /\ shared' = shared /\ open' = open /\ world' = world /\ out' = None
        /\ currentDNS' = currentDNS
        /\ dnsCache' = [k \in Key |-> [i \in DOMAIN dnsCache[k] |-> Aged(dnsCache[k][i])]]
    BY DEF Tick, Aged
  <1>2. waited \in 0 .. SelectTime - 1 /\ waited' \in 0 .. SelectTime
    BY <1>1, TimeFacts DEF DnsInv, DnsType
  <1>3. PICK env : env = Env
    OBVIOUS
  <1>4. PICK new : new = Env'
    OBVIOUS
  <1>5. /\ env.waited \in 0 .. SelectTime - 1 /\ new.waited = env.waited + 1
        /\ new.wire = env.wire /\ new.shared = env.shared /\ new.open = env.open
    BY <1>1, <1>2, <1>3, <1>4 DEF Env
  <1>6. dnsCache \in Cache /\ \A k \in Key : dnsCache[k] \in Seq(EntryType)
    BY DEF DnsInv, DnsType, Cache
  <1>7. \A k \in Key : DOMAIN dnsCache'[k] = DOMAIN dnsCache[k]
    BY <1>1
  <1>8. ASSUME NEW k \in Key, NEW i \in DOMAIN dnsCache[k]
        PROVE  /\ dnsCache'[k][i] \in EntryType
               /\ dnsCache'[k][i].type = dnsCache[k][i].type
               /\ Sound(k, dnsCache'[k][i], new)
    <2>1. PICK e \in EntryType : e = dnsCache[k][i]
      BY <1>6
    <2>2. Sound(k, e, env)
      BY <1>3, <2>1 DEF DnsInv, AllSound
    <2>3. Aged(e) \in EntryType /\ Aged(e).type = e.type /\ Sound(k, Aged(e), new)
      BY <1>5, <2>2, AgedSound
    <2>4. dnsCache'[k][i] = Aged(e)
      BY <1>1, <2>1
    <2> QED
      BY <2>1, <2>3, <2>4
  <1>9. dnsCache' \in Cache
    <2>1. ASSUME NEW k \in Key PROVE dnsCache'[k] \in Seq(EntryType)
      <3>1. DOMAIN dnsCache[k] = 1 .. Len(dnsCache[k]) /\ Len(dnsCache[k]) \in Nat
        BY <1>6
      <3>2. dnsCache'[k] = [i \in 1 .. Len(dnsCache[k]) |-> Aged(dnsCache[k][i])]
        BY <1>1, <3>1
      <3>3. \A i \in 1 .. Len(dnsCache[k]) : Aged(dnsCache[k][i]) \in EntryType
        BY <1>8, <3>1, <3>2
      <3> QED
        BY <3>1, <3>2, <3>3
    <2>2. dnsCache' = [k \in Key |-> dnsCache'[k]]
      BY <1>1
    <2> QED
      BY <2>1, <2>2 DEF Cache
  <1>10. AllSound(dnsCache', new)
    BY <1>7, <1>8 DEF AllSound
  <1>11. OneQueue(dnsCache')
    BY <1>7, <1>8 DEF DnsInv, OneQueue
  <1>12. DnsType'
    BY <1>1, <1>2, <1>9 DEF DnsInv, DnsType
  <1>13. RightAnswer' /\ ServedInTime' /\ Once
    BY <1>1 DEF RightAnswer, ServedInTime, Once
  <1> QED
    BY <1>4, <1>10, <1>11, <1>12, <1>13 DEF DnsInv, AllSound, OneQueue

\* Every step of the loop, of the network and of the clock.
LEMMA NextInv ==
    ASSUME DnsInv, Next
    PROVE  DnsInv' /\ Once
  <1>1. ASSUME NEW q \in world.asks, Ask(q) PROVE DnsInv' /\ Once
    BY <1>1, QueryRefusedInv, QueryLocalInv, ForwardInv, ForwardFailsInv DEF Ask
  <1>2. CASE NoQuery \/ NoAnswer
    <2>1. /\ dnsCache' = dnsCache /\ world' = world /\ waited' = waited /\ wire' = wire
          /\ shared' = shared /\ open' = open /\ phase' \in {"forw", "check"}
          /\ currentDNS' = currentDNS /\ out' = None
      BY <1>2 DEF NoQuery, NoAnswer
    <2> QED
      BY <2>1, SameSound DEF DnsInv, DnsType
  <1>3. CASE Receive
    BY <1>3, AnswerDroppedInv, AnswerMistakenInv, AnswerInv DEF Receive
  <1>4. CASE CheckSize
    BY <1>4, CheckEndsInv, CheckEntryInv DEF CheckSize
  <1>5. ASSUME NEW h \in Host, NEW expiry \in {0, LeaseTime}, HostUpdate(h, expiry)
        PROVE  DnsInv' /\ Once
    BY <1>5, HostUpdateInv
  <1>6. CASE Tick
    BY <1>6, TickInv
  <1>7. ASSUME NEW w \in wire, Lose(w) PROVE DnsInv' /\ Once
    BY <1>7, LoseInv
  <1> QED
    BY <1>1, <1>2, <1>3, <1>4, <1>5, <1>6, <1>7 DEF Next

LEMMA StepInv == DnsInv /\ [Next]_vars => DnsInv'
  <1> SUFFICES ASSUME DnsInv, [Next]_vars PROVE DnsInv'
    OBVIOUS
  <1>1. CASE Next
    BY <1>1, NextInv
  <1>2. CASE UNCHANGED vars
    <2>1. dnsCache' = dnsCache /\ Env' = Env
      BY <1>2 DEF vars, Env
    <2>2. DnsType' /\ RightAnswer' /\ ServedInTime'
      BY <1>2 DEF DnsInv, DnsType, RightAnswer, ServedInTime, vars
    <2> QED
      BY <2>1, <2>2 DEF DnsInv, AllSound, OneQueue
  <1> QED
    BY <1>1, <1>2

\* frdnmess, which knows a query by its id alone, gives an answer to the client
\* that asked, for the question it asked, unless the id is shared: for any
\* number of clients and servers and whatever the network does to the answers.
THEOREM DnsRightAnswer == Spec => []RightAnswer
  <1>1. DnsInv => RightAnswer
    BY DEF DnsInv
  <1> QED
    BY <1>1, InitInv, StepInv, PTL DEF Spec

\* scanloc serves no name for longer than one wait in select after its time, or
\* after its latest time if that was moved back (a lease released, a shorter time
\* to live, a mark meant for a query), for any lengths of time.
THEOREM DnsServedInTime == Spec => []ServedInTime
  <1>1. DnsInv => ServedInTime
    BY DEF DnsInv
  <1> QED
    BY <1>1, InitInv, StepInv, PTL DEF Spec

\* frdnmess forwards one answer to a query, however many arrive, until its
\* client asks again.
THEOREM DnsAnsweredOnce == Spec => AnsweredOnce
  <1>1. DnsInv /\ [Next]_vars => [Once]_vars
    BY NextInv
  <1>2. Spec => [][Once]_vars
    BY <1>1, InitInv, StepInv, PTL DEF Spec
  <1> QED
    BY <1>2 DEF AnsweredOnce, Once

-----------------------------------------------------------------------------
(***************************************************************************)
(* The DHCP server                                                         *)
(***************************************************************************)
Time == Never .. Forever

EntryData ==
    [mac : Client \cup {0}, ip : Addr \cup {0}, expiry : Time, source : Net \cup {0},
     ind : Nat, fixed : BOOLEAN, no_route : BOOLEAN]

Memory ==
    [cache : [Client -> Pointer \cup {NULL}],
     heap : [Pointer -> EntryData],
     expiry : [Addr -> Time],
     dhcpEntry : [Addr -> Pointer \cup {NULL}],
     dhcpIndex : Nat]

LeaseRecord == [mac : Client \cup {0}, ip : Addr \cup {0}, source : Net \cup {0}, expiry : Time]

LeaseFile == {f \in Seq(LeaseRecord) : \A i \in DOMAIN f : f[i].ip # 0 => f[i].mac \in Client}

\* An entry that dhcpCache has for a client is that client's.
Owned(m) == \A c \in Client : m.cache[c] # NULL => m.heap[m.cache[c]].mac = c

\* An address is in one client's entry, but for those in X.
OneEntry(m, X) ==
    \A a \in Addr \ X : \A c, d \in Having(m, a) : c = d

\* The slot of an address that a client's entry has is marked as used.
SlotUsed(m) == \A a \in Addr : Having(m, a) # {} => m.expiry[a] # Never

\* and points to the entry, unless the address is locked.
SlotPoints(m, X) ==
    \A a \in Addr \ X : m.expiry[a] # Forever =>
        \A c \in Having(m, a) : m.dhcpEntry[a] = m.cache[c]

MemInv(m, X) == Owned(m) /\ OneEntry(m, X) /\ SlotUsed(m) /\ SlotPoints(m, X)

\* The slot of an address expires no sooner than the entry.
SlotCovers(m) ==
    \A a \in Addr : \A c \in Having(m, a) : m.heap[m.cache[c]].expiry <= m.expiry[a]

\* What the memory has of the lease of a client.
Kept(m, c, mishaps) ==
    /\ Having(m, held[c].ip) \subseteq {c}
    /\ m.expiry[held[c].ip] >= held[c].until
    /\ "moved" \notin mishaps => Known(m, c)

LeasesKept ==
    \A c \in Client :
        Active(c) /\ held[c].ip \notin hist.contested
            => Kept(mem, c, hist.mishaps)

\* After a reply and before alad: the memory has the leases of the other clients,
\* and the entry and the address the reply was about.
Promised ==
    LET c == owed.client IN
    /\ c \in Client /\ owed.until \in Time \ {Never}
    /\ mem.cache[c] # NULL /\ held[c].ip \in Addr
    /\ held[c] = [ip |-> mem.heap[mem.cache[c]].ip, until |-> owed.until]
    /\ \A d \in Client \ {c} :
          Active(d) /\ held[d].ip \notin hist.contested => Kept(mem, d, hist.mishaps)

DhcpType ==
    /\ dhcpWorld \in DhcpWorld
    /\ up \in BOOLEAN
    /\ loaded \in 0 .. Len(file) /\ (up => loaded = 0)
    /\ mem \in Memory
    /\ file \in LeaseFile
    /\ held \in [Client -> [ip : Addr \cup {0}, until : Time]]
    /\ \A c \in Client : Active(c) => held[c].ip # 0
    /\ owed \in [client : Client \cup {0}, until : Time]
    /\ hist \in [mishaps : SUBSET {"misread", "moved", "lost", "unsaved"},
                 contested : SUBSET Addr, fails : Nat, stops : Nat]

Excused == hist.mishaps \cap {"misread", "lost"} # {}

DhcpSound ==
    /\ DhcpType
    /\ MemInv(mem, IF up THEN hist.contested ELSE {})
    /\ up => IF owed = Nothing THEN LeasesKept ELSE Promised
    /\ ~up => SlotCovers(mem)

DhcpInv == OneHolder /\ (Excused \/ DhcpSound)
----------------------------------------------------------------------------
(* Operations on the memory *)

\* The constants, the pointers and the times.
LEMMA DhcpBasics ==
    /\ NULL \notin Pointer /\ 0 \notin Addr /\ Addr \subseteq Nat
    /\ Client \subseteq Pointer /\ 0 \notin Client /\ Client \subseteq Nat
    /\ Time = 0 .. Forever /\ Forever \in Nat
    /\ {Never, Past, Now, Forever} \subseteq Time
    /\ Never < Past /\ Past < Now /\ Now < Forever
    /\ Until(OfferTime) \in Time /\ Until(OfferTime) > Now /\ Until(OfferTime) # Forever
    /\ Until(Lease) \in Time /\ Until(Lease) > Now /\ Until(Lease) # Forever
  <1>1. RangeSize \in Nat /\ Client \subseteq Nat \ {0} /\ OfferTime \in Nat \ {0}
        /\ Lease \in Nat \ {0} /\ OfferTime <= Lease
    BY DhcpAssumption
  <1> QED
    BY <1>1 DEF Pointer, Addr, NULL, Time, Forever, Never, Past, Now, Until

\* The memory m with the entry e made client c's, with address a until a time;
\* entries of other clients stay or leave dhcpCache.
Assigned(m, n, c, e, a, until) ==
    /\ n \in Memory
    /\ e \in Pointer /\ n.cache[c] = e
    /\ n.heap[e].mac = c /\ n.heap[e].ip = a /\ n.heap[e].expiry = until
    /\ \A d \in Client \ {c} :
          /\ n.cache[d] \in {m.cache[d], NULL}
          /\ n.cache[d] # NULL =>
                LET x == n.cache[d] IN
                /\ x # e
                /\ n.heap[x].mac = m.heap[x].mac
                /\ n.heap[x].ip = m.heap[x].ip
                /\ n.heap[x].expiry = m.heap[x].expiry
    /\ \A b \in Addr \ {a} : n.expiry[b] = m.expiry[b] /\ n.dhcpEntry[b] = m.dhcpEntry[b]
    /\ n.expiry[a] = IF m.expiry[a] = Forever THEN Forever ELSE until
    /\ n.dhcpEntry[a] = e

\* The other clients' entries with address a are no longer in dhcpCache.
Cleared(m, n, c, a) == \A d \in Having(m, a) \ {c} : n.cache[d] = NULL

\* Who has an address after an assignment.
LEMMA AssignedHaving ==
    ASSUME NEW m \in Memory, NEW n, NEW c \in Client, NEW e, NEW a \in Addr, NEW until,
           Assigned(m, n, c, e, a, until)
    PROVE  /\ \A b \in Addr : Having(n, b) \ {c} \subseteq Having(m, b)
           /\ \A b \in Addr \ {a} : c \notin Having(n, b)
           /\ c \in Having(n, a)
           /\ Cleared(m, n, c, a) => Having(n, a) = {c}
  <1>1. e # NULL
    BY DhcpBasics DEF Assigned
  <1>2. c \in Having(n, a)
    BY <1>1 DEF Assigned, Having
  <1>3. \A b \in Addr \ {a} : c \notin Having(n, b)
    BY DEF Assigned, Having
  <1>4. ASSUME NEW b \in Addr, NEW d \in Having(n, b), d # c
        PROVE  d \in Having(m, b) /\ n.cache[d] # NULL
    <2>1. d \in Client /\ n.cache[d] # NULL /\ n.heap[n.cache[d]].ip = b
      BY <1>4 DEF Having
    <2>2. n.cache[d] = m.cache[d] /\ n.heap[n.cache[d]].ip = m.heap[n.cache[d]].ip
      BY <1>4, <2>1 DEF Assigned
    <2> QED
      BY <2>1, <2>2 DEF Having
  <1>5. Cleared(m, n, c, a) => Having(n, a) \subseteq {c}
    BY <1>4 DEF Cleared
  <1> QED
    BY <1>2, <1>3, <1>4, <1>5

\* An assignment to an address no one else has keeps the invariant of the memory.
LEMMA AssignedInv ==
    ASSUME NEW m \in Memory, NEW n, NEW c \in Client, NEW e, NEW a \in Addr,
           NEW until \in Time \ {Never}, NEW X, NEW Y, X \subseteq Y,
           Assigned(m, n, c, e, a, until), MemInv(m, X),
           a \notin Y => Cleared(m, n, c, a)
    PROVE  MemInv(n, Y)
  <1>1. /\ \A b \in Addr : Having(n, b) \ {c} \subseteq Having(m, b)
        /\ \A b \in Addr \ {a} : c \notin Having(n, b)
        /\ c \in Having(n, a)
        /\ Cleared(m, n, c, a) => Having(n, a) = {c}
    BY AssignedHaving, Zenon
  <1>2. Owned(n)
    <2> SUFFICES ASSUME NEW d \in Client, n.cache[d] # NULL
                 PROVE  n.heap[n.cache[d]].mac = d
      BY DEF Owned
    <2>1. CASE d = c
      BY <2>1 DEF Assigned
    <2>2. CASE d # c
      BY <2>2 DEF Assigned, MemInv, Owned
    <2> QED BY <2>1, <2>2
  <1>3. OneEntry(n, Y)
    <2> SUFFICES ASSUME NEW b \in Addr \ Y, NEW d \in Having(n, b), NEW f \in Having(n, b)
                 PROVE  d = f
      BY DEF OneEntry
    <2>1. CASE b = a
      BY <1>1, <2>1
    <2>2. CASE b # a
      <3>1. d \in Having(m, b) /\ f \in Having(m, b)
        BY <1>1, <2>2
      <3> QED BY <3>1 DEF MemInv, OneEntry
    <2> QED BY <2>1, <2>2
  <1>4. SlotUsed(n)
    <2> SUFFICES ASSUME NEW b \in Addr, Having(n, b) # {}
                 PROVE  n.expiry[b] # Never
      BY DEF SlotUsed
    <2>1. CASE b = a
      BY <2>1, DhcpBasics DEF Assigned
    <2>2. CASE b # a
      <3>1. Having(m, b) # {}
        BY <1>1, <2>2
      <3> QED BY <3>1, <2>2 DEF MemInv, SlotUsed, Assigned
    <2> QED BY <2>1, <2>2
  <1>5. SlotPoints(n, Y)
    <2> SUFFICES ASSUME NEW b \in Addr \ Y, n.expiry[b] # Forever, NEW d \in Having(n, b)
                 PROVE  n.dhcpEntry[b] = n.cache[d]
      BY DEF SlotPoints
    <2>1. CASE b = a
      <3>1. d = c
        BY <1>1, <2>1
      <3> QED BY <3>1, <2>1 DEF Assigned
    <2>2. CASE b # a
      <3>1. d # c /\ d \in Having(m, b)
        BY <1>1, <2>2
      <3>2. d \in Client /\ n.cache[d] # NULL
        BY DEF Having
      <3>3. n.cache[d] = m.cache[d] /\ n.expiry[b] = m.expiry[b]
            /\ n.dhcpEntry[b] = m.dhcpEntry[b]
        BY <3>1, <3>2, <2>2 DEF Assigned
      <3> QED BY <3>1, <3>3 DEF MemInv, SlotPoints
    <2> QED BY <2>1, <2>2
  <1> QED
    BY <1>2, <1>3, <1>4, <1>5 DEF MemInv

\* As long as a client has no entry or a slot is empty there is room for one more.
LEMMA FreePointer ==
    ASSUME NEW m \in Memory,
           (\E c \in Client : m.cache[c] = NULL) \/ (\E a \in Addr : m.dhcpEntry[a] = NULL)
    PROVE  \E x \in Pointer : x \notin Referenced(m)
  <1> SUFFICES ASSUME Pointer \subseteq Referenced(m) PROVE FALSE
    OBVIOUS
  <1> DEFINE g(x) == IF x \in Client THEN m.cache[x] ELSE m.dhcpEntry[-x]
             S == {x \in Pointer : g(x) # NULL}
             f == [x \in S |-> g(x)]
  <1>0. RangeSize \in Nat \ {0} /\ Client \subseteq Nat \ {0} /\ IsFiniteSet(Client)
    BY DhcpAssumption
  <1>1. \A x \in Pointer : g(x) \in Pointer \cup {NULL}
    <2>1. \A x \in Pointer \ Client : -x \in Addr
      BY <1>0 DEF Pointer, Addr
    <2> QED BY <2>1 DEF Memory
  <1>2. \A y \in Referenced(m) : \E x \in Pointer : g(x) = y
    <2> SUFFICES ASSUME NEW y \in Referenced(m) PROVE \E x \in Pointer : g(x) = y
      OBVIOUS
    <2>1. ASSUME NEW c \in Client, y = m.cache[c] PROVE \E x \in Pointer : g(x) = y
      BY <2>1 DEF Pointer
    <2>2. ASSUME NEW a \in Addr, y = m.dhcpEntry[a] PROVE \E x \in Pointer : g(x) = y
      <3>1. -a \in Pointer /\ -a \notin Client /\ -(-a) = a
        BY <1>0 DEF Pointer, Addr
      <3> QED BY <3>1, <2>2
    <2> QED BY <2>1, <2>2 DEF Referenced
  <1>3. \E x \in Pointer : g(x) = NULL
    <2>1. CASE \E c \in Client : m.cache[c] = NULL
      BY <2>1 DEF Pointer
    <2>2. CASE \E a \in Addr : m.dhcpEntry[a] = NULL
      <3>1. PICK a \in Addr : m.dhcpEntry[a] = NULL
        BY <2>2
      <3>2. -a \in Pointer /\ -a \notin Client /\ -(-a) = a
        BY <1>0 DEF Pointer, Addr
      <3> QED BY <3>1, <3>2
    <2> QED BY <2>1, <2>2
  <1>4. IsFiniteSet(Pointer)
    <2>1. IsFiniteSet(-RangeSize .. -1)
      BY <1>0, FS_Interval
    <2> QED BY <1>0, <2>1, FS_Union DEF Pointer
  <1>5. S \in SUBSET Pointer /\ S # Pointer
    BY <1>3
  <1>6. f \in Surjection(S, Pointer)
    <2>1. f \in [S -> Pointer]
      BY <1>1
    <2>2. \A y \in Pointer : \E x \in S : f[x] = y
      BY <1>2, DhcpBasics
    <2> QED BY <2>1, <2>2 DEF Surjection
  <1> HIDE DEF S, f, g
  <1>7. IsFiniteSet(S) /\ Cardinality(S) <= Cardinality(Pointer)
        /\ Cardinality(S) # Cardinality(Pointer)
    BY <1>4, <1>5, FS_Subset
  <1>8. Cardinality(Pointer) <= Cardinality(S)
    BY <1>6, <1>7, FS_Surjection DEF ExistsSurjection
  <1>9. Cardinality(S) \in Nat /\ Cardinality(Pointer) \in Nat
    BY <1>4, <1>7, FS_CardinalityType
  <1> QED BY <1>7, <1>8, <1>9

\* A new entry belongs to its client, and the entries in use are as they were.
LEMMA NewEntryFacts ==
    ASSUME NEW m \in Memory, NEW c \in Client,
           m.cache[c] = NULL \/ (\E a \in Addr : m.dhcpEntry[a] = NULL)
    PROVE  LET n == NewEntry(m, c) IN
           /\ n \in Memory
           /\ n.cache[c] \in Pointer /\ n.heap[n.cache[c]] = [Blank EXCEPT !.mac = c]
           /\ \A d \in Client \ {c} :
                 /\ n.cache[d] = m.cache[d] /\ n.cache[d] # n.cache[c]
                 /\ n.cache[d] # NULL => n.heap[n.cache[d]] = m.heap[n.cache[d]]
           /\ n.expiry = m.expiry /\ n.dhcpEntry = m.dhcpEntry
  <1> DEFINE e == CHOOSE x \in Pointer : x \notin Referenced(m)
             m1 == [m EXCEPT !.cache[c] = e]
             h == [x \in Pointer |->
                     IF x = e THEN [Blank EXCEPT !.mac = c]
                     ELSE IF x \in Referenced(m1) THEN m.heap[x] ELSE Blank]
             n == NewEntry(m, c)
  <1>1. e \in Pointer /\ e \notin Referenced(m)
    BY FreePointer
  <1> HIDE DEF e
  <1>2. [Blank EXCEPT !.mac = c] \in EntryData /\ Blank \in EntryData
    BY DhcpBasics DEF Blank, EntryData, Never
  <1>3. h \in [Pointer -> EntryData]
    BY <1>2 DEF Memory
  <1>4. m1.cache = [m.cache EXCEPT ![c] = e] /\ m1.expiry = m.expiry
        /\ m1.dhcpEntry = m.dhcpEntry /\ m1 \in Memory
    BY <1>1 DEF Memory
  <1>5. \A d \in Client : m1.cache[d] \in Referenced(m1)
    BY DEF Referenced
  <1> HIDE DEF m1
  <1>6. n = [m1 EXCEPT !.heap = h]
    BY DEF NewEntry, e, m1
  <1>7. n \in Memory /\ n.cache = m1.cache /\ n.heap = h /\ n.expiry = m1.expiry
        /\ n.dhcpEntry = m1.dhcpEntry
    BY <1>3, <1>4, <1>6 DEF Memory
  <1> HIDE DEF n
  <1>8. m.cache \in [Client -> Pointer \cup {NULL}]
    BY DEF Memory
  <1>9. n.cache[c] = e /\ h[e] = [Blank EXCEPT !.mac = c]
    BY <1>1, <1>4, <1>7, <1>8
  <1>10. ASSUME NEW d \in Client \ {c}
         PROVE  /\ n.cache[d] = m.cache[d] /\ n.cache[d] # e
                /\ n.cache[d] # NULL => h[n.cache[d]] = m.heap[n.cache[d]]
    <2>1. n.cache[d] = m.cache[d] /\ m1.cache[d] = m.cache[d]
      BY <1>4, <1>7, <1>8
    <2>2. m.cache[d] # e
      BY <1>1 DEF Referenced
    <2>3. n.cache[d] \in Referenced(m1)
      BY <1>5, <2>1
    <2>4. n.cache[d] # NULL => n.cache[d] \in Pointer
      BY <2>1, <1>8
    <2> QED BY <2>1, <2>2, <2>3, <2>4
  <1> QED
    BY <1>1, <1>4, <1>7, <1>9, <1>10 DEF n

\* Everything of Assigned but the times: SetLeaseExpiry does the rest.
Prepared(m, n, c, e, a) ==
    /\ n \in Memory
    /\ e \in Pointer /\ n.cache[c] = e
    /\ n.heap[e].mac = c /\ n.heap[e].ip = a
    /\ \A d \in Client \ {c} :
          /\ n.cache[d] \in {m.cache[d], NULL}
          /\ n.cache[d] # NULL =>
                LET x == n.cache[d] IN
                /\ x # e
                /\ n.heap[x].mac = m.heap[x].mac
                /\ n.heap[x].ip = m.heap[x].ip
                /\ n.heap[x].expiry = m.heap[x].expiry
    /\ n.expiry = m.expiry /\ n.dhcpEntry = m.dhcpEntry

\* setLeaseExpiry changes the times of the entry and of its slot, and the slot's pointer.
LEMMA SetLeaseExpiryFacts ==
    ASSUME NEW m \in Memory, NEW e \in Pointer, NEW a \in Addr, m.heap[e].ip = a,
           NEW until \in Time
    PROVE  LET n == SetLeaseExpiry(m, e, until) IN
           /\ n \in Memory
           /\ n.cache = m.cache
           /\ \A x \in Pointer \ {e} : n.heap[x] = m.heap[x]
           /\ n.heap[e] = [m.heap[e] EXCEPT !.expiry = until]
           /\ \A b \in Addr \ {a} : n.expiry[b] = m.expiry[b] /\ n.dhcpEntry[b] = m.dhcpEntry[b]
           /\ n.expiry[a] = IF m.expiry[a] = Forever THEN Forever ELSE until
           /\ n.dhcpEntry[a] = e
           /\ n.dhcpIndex = m.dhcpIndex
  <1> DEFINE h == [m.heap EXCEPT ![e] = [m.heap[e] EXCEPT !.expiry = until]]
             x == [m.expiry EXCEPT ![a] = IF m.expiry[a] = Forever THEN Forever ELSE until]
             p == [m.dhcpEntry EXCEPT ![a] = e]
             n == SetLeaseExpiry(m, e, until)
  <1>0. m.heap \in [Pointer -> EntryData] /\ m.expiry \in [Addr -> Time]
        /\ m.dhcpEntry \in [Addr -> Pointer \cup {NULL}]
    BY DEF Memory
  <1>1. [m.heap[e] EXCEPT !.expiry = until] \in EntryData
    BY <1>0 DEF EntryData
  <1>2. h \in [Pointer -> EntryData] /\ x \in [Addr -> Time] /\ p \in [Addr -> Pointer \cup {NULL}]
    BY <1>0, <1>1, DhcpBasics
  <1>3. n = [m EXCEPT !.heap = h, !.expiry = x, !.dhcpEntry = p]
    BY DhcpBasics DEF SetLeaseExpiry
  <1>4. n \in Memory /\ n.cache = m.cache /\ n.heap = h /\ n.expiry = x /\ n.dhcpEntry = p
        /\ n.dhcpIndex = m.dhcpIndex
    <2> HIDE DEF h, x, p, n
    <2> QED BY <1>2, <1>3 DEF Memory
  <1> HIDE DEF n
  <1> QED BY <1>0, <1>4 DEF n

\* setLeaseExpiry of an entry that is the client's and has the address assigns it.
LEMMA PreparedAssigned ==
    ASSUME NEW m \in Memory, NEW n, NEW c \in Client, NEW e, NEW a \in Addr,
           NEW until \in Time, Prepared(m, n, c, e, a)
    PROVE  /\ Assigned(m, SetLeaseExpiry(n, e, until), c, e, a, until)
           /\ SetLeaseExpiry(n, e, until).cache = n.cache
  <1> DEFINE s == SetLeaseExpiry(n, e, until)
  <1>1. /\ s \in Memory
        /\ s.cache = n.cache
        /\ \A x \in Pointer \ {e} : s.heap[x] = n.heap[x]
        /\ s.heap[e] = [n.heap[e] EXCEPT !.expiry = until]
        /\ \A b \in Addr \ {a} : s.expiry[b] = n.expiry[b] /\ s.dhcpEntry[b] = n.dhcpEntry[b]
        /\ s.expiry[a] = IF n.expiry[a] = Forever THEN Forever ELSE until
        /\ s.dhcpEntry[a] = e
    BY SetLeaseExpiryFacts DEF Prepared
  <1> HIDE DEF s
  <1>2. n.heap[e] \in EntryData /\ n.cache \in [Client -> Pointer \cup {NULL}]
    BY DEF Prepared, Memory
  <1>3. s.heap[e].mac = n.heap[e].mac /\ s.heap[e].ip = n.heap[e].ip /\ s.heap[e].expiry = until
    BY <1>1, <1>2 DEF EntryData
  <1>4. ASSUME NEW d \in Client \ {c}
        PROVE  /\ s.cache[d] \in {m.cache[d], NULL}
               /\ s.cache[d] # NULL =>
                    LET x == s.cache[d] IN
                    /\ x # e
                    /\ s.heap[x].mac = m.heap[x].mac
                    /\ s.heap[x].ip = m.heap[x].ip
                    /\ s.heap[x].expiry = m.heap[x].expiry
    <2>1. n.cache[d] \in Pointer \cup {NULL} /\ s.cache[d] = n.cache[d]
      BY <1>1, <1>2
    <2> QED BY <1>1, <2>1 DEF Prepared
  <1>5. Assigned(m, s, c, e, a, until)
    BY <1>1, <1>3, <1>4 DEF Assigned, Prepared
  <1> QED BY <1>1, <1>5 DEF s

\* The entry of a client, which it has or has just been given, gets an address and
\* the network it was asked for from.
LEMMA MovedPrepared ==
    ASSUME NEW m \in Memory, NEW n, NEW c \in Client, NEW e, NEW b, NEW a \in Addr,
           NEW net \in Net \cup {0}, Prepared(m, n, c, e, b)
    PROVE  Prepared(m, Place(n, e, a, net), c, e, a) /\ Place(n, e, a, net).cache = n.cache
  <1> DEFINE r == [n.heap[e] EXCEPT !.ip = a, !.source = IF n.heap[e].fixed THEN @ ELSE net]
             h == [n.heap EXCEPT ![e] = r]
             q == Place(n, e, a, net)
  <1>1. n \in Memory /\ n.heap \in [Pointer -> EntryData] /\ e \in Pointer
    BY DEF Prepared, Memory
  <1>2. r \in EntryData /\ r.ip = a /\ r.mac = n.heap[e].mac
    BY <1>1 DEF EntryData
  <1>3. q = [n EXCEPT !.heap = h]
    BY <1>1 DEF Memory, EntryData, Place
  <1> HIDE DEF r
  <1>4. h \in [Pointer -> EntryData] /\ h[e] = r /\ \A x \in Pointer \ {e} : h[x] = n.heap[x]
    BY <1>1, <1>2
  <1> HIDE DEF h, q
  <1>5. q \in Memory /\ q.cache = n.cache /\ q.heap = h /\ q.expiry = n.expiry
        /\ q.dhcpEntry = n.dhcpEntry
    BY <1>1, <1>3, <1>4 DEF Memory
  <1>6. n.cache \in [Client -> Pointer \cup {NULL}]
    BY <1>1 DEF Memory
  <1>7. Prepared(m, q, c, e, a)
    BY <1>2, <1>4, <1>5, <1>6 DEF Prepared
  <1> QED BY <1>5, <1>7 DEF q

\* An offer to the client's own entry assigns the address.
LEMMA OfferFacts ==
    ASSUME NEW m \in Memory, NEW n, NEW c \in Client, NEW e, NEW b, NEW a \in Addr, NEW net \in Net,
           Prepared(m, n, c, e, b)
    PROVE  /\ Assigned(m, Offer(n, e, a, net), c, e, a, Until(OfferTime))
           /\ Offer(n, e, a, net).cache = n.cache
  <1> DEFINE q == Place(n, e, a, net)
  <1>1. Prepared(m, q, c, e, a) /\ q.cache = n.cache
    BY MovedPrepared
  <1>2. Offer(n, e, a, net) = SetLeaseExpiry(q, e, Until(OfferTime))
    BY DEF Offer
  <1>3. Until(OfferTime) \in Time
    BY DhcpBasics
  <1> HIDE DEF q
  <1> QED BY <1>1, <1>2, <1>3, PreparedAssigned

\* The state before any change, as far as it concerns client c's entry.
LEMMA OwnPrepared ==
    ASSUME NEW m \in Memory, NEW c \in Client, Owned(m), m.cache[c] # NULL
    PROVE  Prepared(m, m, c, m.cache[c], m.heap[m.cache[c]].ip)
  <1>1. m.cache \in [Client -> Pointer \cup {NULL}]
    BY DEF Memory
  <1>2. m.cache[c] \in Pointer
    BY <1>1
  <1>3. \A d \in Client \ {c} : m.cache[d] # NULL => m.cache[d] # m.cache[c]
    BY DEF Owned
  <1> QED BY <1>2, <1>3 DEF Prepared, Owned

\* A client that has no entry, or whose entry is passed over, gets a new one.
LEMMA NewPrepared ==
    ASSUME NEW m \in Memory, NEW c \in Client,
           m.cache[c] = NULL \/ (\E a \in Addr : m.dhcpEntry[a] = NULL)
    PROVE  LET n == NewEntry(m, c) IN
           /\ Prepared(m, n, c, n.cache[c], 0)
           /\ \A d \in Client \ {c} : n.cache[d] = m.cache[d]
  <1> DEFINE n == NewEntry(m, c)
  <1>1. /\ n \in Memory
        /\ n.cache[c] \in Pointer /\ n.heap[n.cache[c]] = [Blank EXCEPT !.mac = c]
        /\ \A d \in Client \ {c} :
              /\ n.cache[d] = m.cache[d] /\ n.cache[d] # n.cache[c]
              /\ n.cache[d] # NULL => n.heap[n.cache[d]] = m.heap[n.cache[d]]
        /\ n.expiry = m.expiry /\ n.dhcpEntry = m.dhcpEntry
    BY NewEntryFacts
  <1> HIDE DEF n
  <1>2. [Blank EXCEPT !.mac = c].mac = c /\ [Blank EXCEPT !.mac = c].ip = 0
    BY DEF Blank
  <1>3. Prepared(m, n, c, n.cache[c], 0)
    BY <1>1, <1>2 DEF Prepared
  <1> QED BY <1>1, <1>3 DEF n

\* A new address for the client's entry, or for a new one.
LEMMA GiveFacts ==
    ASSUME NEW m \in Memory, NEW c \in Client, Owned(m), NEW a \in Addr, NEW net \in Net,
           NEW e, e = m.cache[c] \/ (e = NULL /\ \E b \in Addr : m.dhcpEntry[b] = NULL)
    PROVE  /\ \E x : Assigned(m, Give(m, e, a, c, net), c, x, a, Until(OfferTime))
           /\ \A d \in Client \ {c} : Give(m, e, a, c, net).cache[d] = m.cache[d]
  <1>1. CASE e # NULL
    <2>1. PICK b : Prepared(m, m, c, e, b)
      BY <1>1, OwnPrepared
    <2>2. Give(m, e, a, c, net) = Offer(m, e, a, net)
      BY <1>1 DEF Give
    <2> QED BY <2>1, <2>2, OfferFacts
  <1>2. CASE e = NULL
    <2>1. PICK n : n = NewEntry(m, c)
      OBVIOUS
    <2>2. Prepared(m, n, c, n.cache[c], 0) /\ \A d \in Client \ {c} : n.cache[d] = m.cache[d]
      BY <1>2, <2>1, NewPrepared
    <2>3. Give(m, e, a, c, net) = Offer(n, n.cache[c], a, net)
      BY <1>2, <2>1 DEF Give
    <2>4. /\ Assigned(m, Offer(n, n.cache[c], a, net), c, n.cache[c], a, Until(OfferTime))
          /\ Offer(n, n.cache[c], a, net).cache = n.cache
      BY <2>2, OfferFacts
    <2> QED BY <2>2, <2>3, <2>4
  <1> QED BY <1>1, <1>2

\* An entry that changes hands: its former owner has none.
LEMMA TakeOverFacts ==
    ASSUME NEW m \in Memory, NEW c \in Client, Owned(m), NEW a \in Addr, NEW net \in Net,
           NEW e \in Pointer
    PROVE  /\ Assigned(m, TakeOver(m, e, a, c, net), c, e, a, Until(OfferTime))
           /\ \A d \in Client \ {c} :
                 TakeOver(m, e, a, c, net).cache[d]
                     = IF d = m.heap[e].mac THEN NULL ELSE m.cache[d]
  <1> DEFINE old == m.heap[e].mac
             k == [m.cache EXCEPT ![old] = NULL, ![c] = e]
             r == [m.heap[e] EXCEPT !.mac = c]
             h == [m.heap EXCEPT ![e] = r]
             n == [m EXCEPT !.cache = [@ EXCEPT ![old] = NULL, ![c] = e], !.heap[e].mac = c]
  <1>1. m.cache \in [Client -> Pointer \cup {NULL}] /\ m.heap \in [Pointer -> EntryData]
    BY DEF Memory
  <1>2. r \in EntryData /\ r.mac = c /\ r.ip = m.heap[e].ip
    BY <1>1 DEF EntryData
  <1>3. k \in [Client -> Pointer \cup {NULL}] /\ k[c] = e
        /\ \A d \in Client \ {c} : k[d] = IF d = old THEN NULL ELSE m.cache[d]
    BY <1>1
  <1>4. h \in [Pointer -> EntryData] /\ h[e] = r /\ \A x \in Pointer \ {e} : h[x] = m.heap[x]
    BY <1>1, <1>2
  <1>5. n = [m EXCEPT !.cache = k, !.heap = h]
    BY DEF Memory
  <1>6. n \in Memory /\ n.cache = k /\ n.heap = h /\ n.expiry = m.expiry
        /\ n.dhcpEntry = m.dhcpEntry
    <2> HIDE DEF k, h, n
    <2> QED BY <1>3, <1>4, <1>5 DEF Memory
  <1>7. TakeOver(m, e, a, c, net) = Offer(n, e, a, net)
    BY DEF TakeOver
  <1> HIDE DEF n, k, h, r
  <1>8. \A d \in Client \ {c} : k[d] # NULL => k[d] # e /\ k[d] \in Pointer
    BY <1>1, <1>3 DEF Owned
  <1>9. Prepared(m, n, c, e, m.heap[e].ip)
    BY <1>2, <1>3, <1>4, <1>6, <1>8 DEF Prepared
  <1>10. Assigned(m, Offer(n, e, a, net), c, e, a, Until(OfferTime))
         /\ Offer(n, e, a, net).cache = n.cache
    BY <1>9, OfferFacts
  <1> QED BY <1>3, <1>6, <1>7, <1>10

\* Keep: the client's entry and its address stay.
LEMMA KeepFacts ==
    ASSUME NEW m \in Memory, NEW c \in Client, Owned(m), NEW net \in Net, m.cache[c] # NULL,
           NEW a \in Addr, m.heap[m.cache[c]].ip = a
    PROVE  /\ Assigned(m, Keep(m, c, net), c, m.cache[c], a, Until(OfferTime))
           /\ Keep(m, c, net).cache = m.cache
  <1> DEFINE e == m.cache[c]
             r == [m.heap[e] EXCEPT !.no_route = @ \/ m.heap[e].ip \notin Reach[net]]
             h == [m.heap EXCEPT ![e] = r]
             q == [m EXCEPT !.heap[e].no_route = @ \/ m.heap[e].ip \notin Reach[net]]
  <1>1. m.heap \in [Pointer -> EntryData] /\ m.cache \in [Client -> Pointer \cup {NULL}]
    BY DEF Memory
  <1>2. e \in Pointer
    BY <1>1
  <1>3. Prepared(m, m, c, e, a)
    BY OwnPrepared
  <1>4. Keep(m, c, net) = SetLeaseExpiry(q, e, Until(OfferTime))
    BY DEF Keep
  <1>5. q = [m EXCEPT !.heap = h]
    BY DEF Memory
  <1> HIDE DEF e
  <1>6. r \in EntryData /\ r.mac = m.heap[e].mac /\ r.ip = m.heap[e].ip /\ r.expiry = m.heap[e].expiry
    BY <1>1, <1>2 DEF EntryData
  <1> HIDE DEF r
  <1>7. h \in [Pointer -> EntryData] /\ h[e] = r /\ \A x \in Pointer \ {e} : h[x] = m.heap[x]
    BY <1>1, <1>2, <1>6
  <1> HIDE DEF h, q
  <1>8. q \in Memory /\ q.cache = m.cache /\ q.heap = h /\ q.expiry = m.expiry
        /\ q.dhcpEntry = m.dhcpEntry
    BY <1>5, <1>7 DEF Memory
  <1>9. Prepared(m, q, c, e, a)
    BY <1>1, <1>3, <1>6, <1>7, <1>8 DEF Prepared
  <1>10. Until(OfferTime) \in Time
    BY DhcpBasics
  <1> QED
    BY <1>4, <1>8, <1>9, <1>10, PreparedAssigned DEF e

\* Locking an address disturbs nothing.
LEMMA LockFacts ==
    ASSUME NEW m \in Memory, NEW a \in Addr \cup {0}
    PROVE  LET n == LockAddr(m, a) IN
           /\ n \in Memory
           /\ n.cache = m.cache /\ n.heap = m.heap /\ n.dhcpEntry = m.dhcpEntry
           /\ \A b \in Addr : n.expiry[b] = m.expiry[b] \/ n.expiry[b] = Forever
           /\ \A b \in Addr : Having(n, b) = Having(m, b)
           /\ a # 0 => n.expiry[a] = Forever
           /\ \A X : MemInv(m, X) => MemInv(n, X)
           /\ SlotCovers(m) => SlotCovers(n)
  <1> DEFINE n == LockAddr(m, a)
  <1>1. m.expiry \in [Addr -> Time] /\ Forever \in Time
    BY DhcpBasics DEF Memory
  <1>2. /\ n \in Memory
        /\ n.cache = m.cache /\ n.heap = m.heap /\ n.dhcpEntry = m.dhcpEntry
        /\ \A b \in Addr : n.expiry[b] = m.expiry[b] \/ n.expiry[b] = Forever
        /\ a # 0 => n.expiry[a] = Forever
    <2>1. CASE a = 0
      BY <2>1 DEF LockAddr
    <2>2. CASE a # 0
      <3>1. n = [m EXCEPT !.expiry = [m.expiry EXCEPT ![a] = Forever]]
        BY <2>2 DEF LockAddr
      <3>2. [m.expiry EXCEPT ![a] = Forever] \in [Addr -> Time]
        BY <1>1
      <3>3. n \in Memory
        BY <3>1, <3>2 DEF Memory
      <3>4. n.cache = m.cache /\ n.heap = m.heap /\ n.dhcpEntry = m.dhcpEntry
            /\ n.expiry = [m.expiry EXCEPT ![a] = Forever]
        BY <3>1 DEF Memory
      <3> QED BY <1>1, <2>2, <3>3, <3>4
    <2> QED BY <2>1, <2>2
  <1> HIDE DEF n
  <1>3. \A b \in Addr : Having(n, b) = Having(m, b)
    BY <1>2 DEF Having
  <1>4. ASSUME NEW X, MemInv(m, X) PROVE MemInv(n, X)
    <2>1. Forever # Never
      BY DhcpBasics
    <2> QED
      BY <1>2, <1>3, <1>4, <2>1 DEF MemInv, Owned, OneEntry, SlotUsed, SlotPoints
  <1>5. ASSUME SlotCovers(m) PROVE SlotCovers(n)
    <2> SUFFICES ASSUME NEW b \in Addr, NEW c \in Having(n, b)
                 PROVE  n.heap[n.cache[c]].expiry <= n.expiry[b]
      BY DEF SlotCovers
    <2>1. m.heap[m.cache[c]].expiry <= m.expiry[b]
      BY <1>3, <1>5 DEF SlotCovers
    <2>2. m.cache[c] \in Pointer /\ m.heap \in [Pointer -> EntryData]
      BY <1>3 DEF Having, Memory
    <2>3. m.heap[m.cache[c]].expiry \in Time
      BY <2>2 DEF EntryData
    <2>4. m.heap[m.cache[c]].expiry <= Forever
      BY <2>3, DhcpBasics
    <2> QED BY <1>2, <2>1, <2>4
  <1> QED BY <1>2, <1>3, <1>4, <1>5 DEF n

\* The outcomes of resad.
LEMMA ResadCases ==
    ASSUME NEW m0, NEW c, NEW net, NEW ask, NEW hint, NEW r \in Resad(m0, c, net, ask, hint),
           NEW m, m = LockAddr(m0, Gateway[net])
    PROVE  \/ /\ KeepsAddr(m, c, net)
              /\ r = [mem |-> Keep(m, c, net), ip |-> m.heap[m.cache[c]].ip,
                      how |-> "keep", own |-> m.cache[c]]
           \/ \E a \in {ask, hint} :
                 /\ a # 0
                 /\ r = [mem |-> Give(m, m.cache[c], a, c, net), ip |-> a,
                         how |-> "asked", own |-> NULL]
           \/ /\ Unused(m, net) # {}
              /\ r = [mem |-> Give(m, m.cache[c], Min(Unused(m, net)), c, net),
                      ip |-> Min(Unused(m, net)), how |-> "unused", own |-> NULL]
           \/ /\ Expired(m, net) # {}
              /\ \E o \in OwnersFound(m, Min(Expired(m, net))) :
                    r = [mem |-> IF o = NULL THEN Give(m, NULL, Min(Expired(m, net)), c, net)
                                 ELSE TakeOver(m, o, Min(Expired(m, net)), c, net),
                         ip |-> Min(Expired(m, net)), how |-> "expired", own |-> o]
           \/ r = [mem |-> m, ip |-> 0, how |-> "none", own |-> NULL]
  <1>1. CASE KeepsAddr(m, c, net)
    BY <1>1 DEF Resad
  <1>2. CASE ~KeepsAddr(m, c, net) /\ HintOK(m, net, hint)
    <2>1. hint # 0
      BY <1>2 DEF HintOK
    <2> QED BY <1>2, <2>1 DEF Resad
  <1>3. CASE ~KeepsAddr(m, c, net) /\ ~HintOK(m, net, hint) /\ AskOK(m, net, ask)
    <2>1. ask # 0
      BY <1>3 DEF AskOK
    <2> QED BY <1>3, <2>1 DEF Resad
  <1>4. CASE ~KeepsAddr(m, c, net) /\ ~HintOK(m, net, hint) /\ ~AskOK(m, net, ask)
    BY <1>4 DEF Resad
  <1> QED BY <1>1, <1>2, <1>3, <1>4

\* What resad does to the memory m (with the gateway locked) for client c: nothing,
\* or it assigns an address that no one else has, unless it was contested.
Outcome(m0, m, c, r, X) ==
    \/ r.ip = 0 /\ r.mem = m /\ r.how = "none"
    \/ /\ r.ip \in Addr
       /\ \E x : Assigned(m, r.mem, c, x, r.ip, Until(OfferTime))
       /\ ~Contests(m0, c, r) =>
             /\ r.ip \notin X => Cleared(m, r.mem, c, r.ip)
             /\ c \in Having(m, r.ip) \/ m0.expiry[r.ip] <= Now
       /\ ~Moved(m0, r) =>
             \A d \in Client \ {c} :
                \/ r.mem.cache[d] = m.cache[d]
                \/ d \in Having(m, r.ip) /\ m0.expiry[r.ip] <= Now

\* In each case of resad the outcome is as said, if the slot's own pointer was used.
LEMMA ResadOutcome ==
    ASSUME NEW m0 \in Memory, NEW c \in Client, NEW net \in Net, NEW ask \in Addr \cup {0},
           NEW hint \in Addr \cup {0}, NEW X, MemInv(m0, X),
           NEW r \in Resad(m0, c, net, ask, hint), ~Misread(m0, r),
           NEW m, m = LockAddr(m0, Gateway[net])
    PROVE  Outcome(m0, m, c, r, X)
  <1>0. Gateway[net] \in Addr \cup {0} /\ Reach[net] \subseteq Addr
    BY DhcpAssumption
  <1>1. /\ m \in Memory /\ MemInv(m, X)
        /\ m.cache = m0.cache /\ m.heap = m0.heap /\ m.dhcpEntry = m0.dhcpEntry
        /\ \A b \in Addr : m.expiry[b] = m0.expiry[b] \/ m.expiry[b] = Forever
        /\ \A b \in Addr : Having(m, b) = Having(m0, b)
    BY <1>0, LockFacts, Zenon
  <1>2. Owned(m)
    BY <1>1 DEF MemInv
  <1>3. CASE /\ KeepsAddr(m, c, net)
             /\ r = [mem |-> Keep(m, c, net), ip |-> m.heap[m.cache[c]].ip,
                     how |-> "keep", own |-> m.cache[c]]
    <2>1. m.cache[c] # NULL /\ m.heap[m.cache[c]].ip # 0
      BY <1>3 DEF KeepsAddr, Chad
    <2>2. m.cache[c] \in Pointer /\ m.heap \in [Pointer -> EntryData]
      BY <1>1, <2>1 DEF Memory
    <2>3. r.ip \in Addr
      BY <1>3, <2>1, <2>2 DEF EntryData
    <2>4. Assigned(m, r.mem, c, m.cache[c], r.ip, Until(OfferTime)) /\ r.mem.cache = m.cache
      BY <1>1, <1>2, <1>3, <2>1, <2>3, KeepFacts
    <2>5. c \in Having(m, r.ip)
      BY <1>3, <2>1 DEF Having
    <2>6. r.ip \notin X => Cleared(m, r.mem, c, r.ip)
      BY <1>1, <2>3, <2>5 DEF MemInv, OneEntry, Cleared
    <2> QED BY <2>3, <2>4, <2>5, <2>6 DEF Outcome
  <1>4. CASE \E a \in {ask, hint} :
                /\ a # 0
                /\ r = [mem |-> Give(m, m.cache[c], a, c, net), ip |-> a,
                        how |-> "asked", own |-> NULL]
    <2>1. PICK a \in {ask, hint} :
                /\ a # 0
                /\ r = [mem |-> Give(m, m.cache[c], a, c, net), ip |-> a,
                        how |-> "asked", own |-> NULL]
      BY <1>4
    <2>2. a \in Addr /\ r.ip = a /\ r.how = "asked" /\ r.mem = Give(m, m.cache[c], a, c, net)
      BY <2>1
    <2>3. /\ \E x : Assigned(m, r.mem, c, x, a, Until(OfferTime))
          /\ \A d \in Client \ {c} : r.mem.cache[d] = m.cache[d]
      BY <1>1, <1>2, <2>2, GiveFacts
    <2>4. ~Contests(m0, c, r) => Having(m, a) \ {c} = {} /\ m0.expiry[a] <= Now
      <3>1. m0.expiry[a] \in Time
        BY <2>2 DEF Memory
      <3>2. ~(m0.expiry[a] > Now) => m0.expiry[a] <= Now
        BY <3>1, DhcpBasics
      <3> QED BY <1>1, <2>2, <3>2 DEF Contests
    <2>5. ~Contests(m0, c, r) => Cleared(m, r.mem, c, a)
      BY <2>4 DEF Cleared
    <2> QED BY <2>2, <2>3, <2>4, <2>5 DEF Outcome
  <1>5. CASE /\ Unused(m, net) # {}
             /\ r = [mem |-> Give(m, m.cache[c], Min(Unused(m, net)), c, net),
                     ip |-> Min(Unused(m, net)), how |-> "unused", own |-> NULL]
    <2>1. PICK a : a = Min(Unused(m, net))
      OBVIOUS
    <2>2. a \in Unused(m, net)
      <3>1. Unused(m, net) \in SUBSET Nat
        BY <1>0, DhcpBasics DEF Unused
      <3> QED BY <1>5, <2>1, <3>1, MinIsMember
    <2>3. a \in Addr /\ m.expiry[a] = Never
      BY <1>0, <2>2 DEF Unused
    <2>4. m0.expiry[a] = Never /\ Having(m, a) = {}
      <3>1. Never # Forever
        BY DhcpBasics
      <3> QED BY <1>1, <2>3, <3>1 DEF MemInv, SlotUsed
    <2>5. r.ip = a /\ r.mem = Give(m, m.cache[c], a, c, net)
      BY <1>5, <2>1
    <2>6. /\ \E x : Assigned(m, r.mem, c, x, a, Until(OfferTime))
          /\ \A d \in Client \ {c} : r.mem.cache[d] = m.cache[d]
      BY <1>1, <1>2, <2>3, <2>5, GiveFacts
    <2>7. Cleared(m, r.mem, c, a)
      BY <2>4 DEF Cleared
    <2>8. m0.expiry[a] <= Now
      BY <2>4, DhcpBasics DEF Never, Now
    <2> QED BY <2>3, <2>5, <2>6, <2>7, <2>8 DEF Outcome
  <1>6. CASE /\ Expired(m, net) # {}
             /\ \E o \in OwnersFound(m, Min(Expired(m, net))) :
                   r = [mem |-> IF o = NULL THEN Give(m, NULL, Min(Expired(m, net)), c, net)
                                ELSE TakeOver(m, o, Min(Expired(m, net)), c, net),
                        ip |-> Min(Expired(m, net)), how |-> "expired", own |-> o]
    <2>1. PICK a : a = Min(Expired(m, net))
      OBVIOUS
    <2>2. a \in Expired(m, net)
      <3>1. Expired(m, net) \in SUBSET Nat
        BY <1>0, DhcpBasics DEF Expired
      <3> QED BY <1>6, <2>1, <3>1, MinIsMember
    <2>3. a \in Addr /\ m.expiry[a] = Past
      BY <1>0, <2>2 DEF Expired
    <2>4. m.expiry[a] # Forever /\ m0.expiry[a] = Past
      <3>1. Past # Forever
        BY DhcpBasics
      <3> QED BY <1>1, <2>3, <3>1
    <2>5. m0.expiry[a] <= Now
      BY <2>4 DEF Past, Now
    <2>6. PICK o : r = [mem |-> IF o = NULL THEN Give(m, NULL, a, c, net)
                                ELSE TakeOver(m, o, a, c, net),
                        ip |-> a, how |-> "expired", own |-> o]
      BY <1>6, <2>1
    <2>7. r.ip = a /\ r.how = "expired" /\ r.own = o /\ o = m.dhcpEntry[a]
      BY <1>1, <2>6 DEF Misread
    <2>8. a \notin X => \A d \in Having(m, a) : o = m.cache[d] /\ m.cache[d] # NULL
      BY <1>1, <2>3, <2>4, <2>7 DEF MemInv, SlotPoints, Having
    <2>9. CASE o = NULL
      <3>1. r.mem = Give(m, NULL, a, c, net)
        BY <2>6, <2>9
      <3>2. /\ \E x : Assigned(m, r.mem, c, x, a, Until(OfferTime))
            /\ \A d \in Client \ {c} : r.mem.cache[d] = m.cache[d]
        <4>1. PICK e : e = NULL /\ r.mem = Give(m, e, a, c, net)
          BY <3>1
        <4>2. e = NULL /\ \E b \in Addr : m.dhcpEntry[b] = NULL
          BY <2>3, <2>7, <2>9, <4>1
        <4> QED BY <1>1, <1>2, <2>3, <4>1, <4>2, GiveFacts
      <3>3. a \notin X => Cleared(m, r.mem, c, a)
        BY <2>8, <2>9 DEF Cleared
      <3> QED BY <2>3, <2>5, <2>7, <3>2, <3>3 DEF Outcome
    <2>10. CASE o # NULL
      <3>1. r.mem = TakeOver(m, o, a, c, net) /\ o \in Pointer
        BY <1>1, <2>3, <2>6, <2>7, <2>10 DEF Memory
      <3>2. /\ Assigned(m, r.mem, c, o, a, Until(OfferTime))
            /\ \A d \in Client \ {c} :
                  r.mem.cache[d] = IF d = m.heap[o].mac THEN NULL ELSE m.cache[d]
        BY <1>1, <1>2, <2>3, <3>1, TakeOverFacts
      <3>3. a \notin X => Cleared(m, r.mem, c, a)
        <4> SUFFICES ASSUME a \notin X, NEW d \in Having(m, a) \ {c}
                     PROVE  r.mem.cache[d] = NULL
          BY DEF Cleared
        <4>1. d \in Client /\ o = m.cache[d] /\ m.cache[d] # NULL
          BY <2>8 DEF Having
        <4>2. m.heap[o].mac = d
          BY <1>2, <4>1 DEF Owned
        <4> QED BY <3>2, <4>1, <4>2
      <3>4. ASSUME ~Moved(m0, r), NEW d \in Client \ {c}
            PROVE  r.mem.cache[d] = m.cache[d] \/ d \in Having(m, a)
        <4>1. m.heap[o].ip = a /\ m.cache[m.heap[o].mac] = o
          BY <1>1, <2>7, <2>10, <3>4 DEF Moved
        <4>2. CASE d = m.heap[o].mac
          BY <2>10, <4>1, <4>2 DEF Having
        <4>3. CASE d # m.heap[o].mac
          BY <3>2, <4>3
        <4> QED BY <4>2, <4>3
      <3> QED BY <2>3, <2>5, <2>7, <3>2, <3>3, <3>4 DEF Outcome
    <2> QED BY <2>9, <2>10
  <1>7. CASE r = [mem |-> m, ip |-> 0, how |-> "none", own |-> NULL]
    BY <1>7 DEF Outcome
  <1> QED
    BY <1>3, <1>4, <1>5, <1>6, <1>7, ResadCases

----------------------------------------------------------------------------
(* Steps *)

\* The lease of another client than the one an address is assigned to.
LEMMA KeptAssigned ==
    ASSUME NEW m \in Memory, NEW n, NEW c \in Client, NEW e, NEW a \in Addr, NEW until,
           Assigned(m, n, c, e, a, until), NEW d \in Client \ {c},
           held[d].ip \in Addr \ {a}, NEW S, Kept(m, d, S), NEW T, S \subseteq T,
           "moved" \in T \/ n.cache[d] = m.cache[d]
    PROVE  Kept(n, d, T)
  <1>1. /\ Having(n, held[d].ip) \ {c} \subseteq Having(m, held[d].ip)
        /\ c \notin Having(n, held[d].ip)
    <2>1. /\ \A b \in Addr : Having(n, b) \ {c} \subseteq Having(m, b)
          /\ \A b \in Addr \ {a} : c \notin Having(n, b)
      BY AssignedHaving, Zenon
    <2> QED BY <2>1
  <1>2. Having(n, held[d].ip) \subseteq {d}
    BY <1>1 DEF Kept
  <1>3. n.expiry[held[d].ip] >= held[d].until
    BY DEF Kept, Assigned
  <1>4. ASSUME "moved" \notin T PROVE Known(n, d)
    BY <1>4 DEF Kept, Known, Assigned
  <1> QED BY <1>2, <1>3, <1>4 DEF Kept

\* Locking an address keeps every lease.
LEMMA KeptLocked ==
    ASSUME NEW m \in Memory, NEW a \in Addr \cup {0}, NEW d \in Client, NEW S,
           held[d].ip \in Addr, held[d].until \in Time, Kept(m, d, S)
    PROVE  Kept(LockAddr(m, a), d, S)
  <1>1. PICK n : n = LockAddr(m, a)
    OBVIOUS
  <1>2. /\ n.cache = m.cache /\ n.heap = m.heap
        /\ n.expiry[held[d].ip] = m.expiry[held[d].ip] \/ n.expiry[held[d].ip] = Forever
        /\ Having(n, held[d].ip) = Having(m, held[d].ip)
    BY <1>1, LockFacts
  <1>3. held[d].until <= Forever
    BY DhcpBasics
  <1> QED BY <1>1, <1>2, <1>3 DEF Kept, Known

\* A lease is of an address, until a time.
LEMMA HeldType ==
    ASSUME DhcpType, NEW d \in Client
    PROVE  /\ held[d].until \in Time
           /\ Active(d) => held[d].ip \in Addr
  BY DEF DhcpType

\* A client without a lease.
LEMMA NoLeaseFacts == NoLease \in [ip : Addr \cup {0}, until : Time] /\ ~(NoLease.until > Now)
  BY DhcpBasics DEF NoLease, Past, Now

\* No lease is owed, or one to a client.
LEMMA NothingFacts ==
    /\ Nothing \in [client : Client \cup {0}, until : Time] /\ Nothing.client \notin Client
  BY DhcpBasics DEF Nothing

\* Client c gives up its lease; the others have theirs.
LEMMA GivenUp ==
    ASSUME DhcpType, NEW c \in Client, held' = [held EXCEPT ![c] = NoLease]
    PROVE  /\ held' \in [Client -> [ip : Addr \cup {0}, until : Time]]
           /\ \A d \in Client : Active(d)' => d # c /\ Active(d) /\ held'[d] = held[d]
           /\ \A d \in Client : Active(d)' => held'[d].ip # 0
  <1>1. held \in [Client -> [ip : Addr \cup {0}, until : Time]]
    BY DEF DhcpType
  <1>2. held' \in [Client -> [ip : Addr \cup {0}, until : Time]]
    BY <1>1, NoLeaseFacts
  <1>3. \A d \in Client : Active(d)' => d # c /\ Active(d) /\ held'[d] = held[d]
    BY <1>1, NoLeaseFacts DEF Active
  <1> QED BY <1>2, <1>3 DEF DhcpType

\* Whoever has a lease in the next state had it before: still one holder.
LEMMA OneHolderKept ==
    ASSUME OneHolder, \A d \in Client : Active(d)' => Active(d) /\ held'[d].ip = held[d].ip,
           hist.contested \subseteq hist'.contested, hist.mishaps \subseteq hist'.mishaps
    PROVE  OneHolder'
  <1> SUFFICES ASSUME NEW c \in Client, NEW d \in Client, c # d, Active(c)', Active(d)',
                      held'[c].ip = held'[d].ip
               PROVE  ~Undisturbed(held[c].ip, {"misread", "lost"})'
    BY DEF OneHolder
  <1>1. ~Undisturbed(held[c].ip, {"misread", "lost"}) /\ held'[c].ip = held[c].ip
    BY DEF OneHolder
  <1> QED BY <1>1 DEF Undisturbed

\* DHCPDISCOVER keeps the invariant.
LEMMA DiscoverStep ==
    ASSUME DhcpSound, OneHolder, ~Excused', NEW c \in Client, NEW net \in Net,
           NEW ask \in Addr \cup {0}, NEW hint \in Addr \cup {0}, UNCHANGED dhcpWorld,
           Discover(c, net, ask, hint)
    PROVE  DhcpSound' /\ OneHolder'
  <1>1. PICK r \in Resad(mem, c, net, ask, hint) :
            /\ mem' = r.mem
            /\ hist' = [hist EXCEPT
                  !.contested = IF Contests(mem, c, r) THEN @ \cup {r.ip} ELSE @,
                  !.mishaps = @ \cup (IF Misread(mem, r) THEN {"misread"} ELSE {})
                                \cup (IF Moved(mem, r) THEN {"moved"} ELSE {})]
    BY DEF Discover
  <1>2. PICK m : m = LockAddr(mem, Gateway[net])
    OBVIOUS
  <1>3. up /\ UNCHANGED <<up, loaded, file, owed>> /\ held' = [held EXCEPT ![c] = NoLease]
        /\ owed = Nothing
    BY DEF Discover, Idle
  <1>4. DhcpType /\ MemInv(mem, hist.contested) /\ LeasesKept /\ mem \in Memory
    BY <1>3 DEF DhcpSound, DhcpType
  <1>5. /\ hist.mishaps \subseteq {"misread", "moved", "lost", "unsaved"}
        /\ hist.contested \subseteq Addr
        /\ hist \in [mishaps : SUBSET {"misread", "moved", "lost", "unsaved"},
                     contested : SUBSET Addr, fails : Nat, stops : Nat]
    BY <1>4 DEF DhcpType
  <1>6. /\ hist'.contested = IF Contests(mem, c, r) THEN hist.contested \cup {r.ip}
                                                    ELSE hist.contested
        /\ hist'.mishaps = hist.mishaps \cup (IF Misread(mem, r) THEN {"misread"} ELSE {})
                               \cup (IF Moved(mem, r) THEN {"moved"} ELSE {})
        /\ hist'.fails = hist.fails /\ hist'.stops = hist.stops
    BY <1>1, <1>5
  <1>7. ~Misread(mem, r)
    BY <1>6 DEF Excused
  <1>8. Outcome(mem, m, c, r, hist.contested)
    BY <1>2, <1>4, <1>7, ResadOutcome
  <1>9. Gateway[net] \in Addr \cup {0}
    BY DhcpAssumption
  <1>10. m \in Memory /\ MemInv(m, hist.contested)
         /\ \A b \in Addr : Having(m, b) = Having(mem, b)
    BY <1>2, <1>4, <1>9, LockFacts
  <1>11. Contests(mem, c, r) => r.ip \in Addr
    BY <1>8 DEF Outcome, Contests
  <1>12. hist' \in [mishaps : SUBSET {"misread", "moved", "lost", "unsaved"},
                    contested : SUBSET Addr, fails : Nat, stops : Nat]
    BY <1>1, <1>5, <1>11
  <1>13. /\ held' \in [Client -> [ip : Addr \cup {0}, until : Time]]
         /\ \A d \in Client : Active(d)' => d # c /\ Active(d) /\ held'[d] = held[d]
         /\ \A d \in Client : Active(d)' => held'[d].ip # 0
    BY <1>3, <1>4, GivenUp
  <1>14. OneHolder'
    BY <1>6, <1>13, OneHolderKept
  <1>15. mem' \in Memory /\ MemInv(mem', hist'.contested)
    <2>1. CASE r.ip = 0 /\ r.mem = m
      <3>1. ~Contests(mem, c, r)
        BY <1>11, <2>1, DhcpBasics
      <3> QED BY <1>1, <1>6, <1>10, <2>1, <3>1
    <2>2. CASE r.ip \in Addr /\ \E x : Assigned(m, r.mem, c, x, r.ip, Until(OfferTime))
      <3>1. PICK x : Assigned(m, r.mem, c, x, r.ip, Until(OfferTime))
        BY <2>2
      <3>2. r.ip \notin hist'.contested => Cleared(m, r.mem, c, r.ip)
        <4> HAVE r.ip \notin hist'.contested
        <4>1. ~Contests(mem, c, r) /\ r.ip \notin hist.contested
          BY <1>6
        <4>2. r.ip # 0
          BY <2>2, DhcpBasics
        <4> QED BY <1>8, <4>1, <4>2 DEF Outcome
      <3>3. Until(OfferTime) \in Time \ {Never}
        BY DhcpBasics DEF Never, Now
      <3>4. hist.contested \subseteq hist'.contested
        BY <1>6
      <3>5. MemInv(r.mem, hist'.contested)
        BY <1>10, <2>2, <3>1, <3>2, <3>3, <3>4, AssignedInv
      <3> QED BY <1>1, <3>1, <3>5 DEF Assigned
    <2> QED BY <1>8, <2>1, <2>2 DEF Outcome
  <1>16. LeasesKept'
    <2> SUFFICES ASSUME NEW d \in Client, Active(d)', held'[d].ip \notin hist'.contested
                 PROVE  Kept(mem, d, hist.mishaps)'
      BY DEF LeasesKept
    <2>1. d # c /\ Active(d) /\ held'[d] = held[d] /\ held[d].ip \in Addr
          /\ held[d].until \in Time /\ held[d].ip \notin hist.contested
      BY <1>4, <1>6, <1>13, HeldType
    <2>2. Kept(mem, d, hist.mishaps)
      BY <1>4, <2>1 DEF LeasesKept
    <2>3. Kept(m, d, hist.mishaps)
      BY <1>2, <1>4, <1>9, <2>1, <2>2, KeptLocked
    <2>4. Kept(r.mem, d, hist'.mishaps)
      <3>1. CASE r.ip = 0 /\ r.mem = m
        BY <1>6, <2>3, <3>1 DEF Kept
      <3>2. CASE r.ip \in Addr /\ \E x : Assigned(m, r.mem, c, x, r.ip, Until(OfferTime))
        <4>1. PICK x : Assigned(m, r.mem, c, x, r.ip, Until(OfferTime))
          BY <3>2
        <4>2. ~(mem.expiry[held[d].ip] <= Now) /\ Having(mem, held[d].ip) \subseteq {d}
          <5>1. mem.expiry[held[d].ip] >= held[d].until /\ held[d].until > Now
                /\ Having(mem, held[d].ip) \subseteq {d}
            BY <2>1, <2>2 DEF Kept, Active
          <5>2. mem.expiry[held[d].ip] \in Time
            BY <1>4, <2>1 DEF Memory
          <5>3. mem.expiry[held[d].ip] \in Nat /\ held[d].until \in Nat /\ Now \in Nat
            BY <5>2, <2>1, DhcpBasics
          <5> QED BY <5>1, <5>3
        <4>3. held[d].ip # r.ip
          <5> SUFFICES ASSUME held[d].ip = r.ip PROVE FALSE
            OBVIOUS
          <5>1. ~Contests(mem, c, r)
            BY <1>6, <2>1
          <5>2. c \in Having(m, r.ip) \/ mem.expiry[r.ip] <= Now
            BY <1>8, <3>2, <5>1, DhcpBasics DEF Outcome
          <5> QED BY <1>10, <2>1, <4>2, <5>2
        <4>4. "moved" \in hist'.mishaps \/ r.mem.cache[d] = m.cache[d]
          <5> SUFFICES ASSUME "moved" \notin hist'.mishaps PROVE r.mem.cache[d] = m.cache[d]
            OBVIOUS
          <5>1. ~Moved(mem, r) /\ "moved" \notin hist.mishaps
            BY <1>6
          <5>2. Known(mem, d)
            BY <2>2, <5>1 DEF Kept
          <5>3. d \notin Having(m, r.ip)
            BY <1>10, <3>2, <4>3, <5>2 DEF Known, Having
          <5> QED BY <1>8, <2>1, <3>2, <5>1, <5>3, DhcpBasics DEF Outcome
        <4>5. hist.mishaps \subseteq hist'.mishaps
          BY <1>6
        <4> QED
          BY <1>10, <2>1, <2>3, <3>2, <4>1, <4>3, <4>4, <4>5, KeptAssigned
      <3> QED BY <1>8, <3>1, <3>2 DEF Outcome
    <2> QED BY <1>1, <2>1, <2>4 DEF Kept, Known
  <1> QED
    BY <1>3, <1>4, <1>12, <1>13, <1>14, <1>15, <1>16 DEF DhcpSound, DhcpType

\* The lease file after a write.
LEMMA FileFacts ==
    ASSUME NEW f \in LeaseFile, NEW r \in LeaseRecord, r.mac \in Client, NEW i \in Nat \ {0}
    PROVE  /\ Append(f, r) \in LeaseFile
           /\ WriteAt(f, i, r) \in LeaseFile
  <1>1. f \in Seq(LeaseRecord) /\ \A k \in DOMAIN f : f[k].ip # 0 => f[k].mac \in Client
    BY DEF LeaseFile
  <1>2. /\ Append(f, r) \in Seq(LeaseRecord)
        /\ \A k \in DOMAIN Append(f, r) : Append(f, r)[k] = r \/ (k \in DOMAIN f /\ Append(f, r)[k] = f[k])
    BY <1>1
  <1>3. GapRecord \in LeaseRecord /\ GapRecord.ip = 0
    BY DhcpBasics DEF GapRecord, LeaseRecord
  <1> DEFINE n == IF i <= Len(f) THEN Len(f) ELSE i
             g == WriteAt(f, i, r)
  <1>4. n \in Nat /\ Len(f) \in Nat /\ DOMAIN f = 1 .. Len(f)
    BY <1>1
  <1>5. g = [j \in 1 .. n |-> IF j = i THEN r ELSE IF j <= Len(f) THEN f[j] ELSE GapRecord]
    BY DEF WriteAt
  <1> HIDE DEF n, g
  <1>6. ASSUME NEW j \in 1 .. n
        PROVE  g[j] = r \/ (j \in DOMAIN f /\ g[j] = f[j]) \/ g[j] = GapRecord
    BY <1>4, <1>5
  <1>7. g \in Seq(LeaseRecord) /\ DOMAIN g = 1 .. n
    <2>1. \A j \in 1 .. n : g[j] \in LeaseRecord
      BY <1>1, <1>3, <1>6
    <2>2. g \in [1 .. n -> LeaseRecord]
      BY <1>5, <2>1
    <2> QED BY <1>4, <2>2
  <1>8. \A j \in DOMAIN g : g[j].ip # 0 => g[j].mac \in Client
    BY <1>1, <1>3, <1>6, <1>7
  <1>9. Append(f, r) \in LeaseFile
    BY <1>1, <1>2 DEF LeaseFile
  <1>10. g \in LeaseFile
    BY <1>7, <1>8 DEF LeaseFile
  <1> QED BY <1>9, <1>10 DEF g

\* u is what updateDHCP makes of the client's own entry e with address a.
Updates(u, m, f, c, e, a, until, ok) ==
    /\ m \in Memory /\ f \in LeaseFile /\ c \in Client /\ a \in Addr /\ until \in Time
    /\ Owned(m) /\ e = m.cache[c] /\ e # NULL /\ m.heap[e].ip = a
    /\ u = UpdateDHCP(m, f, e, c, until, ok)

\* updateDHCP assigns the client's address anew and saves it.
LEMMA UpdateFacts ==
    ASSUME NEW u, NEW m, NEW f, NEW c, NEW e, NEW a, NEW until, NEW ok,
           Updates(u, m, f, c, e, a, until, ok)
    PROVE  Assigned(m, u.mem, c, e, a, until) /\ u.mem.cache = m.cache /\ u.file \in LeaseFile
  <1>1. PICK m1 : m1 = SetLeaseExpiry(m, e, until)
    OBVIOUS
  <1>0. /\ m \in Memory /\ f \in LeaseFile /\ c \in Client /\ a \in Addr /\ until \in Time
         /\ Owned(m) /\ e = m.cache[c] /\ e # NULL /\ m.heap[e].ip = a
    BY DEF Updates
  <1>2. Prepared(m, m, c, e, a)
    BY <1>0, OwnPrepared
  <1>3. Assigned(m, m1, c, e, a, until) /\ m1.cache = m.cache
    BY <1>1, <1>2, <1>0, PreparedAssigned
  <1>4. m1 \in Memory /\ e \in Pointer /\ m1.heap \in [Pointer -> EntryData] /\ m1.dhcpIndex \in Nat
    BY <1>3 DEF Assigned, Memory
  <1>5. m1.heap[e] \in EntryData /\ m1.heap[e].ind \in Nat
    BY <1>4 DEF EntryData
  <1> DEFINE r == Record(m1, e, c)
             d == [m1.heap[e] EXCEPT !.ind = m1.dhcpIndex + 1]
             h == [m1.heap EXCEPT ![e] = d]
             m2 == [m1 EXCEPT !.dhcpIndex = @ + 1, !.heap[e].ind = m1.dhcpIndex + 1]
  <1>6. u = [mem |-> IF m1.heap[e].ind # 0 THEN m1 ELSE m2,
             file |-> IF ~ok THEN f
                      ELSE IF m1.heap[e].ind # 0 THEN WriteAt(f, m1.heap[e].ind, r) ELSE Append(f, r)]
    BY <1>1 DEF UpdateDHCP, Updates
  <1>7. r \in LeaseRecord /\ r.mac \in Client
    BY <1>5, <1>0 DEF Record, LeaseRecord, EntryData
  <1> HIDE DEF r
  <1>8. d \in EntryData /\ d.mac = m1.heap[e].mac /\ d.ip = m1.heap[e].ip
        /\ d.expiry = m1.heap[e].expiry
    BY <1>4, <1>5 DEF EntryData
  <1>9. m2 = [m1 EXCEPT !.dhcpIndex = m1.dhcpIndex + 1, !.heap = h]
    BY <1>4 DEF Memory
  <1> HIDE DEF d
  <1>10. h \in [Pointer -> EntryData] /\ h[e] = d /\ \A x \in Pointer \ {e} : h[x] = m1.heap[x]
    BY <1>4, <1>8
  <1> HIDE DEF h, m2
  <1>11. m2 \in Memory /\ m2.cache = m1.cache /\ m2.heap = h /\ m2.expiry = m1.expiry
         /\ m2.dhcpEntry = m1.dhcpEntry
    <2>1. PICK i \in Nat : i = m1.dhcpIndex + 1
      BY <1>4
    <2>2. m2 = [m1 EXCEPT !.dhcpIndex = i, !.heap = h]
      BY <1>9, <2>1
    <2> QED BY <1>4, <1>10, <2>2 DEF Memory
  <1>12. Assigned(m, m2, c, e, a, until)
    <2>1. m1.cache \in [Client -> Pointer \cup {NULL}]
      BY <1>4 DEF Memory
    <2> QED BY <1>3, <1>8, <1>10, <1>11, <1>0, <2>1 DEF Assigned
  <1>13. u.file \in LeaseFile
    <2>1. PICK i \in Nat : i = m1.heap[e].ind
      BY <1>5
    <2>2. u.file = f \/ (i # 0 /\ u.file = WriteAt(f, i, r)) \/ u.file = Append(f, r)
      BY <1>6, <2>1
    <2>3. i # 0 => WriteAt(f, i, r) \in LeaseFile
      BY <1>7, <1>0, <2>1, FileFacts
    <2>4. Append(f, r) \in LeaseFile
      <3>1. 1 \in Nat \ {0}
        OBVIOUS
      <3> QED BY <1>7, <1>0, <3>1, FileFacts
    <2> QED BY <1>0, <2>2, <2>3, <2>4
  <1>14. Assigned(m, u.mem, c, e, a, until) /\ u.mem.cache = m.cache
    BY <1>3, <1>6, <1>11, <1>12
  <1> QED BY <1>13, <1>14

\* What is noted of a write to the lease file.
LEMMA SavingFacts ==
    ASSUME hist \in [mishaps : SUBSET {"misread", "moved", "lost", "unsaved"},
                     contested : SUBSET Addr, fails : Nat, stops : Nat],
           NEW ok \in BOOLEAN, Saving(ok)
    PROVE  /\ hist' \in [mishaps : SUBSET {"misread", "moved", "lost", "unsaved"},
                         contested : SUBSET Addr, fails : Nat, stops : Nat]
           /\ hist'.contested = hist.contested
           /\ hist.mishaps \subseteq hist'.mishaps
           /\ hist'.mishaps \subseteq hist.mishaps \cup {"unsaved"}
  <1>1. CASE ok = TRUE
    <2>1. hist' = [hist EXCEPT !.fails = hist.fails, !.mishaps = hist.mishaps]
      BY <1>1 DEF Saving
    <2> QED BY <2>1
  <1>2. CASE ok = FALSE
    <2>1. hist' = [hist EXCEPT !.fails = hist.fails + 1, !.mishaps = hist.mishaps \cup {"unsaved"}]
      BY <1>2 DEF Saving
    <2>2. hist.fails + 1 \in Nat
      OBVIOUS
    <2> QED BY <2>1, <2>2
  <1> QED BY <1>1, <1>2

\* The same of the memory and the file the program has.
LEMMA UpdatedFacts ==
    ASSUME mem \in Memory, Owned(mem), file \in LeaseFile, NEW c \in Client, mem.cache[c] # NULL,
           NEW a \in Addr, mem.heap[mem.cache[c]].ip = a, NEW until \in Time, NEW ok,
           Update(c, until, ok)
    PROVE  /\ Assigned(mem, mem', c, mem.cache[c], a, until)
           /\ mem'.cache = mem.cache /\ file' \in LeaseFile
  <1>1. PICK u : u = UpdateDHCP(mem, file, mem.cache[c], c, until, ok)
    OBVIOUS
  <1>2. PICK m \in Memory, f \in LeaseFile : m = mem /\ f = file
    OBVIOUS
  <1>5. PICK e : e = mem.cache[c]
    OBVIOUS
  <1>3. mem' = u.mem /\ file' = u.file
    BY <1>1 DEF Update
  <1>4. Updates(u, m, f, c, e, a, until, ok)
    BY <1>1, <1>2, <1>5 DEF Updates
  <1>6. Assigned(m, u.mem, c, e, a, until) /\ u.mem.cache = m.cache /\ u.file \in LeaseFile
    BY <1>4, UpdateFacts, Zenon
  <1> QED BY <1>2, <1>3, <1>5, <1>6

\* updateDHCP, for a client that has been told the lease, or has none.
LEMMA UpdateStep ==
    ASSUME DhcpSound, OneHolder, ~Excused, up, NEW c \in Client, NEW until \in Time \ {Never},
           NEW ok \in BOOLEAN, UNCHANGED dhcpWorld, Update(c, until, ok),
           mem.cache[c] # NULL, NEW a \in Addr, mem.heap[mem.cache[c]].ip = a,
           held' \in [Client -> [ip : Addr \cup {0}, until : Time]],
           \A d \in Client \ {c} : held'[d] = held[d],
           Active(c)' => held'[c] = [ip |-> a, until |-> until],
           owed = Nothing \/ owed.client = c, owed' = Nothing
    PROVE  DhcpSound' /\ OneHolder'
  <1>1. DhcpType /\ MemInv(mem, hist.contested) /\ mem \in Memory /\ Owned(mem)
        /\ file \in LeaseFile
    BY DEF DhcpSound, DhcpType, MemInv
  <1>2. UNCHANGED <<up, loaded>>
    BY DEF Update
  <1>20. \A d \in Client \ {c} :
            Active(d) /\ held[d].ip \notin hist.contested => Kept(mem, d, hist.mishaps)
    BY DEF DhcpSound, LeasesKept, Promised
  <1>5. PICK e : e = mem.cache[c]
    OBVIOUS
  <1>6. Assigned(mem, mem', c, e, a, until) /\ mem'.cache = mem.cache /\ file' \in LeaseFile
    <2>1. until \in Time
      OBVIOUS
    <2> QED BY <1>1, <1>5, <2>1, UpdatedFacts
  <1>7. hist \in [mishaps : SUBSET {"misread", "moved", "lost", "unsaved"},
                  contested : SUBSET Addr, fails : Nat, stops : Nat]
    BY <1>1 DEF DhcpType
  <1>8. /\ hist' \in [mishaps : SUBSET {"misread", "moved", "lost", "unsaved"},
                      contested : SUBSET Addr, fails : Nat, stops : Nat]
        /\ hist'.contested = hist.contested
        /\ hist.mishaps \subseteq hist'.mishaps
        /\ hist'.mishaps \subseteq hist.mishaps \cup {"unsaved"}
    BY <1>7, SavingFacts DEF Update
  <1>11. held' \in [Client -> [ip : Addr \cup {0}, until : Time]]
         /\ \A d \in Client \ {c} : held'[d] = held[d]
    OBVIOUS
  <1>12. \A d \in Client \ {c} : Active(d)' => Active(d) /\ held[d].ip \in Addr
    BY <1>1, <1>11, HeldType DEF Active
  <1>13. Active(c)' => held'[c] = [ip |-> a, until |-> until]
    OBVIOUS
  <1>14. c \in Having(mem, a)
    BY DEF Having
  <1>15. MemInv(mem', hist'.contested)
    <2>1. a \notin hist.contested => Cleared(mem, mem', c, a)
      BY <1>1, <1>14 DEF MemInv, OneEntry, Cleared
    <2> QED BY <1>1, <1>6, <1>8, <2>1, AssignedInv
  <1>16. \A d \in Client \ {c} :
            Active(d)' /\ held[d].ip \notin hist.contested => held[d].ip # a
    <2> SUFFICES ASSUME NEW d \in Client \ {c}, Active(d)', held[d].ip \notin hist.contested,
                        held[d].ip = a
                 PROVE  FALSE
      OBVIOUS
    <2>1. Kept(mem, d, hist.mishaps)
      BY <1>12, <1>20
    <2> QED BY <1>14, <2>1 DEF Kept
  <1>17. LeasesKept'
    <2> SUFFICES ASSUME NEW d \in Client, Active(d)', held'[d].ip \notin hist'.contested
                 PROVE  Kept(mem, d, hist.mishaps)'
      BY DEF LeasesKept
    <2>1. CASE d = c
      <3>1. held'[d].ip = a /\ held'[d].until = until
        BY <1>13, <2>1
      <3>2. Having(mem', a) \subseteq {c}
        <4>1. c \in Having(mem', a)
          BY <1>1, <1>6, AssignedHaving
        <4> QED BY <1>8, <1>15, <3>1, <4>1 DEF MemInv, OneEntry
      <3>3. mem'.expiry[a] >= until
        BY <1>6, DhcpBasics DEF Assigned
      <3>4. Known(mem, d)'
        <4>1. mem'.cache[d] = e /\ e # NULL /\ mem'.heap[e].ip = a /\ mem'.heap[e].expiry = until
          BY <1>5, <1>6, <2>1 DEF Assigned
        <4>2. until >= until
          BY DhcpBasics
        <4> QED BY <3>1, <4>1, <4>2 DEF Known
      <3> QED BY <2>1, <3>1, <3>2, <3>3, <3>4 DEF Kept
    <2>2. CASE d # c
      <3>1. held'[d] = held[d] /\ Active(d) /\ held[d].ip \in Addr \ {a}
            /\ held[d].ip \notin hist.contested
        BY <1>8, <1>11, <1>12, <1>16, <2>2
      <3>2. Kept(mem, d, hist.mishaps)
        BY <1>20, <2>2, <3>1
      <3>3. Kept(mem', d, hist'.mishaps)
        <4>1. PICK n, S, T : n = mem' /\ S = hist.mishaps /\ T = hist'.mishaps
          OBVIOUS
        <4>2. Assigned(mem, n, c, e, a, until) /\ n.cache[d] = mem.cache[d] /\ S \subseteq T
              /\ Kept(mem, d, S)
          BY <1>6, <1>8, <3>2, <4>1
        <4>3. Kept(n, d, T)
          BY <1>1, <2>2, <3>1, <4>2, KeptAssigned
        <4> QED BY <4>1, <4>3
      <3> QED BY <3>1, <3>3 DEF Kept, Known
    <2> QED BY <2>1, <2>2
  <1>18. OneHolder'
    <2> SUFFICES ASSUME NEW x \in Client, NEW y \in Client, x # y, Active(x)', Active(y)',
                        held'[x].ip = held'[y].ip, Undisturbed(held[x].ip, {"misread", "lost"})'
                 PROVE  FALSE
      BY DEF OneHolder
    <2>1. held'[x].ip \notin hist.contested /\ hist.mishaps \cap {"misread", "lost"} = {}
      BY <1>8 DEF Undisturbed
    <2>2. CASE x = c
      BY <1>11, <1>13, <1>16, <2>1, <2>2
    <2>3. CASE y = c
      BY <1>11, <1>13, <1>16, <2>1, <2>3
    <2>4. CASE x # c /\ y # c
      BY <1>11, <1>12, <2>1, <2>4 DEF OneHolder, Undisturbed
    <2> QED BY <2>2, <2>3, <2>4
  <1>19. \A d \in Client : Active(d)' => held'[d].ip # 0
    BY <1>11, <1>12, <1>13, DhcpBasics
  <1> QED
    BY <1>1, <1>2, <1>6, <1>8, <1>11, <1>15, <1>17, <1>18, <1>19, NothingFacts
       DEF DhcpSound, DhcpType, Assigned

\* A client that chad finds an address for has an entry with it.
LEMMA ChadFacts ==
    ASSUME mem \in Memory, NEW c \in Client, NEW net \in Net, Chad(mem, c, net) # 0
    PROVE  /\ mem.cache[c] # NULL
           /\ mem.heap[mem.cache[c]].ip = Chad(mem, c, net)
           /\ Chad(mem, c, net) \in Addr
  <1>1. mem.cache[c] # NULL /\ mem.heap[mem.cache[c]].ip = Chad(mem, c, net)
    BY DEF Chad
  <1>2. mem.cache[c] \in Pointer /\ mem.heap \in [Pointer -> EntryData]
    BY <1>1 DEF Memory
  <1>3. mem.heap[mem.cache[c]].ip \in Addr \cup {0}
    BY <1>2 DEF EntryData
  <1> QED BY <1>1, <1>3

\* A reply that grants the address of the client's entry: no other client has it.
LEMMA PromiseStep ==
    ASSUME DhcpSound, OneHolder, ~Excused, Idle, NEW c \in Client, NEW until \in Time \ {Never},
           mem.cache[c] # NULL, NEW a \in Addr, mem.heap[mem.cache[c]].ip = a,
           UNCHANGED dhcpWorld, Promise(c, [ip |-> a, until |-> until])
    PROVE  DhcpSound' /\ OneHolder'
  <1>1. DhcpType /\ MemInv(mem, hist.contested) /\ LeasesKept /\ up
    BY DEF DhcpSound, Idle
  <1>2. /\ held' = [held EXCEPT ![c] = [ip |-> a, until |-> until]]
        /\ owed' = [client |-> c, until |-> until] /\ UNCHANGED <<up, loaded, mem, file, hist>>
    BY DEF Promise, Told
  <1>3. held \in [Client -> [ip : Addr \cup {0}, until : Time]]
    BY <1>1 DEF DhcpType
  <1>4. /\ held' \in [Client -> [ip : Addr \cup {0}, until : Time]]
        /\ held'[c] = [ip |-> a, until |-> until]
        /\ \A d \in Client \ {c} : held'[d] = held[d] /\ (Active(d)' <=> Active(d))
    BY <1>2, <1>3 DEF Active
  <1>5. c \in Having(mem, a)
    BY DEF Having
  <1>6. \A d \in Client \ {c} :
            Active(d) /\ held[d].ip \notin hist.contested =>
                held[d].ip # a /\ Kept(mem, d, hist.mishaps)
    BY <1>1, <1>5 DEF LeasesKept, Kept
  <1>7. OneHolder'
    <2> SUFFICES ASSUME NEW x \in Client, NEW y \in Client, x # y, Active(x)', Active(y)',
                        held'[x].ip = held'[y].ip, Undisturbed(held[x].ip, {"misread", "lost"})'
                 PROVE  FALSE
      BY DEF OneHolder
    <2>1. held'[x].ip \notin hist.contested /\ hist.mishaps \cap {"misread", "lost"} = {}
      BY <1>2 DEF Undisturbed
    <2>2. CASE x = c \/ y = c
      BY <1>4, <1>6, <2>1, <2>2
    <2>3. CASE x # c /\ y # c
      BY <1>4, <2>1, <2>3 DEF OneHolder, Undisturbed
    <2> QED BY <2>2, <2>3
  <1>8. \A d \in Client \ {c} :
            (Active(d) /\ held[d].ip \notin hist.contested => Kept(mem, d, hist.mishaps))'
    BY <1>2, <1>4, <1>6 DEF Kept, Known
  <1>9. DhcpType'
    BY <1>1, <1>2, <1>4, DhcpBasics DEF DhcpType
  <1>10. Promised' /\ owed' # Nothing
    <2>1. owed'.client = c /\ owed'.until = until
      BY <1>2
    <2>2. owed' # Nothing
      BY <2>1, NothingFacts
    <2> QED BY <1>2, <1>4, <1>8, <2>1, <2>2 DEF Promised
  <1> QED BY <1>1, <1>2, <1>7, <1>9, <1>10 DEF DhcpSound

\* A request that is acknowledged keeps the invariant.
LEMMA RequestAckStep ==
    ASSUME DhcpSound, OneHolder, ~Excused, NEW c \in Client, NEW net \in Net, NEW a \in Addr,
           UNCHANGED dhcpWorld, RequestAck(c, net, a)
    PROVE  DhcpSound' /\ OneHolder'
  <1>1. Idle /\ Chad(mem, c, net) = a /\ mem \in Memory
    BY DEF RequestAck, CanAck, DhcpSound, DhcpType
  <1>2. mem.cache[c] # NULL /\ mem.heap[mem.cache[c]].ip = a
    BY <1>1, ChadFacts, DhcpBasics
  <1>3. PICK until : until = Granted(c)
    OBVIOUS
  <1>4. until \in Time \ {Never}
    BY <1>3, DhcpBasics DEF Granted, Never, Now
  <1>5. Promise(c, [ip |-> a, until |-> until])
    BY <1>3 DEF RequestAck
  <1> QED BY <1>1, <1>2, <1>4, <1>5, PromiseStep

\* A BOOTP request keeps the invariant.
LEMMA BootpStep ==
    ASSUME DhcpSound, OneHolder, ~Excused, NEW c \in Client, NEW net \in Net,
           UNCHANGED dhcpWorld, Bootp(c, net)
    PROVE  DhcpSound' /\ OneHolder'
  <1>1. Idle /\ Chad(mem, c, net) # 0 /\ mem \in Memory
    BY DEF Bootp, DhcpSound, DhcpType
  <1>2. PICK a \in Addr : a = Chad(mem, c, net)
    BY <1>1, ChadFacts
  <1>3. mem.cache[c] # NULL /\ mem.heap[mem.cache[c]].ip = a
    BY <1>1, <1>2, ChadFacts
  <1>4. Forever \in Time \ {Never}
    BY DhcpBasics
  <1>5. Promise(c, [ip |-> a, until |-> Forever])
    BY <1>2 DEF Bootp
  <1> QED BY <1>1, <1>3, <1>4, <1>5, PromiseStep

\* alad records what the client was told.
LEMMA AladStep ==
    ASSUME DhcpSound, OneHolder, ~Excused, NEW ok \in BOOLEAN, UNCHANGED dhcpWorld, Alad(ok)
    PROVE  DhcpSound' /\ OneHolder'
  <1>1. /\ up /\ owed # Nothing /\ owed' = Nothing /\ held' = held
        /\ Update(owed.client, owed.until, ok)
    BY DEF Alad
  <1>2. DhcpType /\ Promised
    BY <1>1 DEF DhcpSound
  <1>3. PICK c \in Client, until \in Time \ {Never} : c = owed.client /\ until = owed.until
    BY <1>2 DEF Promised
  <1>4. PICK a \in Addr : a = held[c].ip
    BY <1>2, <1>3 DEF Promised
  <1>5. /\ mem.cache[c] # NULL /\ mem.heap[mem.cache[c]].ip = a
        /\ held[c] = [ip |-> a, until |-> until]
    BY <1>2, <1>3, <1>4 DEF Promised
  <1>6. held' \in [Client -> [ip : Addr \cup {0}, until : Time]]
    BY <1>1, <1>2 DEF DhcpType
  <1> QED BY <1>1, <1>3, <1>5, <1>6, UpdateStep

\* DHCPRELEASE keeps the invariant.
LEMMA ReleaseStep ==
    ASSUME DhcpSound, OneHolder, ~Excused, NEW c \in Client, NEW net \in Net,
           NEW ok \in BOOLEAN, UNCHANGED dhcpWorld, Release(c, net, ok)
    PROVE  DhcpSound' /\ OneHolder'
  <1>1. up /\ owed = Nothing /\ owed' = Nothing /\ Chad(mem, c, net) # 0 /\ mem \in Memory
    BY DEF Release, Idle, DhcpSound, DhcpType
  <1>2. PICK a \in Addr : a = Chad(mem, c, net)
    BY <1>1, ChadFacts
  <1>3. mem.cache[c] # NULL /\ mem.heap[mem.cache[c]].ip = a
    BY <1>1, <1>2, ChadFacts
  <1>4. PICK until \in Time \ {Never} : until = Now
    BY DhcpBasics
  <1>5. Update(c, until, ok) /\ held' = [held EXCEPT ![c] = NoLease]
    BY <1>4 DEF Release, Told
  <1>6. /\ held' \in [Client -> [ip : Addr \cup {0}, until : Time]]
        /\ \A d \in Client : Active(d)' => d # c
        /\ \A d \in Client \ {c} : held'[d] = held[d]
    <2>1. DhcpType /\ held \in [Client -> [ip : Addr \cup {0}, until : Time]]
      BY DEF DhcpSound, DhcpType
    <2> QED BY <1>5, <2>1, GivenUp
  <1>7. Active(c)' => held'[c] = [ip |-> a, until |-> until]
    BY <1>6
  <1>8. /\ owed = Nothing \/ owed.client = c
        /\ \A d \in Client \ {c} : held'[d] = held[d]
    BY <1>1, <1>6
  <1>9. /\ up /\ owed' = Nothing /\ Update(c, until, ok) /\ mem.cache[c] # NULL
        /\ mem.heap[mem.cache[c]].ip = a
        /\ held' \in [Client -> [ip : Addr \cup {0}, until : Time]]
    BY <1>1, <1>3, <1>5, <1>6
  <1> QED BY <1>7, <1>8, <1>9, UpdateStep

\* No entry gets an address, no slot in use becomes unused and no locked one free.
LEMMA Quietened ==
    ASSUME NEW m \in Memory, NEW n \in Memory, n.cache = m.cache, n.dhcpEntry = m.dhcpEntry,
           \A x \in Pointer : n.heap[x].mac = m.heap[x].mac,
           \A b \in Addr : /\ Having(n, b) \subseteq Having(m, b)
                           /\ m.expiry[b] # Never => n.expiry[b] # Never
                           /\ n.expiry[b] # Forever => m.expiry[b] # Forever,
           NEW X, MemInv(m, X)
    PROVE  MemInv(n, X)
  <1>1. Owned(n)
    <2>1. m.cache \in [Client -> Pointer \cup {NULL}]
      BY DEF Memory
    <2> QED BY <2>1 DEF MemInv, Owned
  <1>2. OneEntry(n, X) /\ SlotUsed(n) /\ SlotPoints(n, X)
    BY DEF MemInv, OneEntry, SlotUsed, SlotPoints
  <1> QED BY <1>1, <1>2 DEF MemInv

\* A request that is refused keeps the invariant.
LEMMA RequestNakStep ==
    ASSUME DhcpSound, OneHolder, ~Excused, NEW c \in Client, NEW net, NEW a,
           UNCHANGED dhcpWorld, RequestNak(c, net, a)
    PROVE  DhcpSound' /\ OneHolder'
  <1>1. UNCHANGED <<up, loaded, mem, file, owed, hist>> /\ held' = [held EXCEPT ![c] = NoLease]
        /\ up /\ owed = Nothing
    BY DEF RequestNak, Told, Idle
  <1>2. DhcpType /\ MemInv(mem, hist.contested) /\ LeasesKept
    BY <1>1 DEF DhcpSound
  <1>3. /\ held' \in [Client -> [ip : Addr \cup {0}, until : Time]]
        /\ \A d \in Client : Active(d)' => d # c /\ Active(d) /\ held'[d] = held[d]
        /\ \A d \in Client : Active(d)' => held'[d].ip # 0
    BY <1>1, <1>2, GivenUp
  <1>4. OneHolder'
    BY <1>1, <1>3, OneHolderKept
  <1>5. LeasesKept'
    BY <1>1, <1>2, <1>3 DEF LeasesKept, Kept, Known
  <1> QED BY <1>1, <1>2, <1>3, <1>4, <1>5 DEF DhcpSound, DhcpType

\* DHCPDECLINE keeps the invariant.
LEMMA DeclineStep ==
    ASSUME DhcpSound, OneHolder, ~Excused, NEW c \in Client, NEW net \in Net,
           UNCHANGED dhcpWorld, Decline(c, net)
    PROVE  DhcpSound' /\ OneHolder'
  <1>1. UNCHANGED <<up, loaded, file, owed, hist>> /\ held' = [held EXCEPT ![c] = NoLease]
        /\ up /\ owed = Nothing /\ Chad(mem, c, net) # 0
    BY DEF Decline, Told, Idle
  <1>2. DhcpType /\ MemInv(mem, hist.contested) /\ LeasesKept /\ mem \in Memory /\ Owned(mem)
    BY <1>1 DEF DhcpSound, DhcpType, MemInv
  <1>3. PICK a \in Addr : a = Chad(mem, c, net)
    BY <1>1, <1>2, ChadFacts
  <1>4. PICK m : m = LockAddr(mem, a)
    OBVIOUS
  <1>5. /\ m \in Memory /\ MemInv(m, hist.contested)
        /\ m.cache = mem.cache /\ m.heap = mem.heap
    BY <1>2, <1>4, LockFacts
  <1>6. PICK e : e = mem.cache[c]
    OBVIOUS
  <1>7. e # NULL /\ e \in Pointer /\ m.heap \in [Pointer -> EntryData]
    BY <1>1, <1>2, <1>5, <1>6, ChadFacts DEF Memory
  <1> DEFINE r == [m.heap[e] EXCEPT !.ip = 0]
             h == [m.heap EXCEPT ![e] = r]
  <1>8. mem' = [m EXCEPT !.heap[e].ip = 0]
    BY <1>3, <1>4, <1>6 DEF Decline
  <1>9. mem' = [m EXCEPT !.heap = h]
    BY <1>5, <1>8 DEF Memory
  <1>10. r \in EntryData /\ r.ip = 0 /\ r.mac = m.heap[e].mac
    BY <1>7 DEF EntryData
  <1> HIDE DEF r
  <1>11. h \in [Pointer -> EntryData] /\ h[e] = r /\ \A x \in Pointer \ {e} : h[x] = m.heap[x]
    BY <1>7, <1>10
  <1> HIDE DEF h
  <1>12. mem' \in Memory /\ mem'.cache = m.cache /\ mem'.heap = h /\ mem'.expiry = m.expiry
         /\ mem'.dhcpEntry = m.dhcpEntry
    BY <1>5, <1>9, <1>11 DEF Memory
  <1>13. \A d \in Client : d # c /\ m.cache[d] # NULL =>
             mem'.heap[mem'.cache[d]] = m.heap[m.cache[d]]
    <2>1. \A d \in Client : d # c /\ m.cache[d] # NULL => m.cache[d] \in Pointer \ {e}
      BY <1>2, <1>5, <1>6 DEF Owned, Memory
    <2> QED BY <1>11, <1>12, <2>1
  <1>14. \A b \in Addr : Having(mem', b) \subseteq Having(m, b)
    <2> SUFFICES ASSUME NEW b \in Addr, NEW d \in Having(mem', b) PROVE d \in Having(m, b)
      OBVIOUS
    <2>1. d \in Client /\ m.cache[d] # NULL /\ mem'.heap[mem'.cache[d]].ip = b
      BY <1>12 DEF Having
    <2>2. CASE d = c
      BY <1>5, <1>6, <1>10, <1>11, <1>12, <2>1, <2>2, DhcpBasics
    <2>3. CASE d # c
      BY <1>13, <2>1, <2>3 DEF Having
    <2> QED BY <2>2, <2>3
  <1>15. MemInv(mem', hist.contested)
    <2>1. \A x \in Pointer : mem'.heap[x].mac = m.heap[x].mac
      BY <1>7, <1>10, <1>11, <1>12
    <2>2. PICK n : n = mem'
      OBVIOUS
    <2>3. MemInv(n, hist.contested)
      BY <1>5, <1>12, <1>14, <2>1, <2>2, Quietened
    <2> QED BY <2>2, <2>3
  <1>16. /\ held' \in [Client -> [ip : Addr \cup {0}, until : Time]]
         /\ \A d \in Client : Active(d)' => d # c /\ Active(d) /\ held'[d] = held[d]
         /\ \A d \in Client : Active(d)' => held'[d].ip # 0
    BY <1>1, <1>2, GivenUp
  <1>17. OneHolder'
    BY <1>1, <1>16, OneHolderKept
  <1>18. LeasesKept'
    <2> SUFFICES ASSUME NEW d \in Client, Active(d)', held'[d].ip \notin hist'.contested
                 PROVE  Kept(mem, d, hist.mishaps)'
      BY DEF LeasesKept
    <2>1. d # c /\ Active(d) /\ held'[d] = held[d] /\ held[d].ip \in Addr
          /\ held[d].until \in Time /\ held[d].ip \notin hist.contested
      BY <1>1, <1>2, <1>16, HeldType
    <2>2. Kept(m, d, hist.mishaps)
      BY <1>2, <1>4, <2>1, KeptLocked DEF LeasesKept
    <2>3. Kept(mem', d, hist.mishaps)
      BY <1>12, <1>13, <1>14, <2>1, <2>2 DEF Kept, Known
    <2> QED BY <1>1, <2>1, <2>3 DEF Kept, Known
  <1> QED BY <1>1, <1>2, <1>12, <1>15, <1>16, <1>17, <1>18 DEF DhcpSound, DhcpType

\* A tick keeps times in order and what is special about some of them.
LEMMA CloserFacts ==
    ASSUME NEW t \in Time
    PROVE  /\ Closer(t) \in Time
           /\ t # Never => Closer(t) # Never
           /\ t = Forever => Closer(t) = Forever
           /\ Closer(t) > Now => t > Now
           /\ \A s \in Time : s <= t => Closer(s) <= Closer(t)
  <1>1. /\ t \in Nat /\ t <= Forever /\ Forever \in Nat /\ Forever > 2
        /\ Never = 0 /\ Past = 1 /\ Now = 2
    BY DhcpBasics DEF Never, Past, Now
  <1>2. Time = 0 .. Forever
    BY DhcpBasics
  <1>3. Closer(t) = IF t = 0 \/ t = 1 \/ t = Forever THEN t ELSE t - 1
    BY <1>1 DEF Closer
  <1>4. \A s \in Time : Closer(s) = IF s = 0 \/ s = 1 \/ s = Forever THEN s ELSE s - 1
    BY <1>1 DEF Closer
  <1>5. ASSUME NEW s \in Time, s <= t PROVE Closer(s) <= Closer(t)
    <2>1. s \in Nat /\ s <= Forever
      BY <1>2, <1>1
    <2> QED BY <1>1, <1>3, <1>4, <1>5, <2>1
  <1> QED BY <1>1, <1>2, <1>3, <1>5

\* The clock keeps the invariant.
LEMMA TickStep ==
    ASSUME DhcpSound, OneHolder, ~Excused, UNCHANGED dhcpWorld, DhcpTick
    PROVE  DhcpSound' /\ OneHolder'
  <1>1. DhcpType /\ mem \in Memory /\ file \in LeaseFile /\ UNCHANGED <<up, loaded, owed, hist>>
        /\ (up => owed = Nothing)
    BY DEF DhcpSound, DhcpType, DhcpTick, Idle
  <1> DEFINE h == [e \in Pointer |-> [mem.heap[e] EXCEPT !.expiry = Closer(mem.heap[e].expiry)]]
             x == [a \in Addr |-> Closer(mem.expiry[a])]
  <1>2. mem' = [mem EXCEPT !.heap = h, !.expiry = x]
    BY DEF DhcpTick
  <1>3. mem.heap \in [Pointer -> EntryData] /\ mem.expiry \in [Addr -> Time]
        /\ mem.cache \in [Client -> Pointer \cup {NULL}]
    BY <1>1 DEF Memory
  <1>4. ASSUME NEW e \in Pointer
        PROVE  /\ h[e] \in EntryData /\ mem.heap[e].expiry \in Time
               /\ h[e].mac = mem.heap[e].mac /\ h[e].ip = mem.heap[e].ip
               /\ h[e].expiry = Closer(mem.heap[e].expiry)
    <2>1. mem.heap[e] \in EntryData
      BY <1>3
    <2>2. mem.heap[e].expiry \in Time
      BY <2>1 DEF EntryData
    <2>3. Closer(mem.heap[e].expiry) \in Time
      BY <2>2, CloserFacts
    <2> QED BY <2>1, <2>2, <2>3 DEF EntryData
  <1>5. \A a \in Addr : mem.expiry[a] \in Time /\ x[a] \in Time /\ x[a] = Closer(mem.expiry[a])
    BY <1>3, CloserFacts
  <1>6. h \in [Pointer -> EntryData] /\ x \in [Addr -> Time]
    BY <1>4, <1>5
  <1> HIDE DEF h, x
  <1>7. mem' \in Memory /\ mem'.cache = mem.cache /\ mem'.heap = h /\ mem'.expiry = x
        /\ mem'.dhcpEntry = mem.dhcpEntry
    BY <1>1, <1>2, <1>6 DEF Memory
  <1>8. \A b \in Addr : Having(mem', b) = Having(mem, b)
    <2>1. \A c \in Client : mem.cache[c] # NULL => mem.cache[c] \in Pointer
      BY <1>3
    <2> QED BY <1>4, <1>7, <2>1 DEF Having
  <1>9. ASSUME NEW X, MemInv(mem, X) PROVE MemInv(mem', X)
    <2>1. PICK n : n = mem'
      OBVIOUS
    <2>2. \A b \in Addr : /\ mem.expiry[b] # Never => n.expiry[b] # Never
                          /\ n.expiry[b] # Forever => mem.expiry[b] # Forever
      BY <1>5, <1>7, <2>1, CloserFacts
    <2>3. MemInv(n, X)
      BY <1>1, <1>4, <1>7, <1>8, <1>9, <2>1, <2>2, Quietened
    <2> QED BY <2>1, <2>3
  <1>10. ASSUME SlotCovers(mem) PROVE SlotCovers(mem')
    <2> SUFFICES ASSUME NEW b \in Addr, NEW c \in Having(mem', b)
                 PROVE  mem'.heap[mem'.cache[c]].expiry <= mem'.expiry[b]
      BY DEF SlotCovers
    <2>1. c \in Having(mem, b) /\ mem.cache[c] \in Pointer
      BY <1>3, <1>8 DEF Having
    <2>2. mem.heap[mem.cache[c]].expiry <= mem.expiry[b]
      BY <1>10, <2>1 DEF SlotCovers
    <2> QED BY <1>4, <1>5, <1>7, <2>1, <2>2, CloserFacts
  <1>11. file' \in LeaseFile /\ Len(file') = Len(file)
    <2>1. file \in Seq(LeaseRecord) /\ \A i \in DOMAIN file : file[i].ip # 0 => file[i].mac \in Client
      BY <1>1 DEF LeaseFile
    <2>2. file' = [i \in DOMAIN file |-> [file[i] EXCEPT !.expiry = Closer(file[i].expiry)]]
      BY DEF DhcpTick
    <2>3. ASSUME NEW i \in DOMAIN file
          PROVE  file'[i] \in LeaseRecord /\ file'[i].ip = file[i].ip /\ file'[i].mac = file[i].mac
      <3>1. file[i] \in LeaseRecord
        BY <2>1
      <3>2. Closer(file[i].expiry) \in Time
        BY <3>1, CloserFacts DEF LeaseRecord
      <3> QED BY <2>2, <3>1, <3>2 DEF LeaseRecord
    <2>4. DOMAIN file = 1 .. Len(file) /\ Len(file) \in Nat
      BY <2>1
    <2>5. file' \in [1 .. Len(file) -> LeaseRecord]
      BY <2>2, <2>3, <2>4
    <2>6. file' \in Seq(LeaseRecord) /\ Len(file') = Len(file) /\ DOMAIN file' = DOMAIN file
      BY <2>4, <2>5
    <2> QED BY <2>1, <2>3, <2>6 DEF LeaseFile
  <1>12. ASSUME NEW c \in Client
         PROVE  /\ held'[c] \in [ip : Addr \cup {0}, until : Time]
                /\ Active(c)' => Active(c) /\ held'[c].ip = held[c].ip
                                 /\ held'[c].until = Closer(held[c].until)
    <2>1. held[c] \in [ip : Addr \cup {0}, until : Time]
      BY <1>1 DEF DhcpType
    <2>2. Closer(held[c].until) \in Time /\ held[c].until \in Time
          /\ (Closer(held[c].until) > Now => held[c].until > Now)
      BY <2>1, CloserFacts
    <2>3. held'[c] = IF Closer(held[c].until) <= Now THEN NoLease
                     ELSE [held[c] EXCEPT !.until = Closer(held[c].until)]
      BY DEF DhcpTick
    <2>4. Closer(held[c].until) > Now \/ Closer(held[c].until) <= Now
      BY <2>2, DhcpBasics
    <2>5. CASE Closer(held[c].until) <= Now
      BY <2>3, <2>5, NoLeaseFacts DEF Active
    <2>6. CASE ~(Closer(held[c].until) <= Now)
      BY <2>1, <2>2, <2>3, <2>4, <2>6 DEF Active
    <2> QED BY <2>5, <2>6
  <1>13. held' \in [Client -> [ip : Addr \cup {0}, until : Time]]
    BY <1>12 DEF DhcpTick
  <1>14. OneHolder'
    BY <1>1, <1>12, OneHolderKept
  <1>15. up => LeasesKept'
    <2> SUFFICES ASSUME up, NEW d \in Client, Active(d)', held'[d].ip \notin hist'.contested
                 PROVE  Kept(mem, d, hist.mishaps)'
      BY DEF LeasesKept
    <2>1. /\ Active(d) /\ held'[d].ip = held[d].ip /\ held'[d].until = Closer(held[d].until)
          /\ held[d].ip \in Addr /\ held[d].until \in Time /\ held[d].ip \notin hist.contested
      BY <1>1, <1>12, HeldType
    <2>2. Kept(mem, d, hist.mishaps)
      BY <1>1, <2>1 DEF DhcpSound, LeasesKept
    <2>3. Having(mem', held'[d].ip) \subseteq {d}
      BY <1>8, <2>1, <2>2 DEF Kept
    <2>4. mem'.expiry[held'[d].ip] >= held'[d].until
      <3>1. held[d].until <= mem.expiry[held[d].ip]
        BY <1>5, <2>1, <2>2, DhcpBasics DEF Kept
      <3>2. Closer(held[d].until) <= Closer(mem.expiry[held[d].ip])
        BY <1>5, <2>1, <3>1, CloserFacts
      <3>3. mem'.expiry[held'[d].ip] = Closer(mem.expiry[held[d].ip])
        BY <1>5, <1>7, <2>1
      <3> QED BY <2>1, <3>2, <3>3
    <2>5. ASSUME Known(mem, d) PROVE Known(mem, d)'
      <3>1. PICK e \in Pointer : e = mem.cache[d]
        BY <1>3, <2>5 DEF Known
      <3>2. mem.heap[e].ip = held[d].ip /\ held[d].until <= mem.heap[e].expiry
        BY <2>5, <3>1 DEF Known
      <3>3. Closer(held[d].until) <= Closer(mem.heap[e].expiry)
        BY <1>4, <2>1, <3>2, CloserFacts
      <3>4. mem'.cache[d] = e /\ e # NULL /\ mem'.heap[e].ip = held'[d].ip
            /\ mem'.heap[e].expiry >= held'[d].until
        BY <1>4, <1>7, <2>1, <3>1, <3>2, <3>3, DhcpBasics
      <3> QED BY <3>4 DEF Known
    <2> QED BY <1>1, <2>2, <2>3, <2>4, <2>5 DEF Kept
  <1>16. \A d \in Client : Active(d)' => held'[d].ip # 0
    BY <1>1, <1>12 DEF DhcpType
  <1>17. MemInv(mem', IF up THEN hist.contested ELSE {}) /\ (~up => SlotCovers(mem'))
    BY <1>9, <1>10 DEF DhcpSound
  <1> QED
    BY <1>1, <1>7, <1>11, <1>13, <1>14, <1>15, <1>16, <1>17 DEF DhcpSound, DhcpType

\* The memory init starts with.
LEMMA ConfiguredFacts ==
    /\ Configured \in Memory
    /\ MemInv(Configured, {})
    /\ SlotCovers(Configured)
  <1> DEFINE m == Configured
             fixedAt(a) == \E c \in DOMAIN Static : Static[c] = a
  <1>0. /\ DOMAIN Static \subseteq Client
        /\ \A c \in DOMAIN Static : Static[c] \in Addr
        /\ \A c, d \in DOMAIN Static : Static[c] = Static[d] => c = d
    BY DhcpAssumption
  <1>1. Blank \in EntryData
    BY DhcpBasics DEF Blank, EntryData, Never
  <1>2. ASSUME NEW c \in DOMAIN Static
        PROVE  LET s == [Blank EXCEPT !.mac = c, !.ip = Static[c], !.fixed = TRUE]
               IN  s \in EntryData /\ s.mac = c /\ s.ip = Static[c] /\ s.expiry = Never
    BY <1>0, DhcpBasics DEF Blank, EntryData, Never
  <1>3. /\ m.cache = [c \in Client |-> IF c \in DOMAIN Static THEN c ELSE NULL]
        /\ m.heap = [e \in Pointer |->
              IF e \in DOMAIN Static
              THEN [Blank EXCEPT !.mac = e, !.ip = Static[e], !.fixed = TRUE] ELSE Blank]
        /\ m.expiry = [a \in Addr |-> IF a \in Locked \/ fixedAt(a) THEN Forever ELSE Never]
        /\ m.dhcpEntry = [a \in Addr |-> NULL]
        /\ m.dhcpIndex = 0
        /\ m = [cache |-> m.cache, heap |-> m.heap, expiry |-> m.expiry,
                dhcpEntry |-> m.dhcpEntry, dhcpIndex |-> m.dhcpIndex]
    BY DEF Configured
  <1> HIDE DEF m
  <1>4. m \in Memory
    <2>1. m.cache \in [Client -> Pointer \cup {NULL}]
      <3>1. \A c \in Client : (IF c \in DOMAIN Static THEN c ELSE NULL) \in Pointer \cup {NULL}
        BY DhcpBasics
      <3>2. m.cache = [c \in Client |-> IF c \in DOMAIN Static THEN c ELSE NULL]
        BY <1>3
      <3> QED BY <3>1, <3>2
    <2>2. m.heap \in [Pointer -> EntryData]
      <3>1. m.heap = [e \in Pointer |->
              IF e \in DOMAIN Static
              THEN [Blank EXCEPT !.mac = e, !.ip = Static[e], !.fixed = TRUE] ELSE Blank]
        BY <1>3
      <3>2. \A e \in Pointer : m.heap[e] \in EntryData
        BY <1>1, <1>2, <3>1
      <3> QED BY <3>1, <3>2
    <2>3. m.expiry \in [Addr -> Time] /\ m.dhcpEntry \in [Addr -> Pointer \cup {NULL}]
          /\ m.dhcpIndex \in Nat
      <3>1. m.expiry = [a \in Addr |-> IF a \in Locked \/ fixedAt(a) THEN Forever ELSE Never]
        BY <1>3
      <3>2. m.expiry \in [Addr -> Time]
        <4> HIDE DEF fixedAt
        <4> QED BY <3>1, DhcpBasics
      <3>3. m.dhcpEntry = [a \in Addr |-> NULL] /\ m.dhcpIndex = 0
        BY <1>3
      <3> QED BY <3>2, <3>3
    <2> QED BY <1>3, <2>1, <2>2, <2>3 DEF Memory
  <1>5. ASSUME NEW c \in Client, m.cache[c] # NULL
        PROVE  c \in DOMAIN Static /\ m.cache[c] = c /\ m.heap[c].mac = c
               /\ m.heap[c].ip = Static[c] /\ m.heap[c].expiry = Never
    <2>1. c \in DOMAIN Static /\ m.cache[c] = c
      BY <1>3, <1>5
    <2>2. m.heap[c] = [Blank EXCEPT !.mac = c, !.ip = Static[c], !.fixed = TRUE]
      BY <1>3, <2>1, DhcpBasics
    <2> QED BY <1>2, <2>1, <2>2
  <1>6. Owned(m)
    BY <1>5 DEF Owned
  <1>7. ASSUME NEW a \in Addr, NEW c \in Having(m, a)
        PROVE  c \in DOMAIN Static /\ Static[c] = a /\ m.expiry[a] = Forever
               /\ m.heap[m.cache[c]].expiry = Never
    <2>1. c \in Client /\ m.cache[c] # NULL /\ m.heap[m.cache[c]].ip = a
      BY <1>7 DEF Having
    <2>2. c \in DOMAIN Static /\ Static[c] = a /\ m.heap[m.cache[c]].expiry = Never
      BY <1>5, <2>1
    <2> QED BY <1>3, <2>2
  <1>8. OneEntry(m, {}) /\ SlotUsed(m) /\ SlotPoints(m, {})
    <2>1. Never # Forever
      BY DhcpBasics
    <2> QED BY <1>0, <1>7, <2>1 DEF OneEntry, SlotUsed, SlotPoints
  <1>9. SlotCovers(m)
    BY <1>7, DhcpBasics DEF SlotCovers, Never
  <1> QED BY <1>4, <1>6, <1>8, <1>9 DEF MemInv, m

\* After an assignment slots still expire no sooner than their entries.
LEMMA AssignedCovers ==
    ASSUME NEW m \in Memory, NEW n, NEW c \in Client, NEW e, NEW a \in Addr, NEW until \in Time,
           Assigned(m, n, c, e, a, until), Cleared(m, n, c, a), SlotCovers(m)
    PROVE  SlotCovers(n)
  <1>1. /\ \A b \in Addr : Having(n, b) \ {c} \subseteq Having(m, b)
        /\ \A b \in Addr \ {a} : c \notin Having(n, b)
    BY AssignedHaving, Zenon
  <1>4. Having(n, a) = {c}
    BY AssignedHaving
  <1> SUFFICES ASSUME NEW b \in Addr, NEW d \in Having(n, b)
               PROVE  n.heap[n.cache[d]].expiry <= n.expiry[b]
    BY DEF SlotCovers
  <1>2. CASE b = a
    <2>1. n.heap[n.cache[d]].expiry = until
      BY <1>4, <1>2 DEF Assigned
    <2>2. n.expiry[a] = Forever \/ n.expiry[a] = until
      BY DEF Assigned
    <2> QED BY <1>2, <2>1, <2>2, DhcpBasics
  <1>3. CASE b # a
    <2>1. d # c /\ d \in Having(m, b)
      BY <1>1, <1>3
    <2>2. d \in Client /\ n.cache[d] # NULL
      BY DEF Having
    <2>3. n.cache[d] = m.cache[d] /\ n.heap[n.cache[d]].expiry = m.heap[m.cache[d]].expiry
          /\ n.expiry[b] = m.expiry[b]
      BY <1>3, <2>1, <2>2 DEF Assigned
    <2> QED BY <2>1, <2>3 DEF SlotCovers
  <1> QED BY <1>2, <1>3

\* A record of the lease file that is not passed over gives its client its address.
LEMMA LoadFacts ==
    ASSUME NEW m \in Memory, MemInv(m, {}), SlotCovers(m),
           NEW r \in LeaseRecord, r.ip # 0 => r.mac \in Client
    PROVE  LET n == LoadRecord(m, r) IN n \in Memory /\ MemInv(n, {}) /\ SlotCovers(n)
  <1>1. CASE PassedOver(m, r)
    BY <1>1 DEF LoadRecord
  <1>2. CASE ~PassedOver(m, r)
    <2> DEFINE c == r.mac
               a == r.ip
               k == [d \in Client |-> IF m.cache[c] = NULL /\ d \in Having(m, a)
                                      THEN NULL ELSE m.cache[d]]
               m1 == [m EXCEPT !.cache = k]
               m2 == IF m1.cache[c] # NULL THEN m1 ELSE NewEntry(m1, c)
               e == m2.cache[c]
               until == IF r.expiry > Now THEN r.expiry ELSE Now
               n == LoadRecord(m, r)
    <2>1. a \in Addr /\ c \in Client /\ r.source \in Net \cup {0}
      BY <1>2, DhcpBasics DEF PassedOver, LeaseRecord
    <2>2. until \in Time \ {Never}
      BY DhcpBasics DEF LeaseRecord, Now, Never
    <2>3. n = SetLeaseExpiry(Place(m2, e, a, r.source), e, until)
      BY <1>2 DEF LoadRecord
    <2> HIDE DEF until, n, c, a
    <2>4. m.cache \in [Client -> Pointer \cup {NULL}]
      BY DEF Memory
    <2>5. k \in [Client -> Pointer \cup {NULL}]
      BY <2>4
    <2>6. m1 \in Memory /\ m1.cache = k /\ m1.heap = m.heap /\ m1.expiry = m.expiry
          /\ m1.dhcpEntry = m.dhcpEntry
      <3> HIDE DEF k
      <3> QED BY <2>5 DEF Memory
    <2>7. /\ k[c] = m.cache[c]
          /\ m.cache[c] # NULL => \A d \in Client : k[d] = m.cache[d]
          /\ m.cache[c] = NULL => \A d \in Having(m, a) : k[d] = NULL
          /\ \A d \in Client : k[d] \in {m.cache[d], NULL}
      BY <2>1 DEF Having
    <2> HIDE DEF k, m1
    <2>8. Owned(m)
      BY DEF MemInv
    <2>9. \E b : Prepared(m, m2, c, e, b) /\ Cleared(m, m2, c, a)
      <3>1. CASE m.cache[c] # NULL
        <4>1. m2 = m1 /\ e = m.cache[c]
          BY <2>6, <2>7, <3>1
        <4>2. m.heap[m.cache[c]].ip = a
          BY <1>2, <3>1 DEF PassedOver, a, c
        <4>3. Prepared(m, m, c, m.cache[c], a)
          BY <2>1, <2>8, <3>1, <4>2, OwnPrepared
        <4>4. Prepared(m, m1, c, m.cache[c], a)
          BY <2>6, <2>7, <3>1, <4>3 DEF Prepared
        <4>5. \A d \in Having(m, a) : d = c
          <5>1. c \in Having(m, a)
            BY <2>1, <3>1, <4>2 DEF Having
          <5> QED BY <2>1, <5>1 DEF MemInv, OneEntry
        <4>6. Cleared(m, m1, c, a)
          BY <4>5 DEF Cleared
        <4> QED BY <4>1, <4>4, <4>6
      <3>2. CASE m.cache[c] = NULL
        <4>1. m2 = NewEntry(m1, c) /\ m1.cache[c] = NULL
          BY <2>6, <2>7, <3>2
        <4>2. Prepared(m1, m2, c, e, 0) /\ \A d \in Client \ {c} : m2.cache[d] = m1.cache[d]
          BY <2>1, <2>6, <4>1, NewPrepared
        <4> HIDE DEF m2, e
        <4>3. \A d \in Client \ {c} : m2.cache[d] = k[d] /\ m2.cache[d] \in {m.cache[d], NULL}
          BY <2>6, <2>7, <4>2
        <4>4. Prepared(m, m2, c, e, 0)
          BY <2>6, <4>2, <4>3 DEF Prepared
        <4>5. Cleared(m, m2, c, a)
          BY <2>7, <3>2, <4>3 DEF Cleared, Having
        <4> QED BY <4>4, <4>5
      <3> QED BY <3>1, <3>2
    <2> HIDE DEF m2, e
    <2>10. PICK q : q = Place(m2, e, a, r.source)
      OBVIOUS
    <2>11. Prepared(m, q, c, e, a) /\ q.cache = m2.cache
      BY <2>1, <2>9, <2>10, MovedPrepared
    <2>12. Assigned(m, n, c, e, a, until) /\ n.cache = m2.cache
      BY <2>1, <2>2, <2>3, <2>10, <2>11, PreparedAssigned
    <2>13. Cleared(m, n, c, a)
      BY <2>9, <2>12 DEF Cleared
    <2>14. MemInv(n, {})
      BY <2>1, <2>2, <2>12, <2>13, AssignedInv
    <2>15. SlotCovers(n)
      BY <2>1, <2>2, <2>12, <2>13, AssignedCovers
    <2>16. n \in Memory
      BY <2>12 DEF Assigned
    <2> QED BY <2>14, <2>15, <2>16 DEF n
  <1> QED BY <1>1, <1>2

\* init reads a record of the lease file.
LEMMA LoadStep ==
    ASSUME DhcpSound, OneHolder, ~Excused, UNCHANGED dhcpWorld, Load
    PROVE  DhcpSound' /\ OneHolder'
  <1>1. ~up /\ UNCHANGED <<up, file, held, owed, hist>> /\ loaded < Len(file)
        /\ loaded' = loaded + 1 /\ mem' = LoadRecord(mem, file[loaded + 1])
    BY DEF Load
  <1>2. DhcpType /\ MemInv(mem, {}) /\ SlotCovers(mem) /\ mem \in Memory /\ file \in LeaseFile
        /\ loaded \in 0 .. Len(file)
    BY <1>1 DEF DhcpSound, DhcpType
  <1>3. PICK r : r = file[loaded + 1]
    OBVIOUS
  <1>4. r \in LeaseRecord /\ (r.ip # 0 => r.mac \in Client) /\ loaded + 1 \in 0 .. Len(file)
    <2>1. file \in Seq(LeaseRecord) /\ \A i \in DOMAIN file : file[i].ip # 0 => file[i].mac \in Client
      BY <1>2 DEF LeaseFile
    <2>2. loaded + 1 \in DOMAIN file /\ loaded + 1 \in 0 .. Len(file)
      BY <1>1, <1>2, <2>1
    <2> QED BY <1>3, <2>1, <2>2
  <1>5. PICK n : n = LoadRecord(mem, r)
    OBVIOUS
  <1>6. n \in Memory /\ MemInv(n, {}) /\ SlotCovers(n)
    BY <1>2, <1>4, <1>5, LoadFacts
  <1>7. mem' = n
    BY <1>1, <1>3, <1>5
  <1>8. OneHolder'
    BY <1>1, OneHolderKept DEF Active
  <1>9. DhcpType'
    BY <1>1, <1>2, <1>4, <1>6, <1>7 DEF DhcpType, Active
  <1> QED BY <1>1, <1>6, <1>7, <1>8, <1>9 DEF DhcpSound

\* A finite set of numbers in increasing order.
Ordered(T) ==
    \E w \in [1 .. Cardinality(T) -> T] : \A i, j \in DOMAIN w : i < j => w[i] < w[j]

\* No numbers are in order.
LEMMA OrderedEmpty == Ordered({})
  <1>1. Cardinality({}) = 0
    BY FS_EmptySet
  <1>2. [i \in 1 .. 0 |-> 0] \in [1 .. 0 -> {}]
    OBVIOUS
  <1>3. \A i, j \in DOMAIN [i \in 1 .. 0 |-> 0] : FALSE
    OBVIOUS
  <1> QED BY <1>1, <1>2, <1>3 DEF Ordered

\* One more number, less than all the others, comes first.
LEMMA OrderedMore ==
    ASSUME NEW T \in SUBSET Nat, NEW x \in T, \A y \in T : x <= y, Ordered(T \ {x}),
           Cardinality(T \ {x}) \in Nat, Cardinality(T) = Cardinality(T \ {x}) + 1
    PROVE  Ordered(T)
  <1> DEFINE n == Cardinality(T \ {x})
  <1>1. PICK w \in [1 .. n -> T \ {x}] : \A i, j \in DOMAIN w : i < j => w[i] < w[j]
    BY DEF Ordered
  <1>2. n \in Nat /\ Cardinality(T) = n + 1
    OBVIOUS
  <1> HIDE DEF n
  <1> DEFINE v == [i \in 1 .. n + 1 |-> IF i = 1 THEN x ELSE w[i - 1]]
  <1>3. ASSUME NEW i \in 1 .. n + 1
        PROVE  \/ i = 1 /\ v[i] = x
               \/ i - 1 \in 1 .. n /\ v[i] = w[i - 1] /\ v[i] \in T \ {x}
    BY <1>1, <1>2
  <1>4. v \in [1 .. n + 1 -> T]
    BY <1>3
  <1>5. ASSUME NEW i \in 1 .. n + 1, NEW j \in 1 .. n + 1, i < j
        PROVE  v[i] < v[j]
    <2>1. j - 1 \in 1 .. n /\ v[j] = w[j - 1] /\ v[j] \in T \ {x}
      BY <1>2, <1>3, <1>5
    <2>2. CASE i = 1
      <3>1. v[i] = x /\ x <= v[j] /\ x # v[j]
        BY <2>1, <2>2, <1>2
      <3>2. x \in Nat /\ v[j] \in Nat
        BY <2>1
      <3> HIDE DEF v
      <3> QED BY <3>1, <3>2
    <2>3. CASE i # 1
      <3>1. i - 1 \in 1 .. n /\ v[i] = w[i - 1] /\ i - 1 < j - 1
        BY <1>2, <1>3, <1>5, <2>3
      <3> QED BY <1>1, <2>1, <3>1
    <2> QED BY <2>2, <2>3
  <1>6. DOMAIN v = 1 .. n + 1
    OBVIOUS
  <1> HIDE DEF v
  <1> QED BY <1>2, <1>4, <1>5, <1>6 DEF Ordered

\* Every finite set of numbers can be put in increasing order: one with the fewest
\* elements that cannot would lose its least element.
LEMMA OrderedFinite ==
    ASSUME NEW S \in SUBSET Nat, IsFiniteSet(S)
    PROVE  Ordered(S)
  <1> DEFINE Bad == {k \in Nat : \E T \in SUBSET S : Cardinality(T) = k /\ ~Ordered(T)}
  <1> SUFFICES ASSUME ~Ordered(S) PROVE FALSE
    OBVIOUS
  <1>1. \A T \in SUBSET S : IsFiniteSet(T) /\ Cardinality(T) \in Nat
    BY FS_Subset, FS_CardinalityType
  <1>2. Cardinality(S) \in Bad
    BY <1>1
  <1>3. PICK k : k = Min(Bad)
    OBVIOUS
  <1>4. k \in Bad /\ \A y \in Bad : k <= y
    <2>1. Bad \in SUBSET Nat /\ Bad # {}
      BY <1>2
    <2> HIDE DEF Bad
    <2> QED BY <1>3, <2>1, MinIsMember
  <1>5. PICK T \in SUBSET S : Cardinality(T) = k /\ ~Ordered(T)
    BY <1>4
  <1>6. T # {}
    BY <1>5, OrderedEmpty
  <1>7. T \in SUBSET Nat
    OBVIOUS
  <1>8. PICK x \in T : \A y \in T : x <= y
    BY <1>6, <1>7, MinIsMember
  <1>9. Cardinality(T \ {x}) = Cardinality(T) - 1
    BY <1>1, <1>8, FS_RemoveElement
  <1>10. T \ {x} \in SUBSET S /\ Cardinality(T \ {x}) \in Nat /\ Cardinality(T) \in Nat
    BY <1>1
  <1>11. Ordered(T \ {x})
    <2>1. Cardinality(T \ {x}) \notin Bad
      BY <1>4, <1>5, <1>9, <1>10
    <2> QED BY <1>10, <2>1
  <1>12. Ordered(T)
    BY <1>7, <1>8, <1>9, <1>10, <1>11, OrderedMore
  <1> QED BY <1>5, <1>12

\* The clients that are written back, in their order.
LEMMA WrittenBackFacts ==
    ASSUME NEW m
    PROVE  /\ WrittenBack(m) \in [1 .. Cardinality(WithLease(m)) -> WithLease(m)]
           /\ Cardinality(WithLease(m)) \in Nat
  <1>1. WithLease(m) \in SUBSET Nat /\ IsFiniteSet(WithLease(m)) /\ Cardinality(WithLease(m)) \in Nat
    <2>1. WithLease(m) \subseteq Client /\ Client \subseteq Nat /\ IsFiniteSet(Client)
      BY DhcpAssumption, DhcpBasics DEF WithLease
    <2> QED BY <2>1, FS_Subset, FS_CardinalityType
  <1>2. Ordered(WithLease(m))
    BY <1>1, OrderedFinite
  <1> QED BY <1>1, <1>2 DEF Ordered, WrittenBack

\* The file init writes.
LEMMA WrittenFileFacts ==
    ASSUME NEW m \in Memory
    PROVE  /\ WrittenFile(m) \in LeaseFile
           /\ \A k \in Nat : k < Len(WrittenFile(m)) => SubSeq(WrittenFile(m), 1, k) \in LeaseFile
  <1> DEFINE n == Cardinality(WithLease(m))
             w == WrittenBack(m)
             f == WrittenFile(m)
  <1>1. w \in [1 .. n -> WithLease(m)] /\ n \in Nat
    BY WrittenBackFacts
  <1>2. f = [i \in 1 .. n |-> Record(m, m.cache[w[i]], w[i])]
    BY <1>1 DEF WrittenFile
  <1> HIDE DEF n, w, f
  <1>3. ASSUME NEW i \in 1 .. n
        PROVE  f[i] \in LeaseRecord /\ f[i].mac \in Client
    <2>1. PICK c : c = w[i]
      OBVIOUS
    <2>2. c \in Client /\ m.cache[c] # NULL
      BY <1>1, <2>1 DEF WithLease
    <2>3. PICK e : e = m.cache[c]
      OBVIOUS
    <2>4. e \in Pointer /\ m.heap[e] \in EntryData
      BY <2>2, <2>3 DEF Memory
    <2>5. f[i] = Record(m, e, c)
      BY <1>2, <2>1, <2>3
    <2> QED BY <2>2, <2>4, <2>5 DEF Record, LeaseRecord, EntryData
  <1>4. f \in Seq(LeaseRecord) /\ DOMAIN f = 1 .. n /\ Len(f) = n
    <2>1. f \in [1 .. n -> LeaseRecord]
      BY <1>2, <1>3
    <2> QED BY <1>1, <2>1
  <1>5. f \in LeaseFile
    BY <1>3, <1>4 DEF LeaseFile
  <1>6. ASSUME NEW k \in Nat, k < Len(f)
        PROVE  SubSeq(f, 1, k) \in LeaseFile
    <2>1. PICK g : g = SubSeq(f, 1, k)
      OBVIOUS
    <2>2. /\ g \in Seq(LeaseRecord) /\ DOMAIN g = 1 .. k
          /\ \A i \in 1 .. k : g[i] = f[i] /\ i \in 1 .. n
      BY <1>1, <1>4, <1>6, <2>1
    <2>3. g \in LeaseFile
      BY <1>3, <2>2 DEF LeaseFile
    <2> QED BY <2>1, <2>3
  <1> QED BY <1>5, <1>6 DEF f

\* Writing the entries back changes nothing but their indexes.
LEMMA RenumberedFacts ==
    ASSUME NEW m \in Memory
    PROVE  LET n == Renumbered(m) IN
           /\ n \in Memory
           /\ n.cache = m.cache /\ n.expiry = m.expiry /\ n.dhcpEntry = m.dhcpEntry
           /\ \A e \in Pointer : /\ n.heap[e].mac = m.heap[e].mac
                                 /\ n.heap[e].ip = m.heap[e].ip
                                 /\ n.heap[e].expiry = m.heap[e].expiry
  <1> DEFINE k == Cardinality(WithLease(m))
             w == WrittenBack(m)
             index(e) == IF \E i \in DOMAIN w : m.cache[w[i]] = e
                         THEN CHOOSE i \in DOMAIN w : m.cache[w[i]] = e ELSE 0
             h == [e \in Pointer |-> [m.heap[e] EXCEPT !.ind = index(e)]]
             n == Renumbered(m)
  <1>1. w \in [1 .. k -> WithLease(m)] /\ k \in Nat
    BY WrittenBackFacts
  <1>2. n = [m EXCEPT !.dhcpIndex = Len(w), !.heap = h]
    BY DEF Renumbered
  <1> HIDE DEF w, k, n
  <1>3. Len(w) \in Nat /\ DOMAIN w = 1 .. k
    <2>1. w \in Seq(WithLease(m))
      BY <1>1
    <2> QED BY <1>1, <2>1
  <1>4. ASSUME NEW e PROVE index(e) \in Nat
    <2>1. CASE \E i \in DOMAIN w : m.cache[w[i]] = e
      <3>1. index(e) \in DOMAIN w
        BY <2>1
      <3> QED BY <1>1, <1>3, <3>1
    <2>2. CASE ~\E i \in DOMAIN w : m.cache[w[i]] = e
      BY <2>2
    <2> QED BY <2>1, <2>2
  <1> HIDE DEF index
  <1>5. m.heap \in [Pointer -> EntryData]
    BY DEF Memory
  <1>6. ASSUME NEW e \in Pointer
        PROVE  h[e] \in EntryData /\ h[e].mac = m.heap[e].mac /\ h[e].ip = m.heap[e].ip
               /\ h[e].expiry = m.heap[e].expiry
    <2>1. m.heap[e] \in EntryData /\ index(e) \in Nat
      BY <1>4, <1>5
    <2> QED BY <2>1 DEF EntryData
  <1>7. h \in [Pointer -> EntryData]
    BY <1>6
  <1> HIDE DEF h
  <1>8. n \in Memory /\ n.cache = m.cache /\ n.expiry = m.expiry /\ n.dhcpEntry = m.dhcpEntry
        /\ n.heap = h
    BY <1>2, <1>3, <1>7 DEF Memory
  <1> QED BY <1>6, <1>8 DEF n

\* The process ends while the server runs or init reads the file.
LEMMA CrashStep ==
    ASSUME DhcpSound, OneHolder, ~Excused, UNCHANGED dhcpWorld, Crash
    PROVE  DhcpSound' /\ OneHolder'
  <1>1. up' = FALSE /\ loaded' = 0 /\ mem' = Configured /\ UNCHANGED <<file, held, owed>>
        /\ hist' = [hist EXCEPT !.stops = @ + 1]
    BY DEF Crash
  <1>2. DhcpType /\ file \in LeaseFile
        /\ hist \in [mishaps : SUBSET {"misread", "moved", "lost", "unsaved"},
                     contested : SUBSET Addr, fails : Nat, stops : Nat]
    BY DEF DhcpSound, DhcpType
  <1>3. /\ hist' \in [mishaps : SUBSET {"misread", "moved", "lost", "unsaved"},
                      contested : SUBSET Addr, fails : Nat, stops : Nat]
        /\ hist'.mishaps = hist.mishaps /\ hist'.contested = hist.contested
    BY <1>1, <1>2
  <1>4. OneHolder'
    BY <1>1, <1>3, OneHolderKept DEF Active
  <1>5. Len(file) \in Nat
    BY <1>2 DEF LeaseFile
  <1>6. DhcpType'
    <2>1. up' \in BOOLEAN /\ ~up'
      BY <1>1
    <2>2. mem' \in Memory /\ loaded' \in 0 .. Len(file)
      BY <1>1, <1>5, ConfiguredFacts
    <2> QED BY <1>1, <1>2, <1>3, <2>1, <2>2 DEF DhcpType, Active
  <1> QED BY <1>1, <1>4, <1>6, ConfiguredFacts DEF DhcpSound

\* The process ends while init writes the file.
LEMMA StartCutStep ==
    ASSUME DhcpSound, OneHolder, ~Excused, UNCHANGED dhcpWorld, NEW k \in Nat, StartCut(k)
    PROVE  DhcpSound' /\ OneHolder'
  <1>1. ~up /\ loaded' = 0 /\ mem' = Configured /\ UNCHANGED <<up, held, owed>>
        /\ file' = SubSeq(WrittenFile(mem), 1, k) /\ k < Len(WrittenFile(mem))
        /\ hist' = [hist EXCEPT !.stops = @ + 1, !.mishaps = @ \cup {"unsaved"}]
    BY DEF StartCut
  <1>2. DhcpType /\ mem \in Memory
        /\ hist \in [mishaps : SUBSET {"misread", "moved", "lost", "unsaved"},
                     contested : SUBSET Addr, fails : Nat, stops : Nat]
    BY DEF DhcpSound, DhcpType
  <1>3. /\ hist' \in [mishaps : SUBSET {"misread", "moved", "lost", "unsaved"},
                      contested : SUBSET Addr, fails : Nat, stops : Nat]
        /\ hist.mishaps \subseteq hist'.mishaps /\ hist'.contested = hist.contested
    <2>1. PICK s : s = hist.mishaps \cup {"unsaved"}
      OBVIOUS
    <2>2. s \in SUBSET {"misread", "moved", "lost", "unsaved"} /\ hist.mishaps \subseteq s
      BY <1>2, <2>1
    <2>3. PICK j \in Nat : j = hist.stops + 1
      BY <1>2
    <2>4. hist' = [hist EXCEPT !.stops = j, !.mishaps = s]
      BY <1>1, <2>1, <2>3
    <2> QED BY <1>2, <2>2, <2>4
  <1>4. OneHolder'
    BY <1>1, <1>3, OneHolderKept DEF Active
  <1>5. file' \in LeaseFile
    BY <1>1, <1>2, WrittenFileFacts
  <1>6. Len(file') \in Nat
    BY <1>5 DEF LeaseFile
  <1>7. DhcpType'
    BY <1>1, <1>2, <1>3, <1>5, <1>6, ConfiguredFacts DEF DhcpType, Active
  <1> QED BY <1>1, <1>4, <1>7, ConfiguredFacts DEF DhcpSound

\* init has read the file: every lease that is held is in memory, or was lost.
LEMMA StartStep ==
    ASSUME DhcpSound, OneHolder, ~Excused', UNCHANGED dhcpWorld, NEW ok, Start(ok)
    PROVE  DhcpSound' /\ OneHolder'
  <1>1. ~up /\ up' = TRUE /\ loaded' = 0 /\ UNCHANGED held /\ owed' = Nothing
        /\ mem' = (IF ok THEN Renumbered(mem) ELSE mem)
        /\ file' = (IF ok THEN WrittenFile(mem) ELSE file)
        /\ hist' = [hist EXCEPT
              !.fails = IF ok THEN @ ELSE @ + 1,
              !.mishaps = @ \cup LostLeases \cup (IF ok THEN {} ELSE {"unsaved"})]
    BY DEF Start
  <1>2. DhcpType /\ mem \in Memory /\ file \in LeaseFile /\ MemInv(mem, {}) /\ SlotCovers(mem)
        /\ hist \in [mishaps : SUBSET {"misread", "moved", "lost", "unsaved"},
                     contested : SUBSET Addr, fails : Nat, stops : Nat]
    BY <1>1 DEF DhcpSound, DhcpType
  <1>3. PICK lost : lost = LostLeases
    OBVIOUS
  <1>4. lost \in {{"lost"}, {}}
    BY <1>3 DEF LostLeases
  <1>5. /\ hist' \in [mishaps : SUBSET {"misread", "moved", "lost", "unsaved"},
                      contested : SUBSET Addr, fails : Nat, stops : Nat]
        /\ hist.mishaps \subseteq hist'.mishaps /\ hist'.contested = hist.contested
        /\ lost \subseteq hist'.mishaps
    <2>1. PICK s : s = hist.mishaps \cup lost \cup (IF ok THEN {} ELSE {"unsaved"})
      OBVIOUS
    <2>2. s \in SUBSET {"misread", "moved", "lost", "unsaved"} /\ lost \subseteq s
          /\ hist.mishaps \subseteq s
      BY <1>2, <1>4, <2>1
    <2>3. PICK j \in Nat : j = IF ok THEN hist.fails ELSE hist.fails + 1
      BY <1>2
    <2>4. hist' = [hist EXCEPT !.fails = j, !.mishaps = s]
      BY <1>1, <1>3, <2>1, <2>3
    <2> QED BY <1>2, <2>2, <2>4
  <1>6. \A c \in Client : Active(c) => Known(mem, c)
    <2>1. "lost" \notin hist'.mishaps
      BY DEF Excused
    <2> QED BY <1>3, <1>5, <2>1 DEF LostLeases
  <1>7. file' \in LeaseFile
    BY <1>1, <1>2, WrittenFileFacts
  <1>8. PICK n : n = mem'
    OBVIOUS
  <1>9. /\ n \in Memory
        /\ n.cache = mem.cache /\ n.expiry = mem.expiry /\ n.dhcpEntry = mem.dhcpEntry
        /\ \A e \in Pointer : /\ n.heap[e].mac = mem.heap[e].mac
                              /\ n.heap[e].ip = mem.heap[e].ip
                              /\ n.heap[e].expiry = mem.heap[e].expiry
    BY <1>1, <1>2, <1>8, RenumberedFacts
  <1>10. mem.cache \in [Client -> Pointer \cup {NULL}] /\ mem.expiry \in [Addr -> Time]
    BY <1>2 DEF Memory
  <1>11. \A b : Having(n, b) = Having(mem, b)
    <2>1. \A c \in Client : mem.cache[c] # NULL => mem.cache[c] \in Pointer
      BY <1>10
    <2> QED BY <1>9, <2>1 DEF Having
  <1>12. MemInv(n, {})
    BY <1>2, <1>9, <1>11, Quietened
  <1>13. MemInv(n, hist.contested)
    BY <1>12 DEF MemInv, OneEntry, SlotPoints
  <1>14. OneHolder'
    BY <1>1, <1>5, OneHolderKept DEF Active
  <1>15. LeasesKept'
    <2> SUFFICES ASSUME NEW d \in Client, Active(d)'
                 PROVE  Kept(mem, d, hist.mishaps)'
      BY DEF LeasesKept
    <2>1. Active(d) /\ held' = held /\ held[d].ip \in Addr /\ held[d].until \in Time
      BY <1>1, <1>2, HeldType DEF Active
    <2>2. PICK e \in Pointer : e = mem.cache[d] /\ e # NULL
      BY <1>6, <1>10, <2>1 DEF Known
    <2>3. mem.heap[e].ip = held[d].ip /\ held[d].until <= mem.heap[e].expiry
          /\ mem.heap[e].expiry \in Time
      <3>1. mem.heap[e] \in EntryData
        BY <1>2 DEF Memory
      <3> QED BY <1>6, <2>1, <2>2, <3>1 DEF Known, EntryData
    <2>4. d \in Having(mem, held[d].ip)
      BY <2>2, <2>3 DEF Having
    <2>5. Having(mem, held[d].ip) \subseteq {d}
      BY <1>2, <2>1, <2>4 DEF MemInv, OneEntry
    <2>6. mem.expiry[held[d].ip] >= held[d].until
      <3>1. mem.heap[e].expiry <= mem.expiry[held[d].ip]
        BY <1>2, <2>1, <2>2, <2>4 DEF SlotCovers
      <3>2. mem.expiry[held[d].ip] \in Time
        BY <1>10, <2>1
      <3> QED BY <2>1, <2>3, <3>1, <3>2, DhcpBasics
    <2>7. n.cache[d] = e /\ n.heap[e].ip = held[d].ip /\ n.heap[e].expiry >= held[d].until
      BY <1>9, <2>1, <2>2, <2>3, DhcpBasics
    <2> QED BY <1>8, <1>9, <1>11, <2>1, <2>2, <2>5, <2>6, <2>7 DEF Kept, Known
  <1>16. DhcpType'
    <2>1. Len(file') \in Nat
      BY <1>7 DEF LeaseFile
    <2> QED BY <1>1, <1>2, <1>5, <1>7, <1>8, <1>9, <2>1, NothingFacts DEF DhcpType, Active
  <1> QED BY <1>1, <1>5, <1>8, <1>13, <1>14, <1>15, <1>16 DEF DhcpSound

\* A server that has just started without leases.
LEMMA DhcpInitFacts == DhcpInit => DhcpSound /\ OneHolder
  <1> SUFFICES ASSUME DhcpInit PROVE DhcpSound /\ OneHolder
    OBVIOUS
  <1>1. /\ dhcpWorld \in DhcpWorld /\ up /\ up \in BOOLEAN /\ loaded = 0 /\ mem = Configured
        /\ file = << >> /\ held = [c \in Client |-> NoLease] /\ owed = Nothing
        /\ hist = [mishaps |-> {}, contested |-> {}, fails |-> 0, stops |-> 0]
    BY DEF DhcpInit
  <1>2. \A c \in Client : ~Active(c)
    BY <1>1, NoLeaseFacts DEF Active
  <1>3. OneHolder /\ LeasesKept
    BY <1>2 DEF OneHolder, LeasesKept
  <1>4. file \in LeaseFile /\ Len(file) = 0
    BY <1>1 DEF LeaseFile
  <1>5. held \in [Client -> [ip : Addr \cup {0}, until : Time]]
    BY <1>1, NoLeaseFacts
  <1>6. /\ hist \in [mishaps : SUBSET {"misread", "moved", "lost", "unsaved"},
                     contested : SUBSET Addr, fails : Nat, stops : Nat]
        /\ hist.contested = {}
    BY <1>1
  <1>7. mem \in Memory /\ MemInv(mem, {})
    BY <1>1, ConfiguredFacts
  <1>8. DhcpType
    BY <1>1, <1>2, <1>4, <1>5, <1>6, <1>7, NothingFacts DEF DhcpType
  <1> QED BY <1>1, <1>3, <1>6, <1>7, <1>8 DEF DhcpSound

\* Every step of the server, its clients, the clock and the process keeps the
\* invariant, or ends in a state that nothing is claimed of.
LEMMA DhcpInductive ==
    ASSUME DhcpInv, DhcpNext
    PROVE  DhcpInv'
  <1>1. ~Excused /\ UNCHANGED dhcpWorld
    BY DEF DhcpNext, Excused
  <1>2. DhcpSound /\ OneHolder
    BY <1>1 DEF DhcpInv
  <1>3. dhcpWorld.visits \in [Client -> SUBSET Net] /\ BootpClient \subseteq Client
    BY <1>2, DhcpAssumption DEF DhcpSound, DhcpType
  <1>4. FileOK \subseteq BOOLEAN
    BY DEF FileOK
  <1>5. CASE Excused'
    <2>1. OneHolder'
      BY <1>5 DEF OneHolder, Undisturbed, Excused
    <2> QED BY <1>5, <2>1 DEF DhcpInv
  <1>6. CASE ~Excused'
    <2> SUFFICES DhcpSound' /\ OneHolder'
      BY DEF DhcpInv
    <2>1. ASSUME NEW c \in Client, NEW n \in dhcpWorld.visits[c], NEW a \in Addr \cup {0},
                 Discover(c, n, a, 0) \/ Discover(c, n, 0, a)
          PROVE  DhcpSound' /\ OneHolder'
      <3>1. n \in Net
        BY <1>3
      <3> QED BY <1>1, <1>2, <1>6, <2>1, <3>1, DiscoverStep
    <2>2. ASSUME NEW c \in Client, NEW n \in dhcpWorld.visits[c], NEW a \in Addr,
                 RequestAck(c, n, a)
          PROVE  DhcpSound' /\ OneHolder'
      <3>1. n \in Net
        BY <1>3
      <3> QED BY <1>1, <1>2, <2>2, <3>1, RequestAckStep, Zenon
    <2>3. ASSUME NEW c \in Client, NEW n \in dhcpWorld.visits[c], NEW a \in Addr, RequestNak(c, n, a)
          PROVE  DhcpSound' /\ OneHolder'
      BY <1>1, <1>2, <2>3, RequestNakStep
    <2>4. ASSUME NEW c \in Client, NEW n \in dhcpWorld.visits[c], Decline(c, n)
          PROVE  DhcpSound' /\ OneHolder'
      <3>1. n \in Net
        BY <1>3
      <3> QED BY <1>1, <1>2, <2>4, <3>1, DeclineStep
    <2>5. ASSUME NEW c \in Client, NEW n \in dhcpWorld.visits[c], NEW ok \in FileOK, Release(c, n, ok)
          PROVE  DhcpSound' /\ OneHolder'
      <3>1. n \in Net /\ ok \in BOOLEAN
        BY <1>3, <1>4
      <3> QED BY <1>1, <1>2, <2>5, <3>1, ReleaseStep, Zenon
    <2>6. ASSUME NEW c \in BootpClient, NEW n \in dhcpWorld.visits[c], Bootp(c, n)
          PROVE  DhcpSound' /\ OneHolder'
      <3>1. n \in Net /\ c \in Client
        BY <1>3
      <3> QED BY <1>1, <1>2, <2>6, <3>1, BootpStep, Zenon
    <2>12. ASSUME NEW ok \in FileOK, Alad(ok) PROVE DhcpSound' /\ OneHolder'
      <3>1. ok \in BOOLEAN
        BY <1>4
      <3> QED BY <1>1, <1>2, <2>12, <3>1, AladStep, Zenon
    <2>7. ASSUME DhcpTick PROVE DhcpSound' /\ OneHolder'
      BY <1>1, <1>2, <2>7, TickStep
    <2>8. ASSUME Crash PROVE DhcpSound' /\ OneHolder'
      BY <1>1, <1>2, <2>8, CrashStep
    <2>9. ASSUME Load PROVE DhcpSound' /\ OneHolder'
      BY <1>1, <1>2, <2>9, LoadStep
    <2>10. ASSUME NEW ok \in FileOK, Start(ok) PROVE DhcpSound' /\ OneHolder'
      BY <1>1, <1>2, <1>6, <2>10, StartStep
    <2>11. ASSUME NEW k \in 0 .. Cardinality(Client), StartCut(k) PROVE DhcpSound' /\ OneHolder'
      <3>1. k \in Nat
        BY DhcpAssumption, FS_CardinalityType
      <3> QED BY <1>1, <1>2, <2>11, <3>1, StartCutStep
    <2> QED
      BY <2>1, <2>2, <2>3, <2>4, <2>5, <2>6, <2>7, <2>8, <2>9, <2>10, <2>11, <2>12 DEF DhcpNext
  <1> QED BY <1>5, <1>6

\* The invariant holds in every state.
LEMMA DhcpAlways == DhcpSpec => []DhcpInv
  <1>1. DhcpInit => DhcpInv
    BY DhcpInitFacts DEF DhcpInv
  <1>2. DhcpInv /\ [DhcpNext]_dhcpVars => DhcpInv'
    <2>1. DhcpInv /\ DhcpNext => DhcpInv'
      BY DhcpInductive
    <2>2. ASSUME DhcpInv, UNCHANGED dhcpVars PROVE DhcpInv'
      <3>1. (OneHolder <=> OneHolder') /\ (Excused <=> Excused') 
        BY <2>2 DEF dhcpVars, OneHolder, Excused, Active, Undisturbed
      <3>2. DhcpSound => DhcpSound'
        BY <2>2 DEF dhcpVars, DhcpSound, DhcpType, LeasesKept, Promised, Kept, Known, Active
      <3> QED BY <2>2, <3>1, <3>2 DEF DhcpInv
    <2> QED BY <2>1, <2>2
  <1> QED BY <1>1, <1>2, PTL DEF DhcpSpec

\* No two clients hold one address at the same time, for any number of clients
\* and addresses, through discovers, requests, BOOTP, declines, releases and
\* stops of the server at any point, but for an address given on request while
\* another entry had it, for slots found under a truncated index and for leases
\* the lease file had lost.
THEOREM AddressHasOneHolder == DhcpSpec => []OneHolder
  <1>1. DhcpInv => OneHolder
    BY DEF DhcpInv
  <1> QED BY <1>1, DhcpAlways, PTL

\* A running server knows every lease it has granted, and the slot of the
\* address is taken until the lease ends: resad takes no entry of a lease that
\* runs over, and no answer to another client shortens it.  A lease that init
\* does not find in the lease file counts as lost.
THEOREM LeaseIsKnown == DhcpSpec => []HeldIsKnown
  <1>1. DhcpInv => HeldIsKnown
    <2>1. ASSUME Excused PROVE HeldIsKnown
      BY <2>1 DEF HeldIsKnown, Undisturbed, Excused
    <2>2. ASSUME DhcpSound PROVE HeldIsKnown
      <3> SUFFICES ASSUME NEW c \in Client, up, Active(c), c # owed.client,
                          Undisturbed(held[c].ip, {"misread", "moved", "lost"})
                   PROVE  Known(mem, c) /\ mem.expiry[held[c].ip] >= held[c].until
        BY DEF HeldIsKnown
      <3>1. held[c].ip \notin hist.contested /\ "moved" \notin hist.mishaps
        BY DEF Undisturbed
      <3>2. Kept(mem, c, hist.mishaps)
        BY <2>2, <3>1 DEF DhcpSound, LeasesKept, Promised
      <3> QED BY <3>1, <3>2 DEF Kept
    <2> QED BY <2>1, <2>2 DEF DhcpInv
  <1> QED BY <1>1, DhcpAlways, PTL
=============================================================================

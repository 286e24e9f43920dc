---------------------------- MODULE SiteCategory ----------------------------
(***************************************************************************)
(* How the proxy finds the category of a site (serverbase::whatsiteref,    *)
(* proxyserver/proxy-serverbase.cpp): a cache of queries shared by all     *)
(* connections (googlecache.cpp), a database (sqcore.cpp) and a search     *)
(* engine.  Each connection thread runs whatsiteref to its end before it   *)
(* does anything else.                                                     *)
(*                                                                         *)
(* Every googlecache and sqcore call is one step (a mutex, a database      *)
(* transaction), but nothing holds from one call to the next: two threads  *)
(* may both miss the cache and both add a query for the same site.  Which  *)
(* sites are answered without a look at the cache (style sheets, some well *)
(* known hosts) and what a domain is made of is left out.                  *)
(***************************************************************************)
EXTENDS Integers, FiniteSetsExt

CONSTANTS
    Client,      \* connection threads
    Site,        \* the domains asked for
    Verdict,     \* the categories the search engine's answers give
    Stored,      \* what may be in the database at the start
    MaxCalls,    \* bound on the number of whatsiteref calls
    MaxFailures, \* bound on the number of failures of the database and the log
    MaxAgings    \* bound on the number of passages of EXPIRED_INTERVAL

\* GOOGLECACHE_NOT_FOUND and SQCORE_NOTFOUND; GOOGLECACHE_IS_PENDIND,
\* SQCORE_ERROR and GOOGLE_ERROR; the categories.
NotFound == -1
Pending == 0
Error == 0
Sex == 1
Suspicious == 2
Ok == 3
Category == {Sex, Suspicious, Ok}
Exception == 4   \* askgoogle_exception leaves whatsiteref

ASSUME CategoryAssumption ==
    /\ Site # {}
    /\ MaxCalls \in Nat /\ MaxFailures \in Nat /\ MaxAgings \in Nat
    /\ Verdict \subseteq Category
    /\ Stored \subseteq [Site -> SUBSET [status : Category, old : BOOLEAN]]

VARIABLES
    queries,   \* googlecache: list of [site, is_complete, status, old, waiters], see below
    db,        \* site -> set of rows [status, old]
    th,        \* client -> [pc, site, status]
    answer,    \* client -> [site, value, how] of its latest call
    calls, failures, agings,
    said,      \* history: site -> categories the search engine's answers gave
    dup,       \* history: sites queried while they already had an entry
    abandoned, \* history: sites whose query an exception left behind
    unstored   \* history: sites whose row was not written, or expired

vars == <<queries, db, th, answer, calls, failures, agings, said, dup,
          abandoned, unstored>>

\* The std::list of queries is a function from increasing numbers: an entry
\* keeps its number, a new one at the end has a larger one.
NoQueries == [i \in {} |-> 0]

NoAnswer == [site |-> CHOOSE s \in Site : TRUE, value |-> Error, how |-> "none"]
Idle == [pc |-> "idle", site |-> CHOOSE s \in Site : TRUE, status |-> Error]

Init ==
    /\ queries = NoQueries
    /\ db \in Stored
    /\ th = [t \in Client |-> Idle]
    /\ answer = [t \in Client |-> NoAnswer]
    /\ calls = 0 /\ failures = 0 /\ agings = 0
    /\ said = [s \in Site |-> {r.status : r \in db[s]}]
    /\ dup = {}
    /\ abandoned = {}
    /\ unstored = {}

----------------------------------------------------------------------------
(* googlecache *)

\* The entries of the site; the calls below find the first one, 0 if none.
Entries(site) == {i \in DOMAIN queries : queries[i].site = site}
First(site) == IF Entries(site) = {} THEN 0 ELSE Min(Entries(site))

\* The entry in front of entry i, 0 if none.
Prev(i) == Max({0} \cup {j \in DOMAIN queries : j < i})

\* The entries that check_site erases when it gets to them on its way to site.
Expired(site) ==
    {i \in DOMAIN queries : queries[i].site # site /\ queries[i].is_complete /\ queries[i].old}

\* check_site walks the list up to the first entry of the site and erases the
\* expired entries it passes.  erase returns the next entry and the loop then
\* steps over it unseen: looks[i] says whether entry i gets a look.
CheckSite(site) ==
    LET looks[i \in Nat] == ~ (Prev(i) \in Expired(site) /\ looks[Prev(i)])
        seen == {i \in Entries(site) : looks[i]}
        erased == {i \in Expired(site) : looks[i] /\ \A j \in seen : i < j}
    IN  [list |-> Restrict(queries, DOMAIN queries \ erased),
         result |-> IF seen = {} THEN NotFound
                    ELSE IF queries[Min(seen)].is_complete THEN queries[Min(seen)].status
                    ELSE Pending]

NewQuery(site) ==
    [site |-> site, is_complete |-> FALSE, status |-> 0, old |-> FALSE, waiters |-> {}]

\* push_back, under the number after the last one.
PushBack(q) ==
    LET n == Max({0} \cup DOMAIN queries) + 1
    IN  [i \in DOMAIN queries \cup {n} |-> IF i = n THEN q ELSE queries[i]]

----------------------------------------------------------------------------
(* whatsiteref *)

Goto(t, pc) == th' = [th EXCEPT ![t].pc = pc]

Return(t, value, how) ==
    /\ answer' = [answer EXCEPT ![t] = [site |-> th[t].site, value |-> value, how |-> how]]
    /\ th' = [th EXCEPT ![t] = Idle]

Counts == <<calls, failures, agings>>
History == <<said, dup, abandoned, unstored>>

\* A call starts with gc.check_site.
Check(t, s) ==
    LET c == CheckSite(s)
    IN  /\ th[t].pc = "idle"
        /\ calls < MaxCalls
        /\ calls' = calls + 1
        /\ queries' = c.list
        /\ \/ /\ c.result = NotFound
              /\ th' = [th EXCEPT ![t] = [Idle EXCEPT !.pc = "select", !.site = s]]
              /\ answer' = [answer EXCEPT ![t] = NoAnswer]
           \/ /\ c.result = Pending
              /\ th' = [th EXCEPT ![t] = [Idle EXCEPT !.pc = "callback", !.site = s]]
              /\ answer' = [answer EXCEPT ![t] = NoAnswer]
           \/ /\ c.result \in Category
              /\ answer' = [answer EXCEPT ![t] =
                               [site |-> s, value |-> c.result, how |-> "cache"]]
              /\ UNCHANGED th
        /\ UNCHANGED <<db, failures, agings, History>>

\* gc.add_callback: nothing is registered when the entry has gone meanwhile.
AddCallback(t) ==
    LET i == First(th[t].site)
    IN  /\ th[t].pc = "callback"
        /\ queries' = IF i = 0 THEN queries
                               ELSE [queries EXCEPT ![i].waiters = @ \cup {t}]
        /\ Goto(t, "lock")
        /\ UNCHANGED <<db, answer, Counts, History>>

\* timed_wait: only from now on can notify_one reach the thread.
StartWait(t) ==
    /\ th[t].pc = "lock"
    /\ Goto(t, "wait")
    /\ UNCHANGED <<queries, db, answer, Counts, History>>

\* Mutant: the infinite wait that the code has commented out.
MutTimeout(t) ==
    /\ FALSE
    /\ UNCHANGED vars

Timeout(t) ==
    /\ th[t].pc = "wait"
    /\ Return(t, Error, "timeout")
    /\ UNCHANGED <<queries, db, Counts, History>>

\* timed_wait is not in a loop: a wake-up without a cause counts as one with.
SpuriousWake(t) ==
    /\ th[t].pc = "wait"
    /\ Goto(t, "woken")
    /\ UNCHANGED <<queries, db, answer, Counts, History>>

\* gc.check_site again; what it says is returned whatever it is.
Recheck(t) ==
    LET c == CheckSite(th[t].site)
    IN  /\ th[t].pc = "woken"
        /\ queries' = c.list
        /\ Return(t, c.result, "cache")
        /\ UNCHANGED <<db, Counts, History>>

\* sq->select_site: the row with the highest status; when that row is too old
\* all rows of the site are deleted.
SelectSite(t) ==
    LET s == th[t].site
        top == CHOOSE r \in db[s] : \A q \in db[s] : q.status <= r.status
    IN  /\ th[t].pc = "select"
        /\ \/ /\ db[s] = {}
              /\ Goto(t, "add")
              /\ UNCHANGED <<db, answer, unstored>>
           \/ /\ db[s] # {}
              /\ ~ top.old
              /\ Return(t, top.status, "database")
              /\ UNCHANGED <<db, unstored>>
           \/ /\ db[s] # {}
              /\ top.old
              /\ db' = [db EXCEPT ![s] = {}]
              /\ unstored' = unstored \cup {s}
              /\ Goto(t, "add")
              /\ UNCHANGED answer
        /\ UNCHANGED <<queries, Counts, said, dup, abandoned>>

\* select_site fails.  The database cannot be opened: SQCORE_ERROR is the answer;
\* the statement (or the deletion of an old row) fails: SQCORE_NOTFOUND, and
\* the search goes on; get_dbfile throws: so does whatsiteref.
SelectFails(t) ==
    /\ th[t].pc = "select"
    /\ failures < MaxFailures
    /\ failures' = failures + 1
    /\ \/ Return(t, Error, "database")
       \/ Goto(t, "add") /\ UNCHANGED answer
       \/ Return(t, Exception, "error")
    /\ UNCHANGED <<queries, db, calls, agings, History>>

\* gc.add_pending_query, without another look for the site.
AddPendingQuery(t) ==
    /\ th[t].pc = "add"
    /\ queries' = PushBack(NewQuery(th[t].site))
    /\ dup' = IF Entries(th[t].site) = {} THEN dup ELSE dup \cup {th[t].site}
    /\ Goto(t, "ask")
    /\ UNCHANGED <<db, answer, Counts, said, abandoned, unstored>>

\* Mutant: the exception leaves whatsiteref without remove_pending_query.
MutAnalyzeSite(t, result) ==
    /\ th[t].pc = "ask"
    /\ said' = IF result \in Category THEN [said EXCEPT ![th[t].site] = @ \cup {result}]
                                      ELSE said
    /\ IF result = Exception
         THEN Return(t, Exception, "search")
         ELSE /\ th' = [th EXCEPT ![t].pc = IF result \in Category THEN "update" ELSE "remove",
                                  ![t].status = result]
              /\ UNCHANGED answer
    /\ UNCHANGED <<queries, db, Counts, dup, abandoned, unstored>>

\* askgoogle::analyze_site: a category, GOOGLE_ERROR or an exception.
AnalyzeSite(t, result) ==
    /\ th[t].pc = "ask"
    /\ said' = IF result \in Category THEN [said EXCEPT ![th[t].site] = @ \cup {result}]
                                      ELSE said
    /\ th' = [th EXCEPT ![t].pc = IF result \in Category THEN "update" ELSE "remove",
                        ![t].status = result]
    /\ UNCHANGED <<queries, db, answer, Counts, dup, abandoned, unstored>>

\* Mutant: an existing row of the site is left as it is.
MutUpdateSite(t) ==
    /\ th[t].pc = "update"
    /\ db' = [db EXCEPT ![th[t].site] =
                 IF @ = {} THEN {[status |-> th[t].status, old |-> FALSE]} ELSE @]
    /\ Goto(t, "complete")
    /\ UNCHANGED <<queries, answer, Counts, History>>

\* sq->update_site adds a row.
UpdateSite(t) ==
    /\ th[t].pc = "update"
    /\ db' = [db EXCEPT ![th[t].site] = @ \cup {[status |-> th[t].status, old |-> FALSE]}]
    /\ Goto(t, "complete")
    /\ UNCHANGED <<queries, answer, Counts, History>>

\* update_site failed; its result is not looked at.
UpdateFails(t) ==
    /\ th[t].pc = "update"
    /\ failures < MaxFailures
    /\ failures' = failures + 1
    /\ unstored' = unstored \cup {th[t].site}
    /\ Goto(t, "complete")
    /\ UNCHANGED <<queries, db, answer, calls, agings, said, dup, abandoned>>

\* An exception that is not an askgoogle_exception, of the log (add_item, called
\* for every result of the search) or of get_dbfile in update_site: whatsiteref
\* does not catch it and its pending query stays.
Uncaught(t) ==
    /\ th[t].pc = "update" \/ (th[t].pc = "remove" /\ th[t].status = Error)
    /\ failures < MaxFailures
    /\ failures' = failures + 1
    /\ abandoned' = abandoned \cup {th[t].site}
    /\ Return(t, Exception, "error")
    /\ UNCHANGED <<queries, db, calls, agings, said, dup, unstored>>

\* Mutant: the first query still pending is completed, of whatever site.
MutSetCompletedQuery(t) ==
    LET open == {i \in DOMAIN queries : ~ queries[i].is_complete}
        i == IF open = {} THEN 0 ELSE Min(open)
    IN  /\ th[t].pc = "complete"
        /\ queries' = IF i = 0 THEN queries
                      ELSE [queries EXCEPT ![i].is_complete = TRUE, ![i].old = FALSE,
                                           ![i].status = th[t].status]
        /\ Return(t, th[t].status, "search")
        /\ UNCHANGED <<db, Counts, History>>

\* gc.set_completed_query: completes the first entry of the site and notifies;
\* a thread that has registered but does not wait yet is not reached.
SetCompletedQuery(t) ==
    LET i == First(th[t].site)
        reached == IF i = 0 THEN {} ELSE {w \in queries[i].waiters : th[w].pc = "wait"}
    IN  /\ th[t].pc = "complete"
        /\ queries' = IF i = 0 THEN queries
                      ELSE [queries EXCEPT ![i].is_complete = TRUE, ![i].old = FALSE,
                                           ![i].status = th[t].status]
        /\ answer' = [answer EXCEPT ![t] =
                         [site |-> th[t].site, value |-> th[t].status, how |-> "search"]]
        /\ th' = [w \in Client |-> IF w = t THEN Idle
                                   ELSE IF w \in reached THEN [th[w] EXCEPT !.pc = "woken"]
                                   ELSE th[w]]
        /\ UNCHANGED <<db, Counts, History>>

\* gc.remove_pending_query removes the first entry of the site and wakes nobody.
\* GOOGLE_ERROR is answered as GOOGLE_SEX, the exception is passed on.
RemovePendingQuery(t) ==
    LET i == First(th[t].site)
    IN  /\ th[t].pc = "remove"
        /\ queries' = Restrict(queries, DOMAIN queries \ {i})
        /\ Return(t, IF th[t].status = Exception THEN Exception ELSE Sex, "error")
        /\ UNCHANGED <<db, Counts, History>>

\* More than EXPIRED_INTERVAL passes.  No woken thread sleeps that long.
Age ==
    /\ agings < MaxAgings
    /\ \A t \in Client : th[t].pc # "woken"
    /\ agings' = agings + 1
    /\ queries' = [i \in DOMAIN queries |-> [queries[i] EXCEPT !.old = queries[i].is_complete]]
    /\ UNCHANGED <<db, th, answer, calls, failures, History>>

WhatSiteRef(t) ==
    \/ AddCallback(t) \/ StartWait(t) \/ Timeout(t) \/ Recheck(t)
    \/ SelectSite(t) \/ SelectFails(t)
    \/ AddPendingQuery(t)
    \/ \E result \in Verdict \cup {Error, Exception} : AnalyzeSite(t, result)
    \/ UpdateSite(t) \/ UpdateFails(t) \/ Uncaught(t)
    \/ SetCompletedQuery(t)
    \/ RemovePendingQuery(t)

Next ==
    \/ \E t \in Client : (\E s \in Site : Check(t, s)) \/ WhatSiteRef(t) \/ SpuriousWake(t)
    \/ Age

Spec == Init /\ [][Next]_vars

\* Threads run, the one second of timed_wait passes, and the search engine's
\* connection ends or fails (analyze_site itself has no time limit).
FairSpec == Spec /\ \A t \in Client : WF_vars(WhatSiteRef(t))
----------------------------------------------------------------------------
QueryType == [site : Site, is_complete : BOOLEAN, status : Category \cup {0},
              old : BOOLEAN, waiters : SUBSET Client]

TypeOK ==
    /\ queries \in [DOMAIN queries -> QueryType] /\ DOMAIN queries \subseteq Nat \ {0}
    /\ db \in [Site -> SUBSET [status : Category, old : BOOLEAN]]
    /\ th \in [Client -> [pc : {"idle", "callback", "lock", "wait", "woken",
                                "select", "add", "ask", "update", "complete", "remove"},
                          site : Site, status : Category \cup {Error, Exception}]]
    /\ said \in [Site -> SUBSET Category]
    /\ dup \subseteq Site /\ abandoned \subseteq Site /\ unstored \subseteq Site

\* No connection is told a category that the search engine did not give for
\* that very site, whichever thread asked and whatever expired or was removed
\* from the cache meanwhile; only GOOGLE_ERROR turns into GOOGLE_SEX.
CategoryJustified ==
    \A t \in Client :
        LET a == answer[t]
        IN  a.value \in Category =>
                a.value \in said[a.site] \/ (a.value = Sex /\ a.how = "error")

\* Threads that have a query of their own under way for a site.
Owners(s) == {t \in Client : th[t].site = s /\ th[t].pc \in {"ask", "update", "complete", "remove"}}

\* A pending query is answered by the thread that added it.  One that nobody
\* will ever complete or remove (so that every later request for the site
\* waits out its second) takes a site that was queried twice at the same time,
\* or an exception that whatsiteref does not catch (it catches
\* askgoogle_exception only).
OrphanHasCause ==
    \A i \in DOMAIN queries :
        LET s == queries[i].site
        IN  ~ queries[i].is_complete /\ s \notin dup \cup abandoned => Owners(s) # {}

\* A category is in the database before the cache offers it to other
\* connections, so a restart forgets nothing that was told from the cache;
\* exceptions are a failed write and an expired row.
CacheBehindDatabase ==
    \A i \in DOMAIN queries :
        LET q == queries[i]
        IN  q.is_complete /\ q.site \notin unstored =>
                \E r \in db[q.site] : r.status = q.status

\* Every call returns: a wake-up that is lost between add_callback and
\* timed_wait, or that never comes because the query was removed, only costs
\* the waiting thread its second.
EveryCallReturns ==
    \A t \in Client : th[t].pc # "idle" ~> th[t].pc = "idle"
=============================================================================

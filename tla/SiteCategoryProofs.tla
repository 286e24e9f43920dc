------------------------- MODULE SiteCategoryProofs -------------------------
(***************************************************************************)
(* Proofs about the category lookup of the proxy, for any number of        *)
(* connection threads, sites and calls, and however often the database     *)
(* fails or the cache expires.                                             *)
(***************************************************************************)
EXTENDS SiteCategory, WellFoundedInduction, TLAPS

\* A set of numbers that is not empty has a least one, so Min is one of them.
LEMMA MinIsMember ==
    ASSUME NEW S \in SUBSET Nat, S # {}
    PROVE  Min(S) \in S /\ \A y \in S : Min(S) <= y
  <1>1. PICK x \in S : \A y \in S : ~ (<<y, x>> \in OpToRel(<, Nat))
    BY NatLessThanWellFounded, WFMin, Zenon
  <1>2. \A y \in S : ~ (y < x)
    BY <1>1 DEF OpToRel
  <1>3. \A y \in S : x <= y
    BY <1>2
  <1> QED BY <1>3 DEF Min

\* A bounded set of numbers that is not empty has a largest one.
LEMMA MaxIsMember ==
    ASSUME NEW S \in SUBSET Nat, S # {}, NEW n \in Nat, \A y \in S : y <= n
    PROVE  Max(S) \in S /\ \A y \in S : y <= Max(S)
  <1> DEFINE T == {n - y : y \in S}
  <1>1. T \in SUBSET Nat /\ T # {}
    OBVIOUS
  <1>2. Min(T) \in T /\ \A z \in T : Min(T) <= z
    BY <1>1, MinIsMember
  <1> HIDE DEF T
  <1>3. PICK x \in S : Min(T) = n - x
    BY <1>2 DEF T
  <1>4. \A y \in S : n - y \in T
    BY DEF T
  <1>5. \A y \in S : x >= y
    BY <1>2, <1>3, <1>4
  <1> QED BY <1>5 DEF Max

----------------------------------------------------------------------------
(***************************************************************************)
(* Types, and what the calls of googlecache do to the list.                *)
(***************************************************************************)
Hows == {"none", "cache", "timeout", "database", "search", "error"}
AnswerType == [site : Site, value : Int, how : Hows]

\* The list is finite: its numbers have an upper bound.
Bounded == \E n \in Nat : \A i \in DOMAIN queries : i <= n

Row == [status : Category, old : BOOLEAN]
Status == Category \cup {Error, Exception}
Pcs == {"idle", "callback", "lock", "wait", "woken",
        "select", "add", "ask", "update", "complete", "remove"}

\* A thread that stores or completes has a category to store.
ThreadType ==
    {r \in [pc : Pcs, site : Site, status : Status] :
        r.pc \in {"update", "complete"} => r.status \in Category}

\* TypeOK with what makes it inductive.
TypeInv ==
    /\ queries \in [DOMAIN queries -> QueryType] /\ DOMAIN queries \subseteq Nat \ {0}
    /\ Bounded
    /\ db \in [Site -> SUBSET Row]
    /\ th \in [Client -> ThreadType] /\ answer \in [Client -> AnswerType]
    /\ said \in [Site -> SUBSET Category]
    /\ dup \subseteq Site /\ abandoned \subseteq Site /\ unstored \subseteq Site

\* TypeInv is at least TypeOK.
LEMMA TypeInvTypeOK ==
    ASSUME TypeInv
    PROVE  TypeOK
  BY DEF TypeInv, TypeOK, ThreadType, Pcs, Status, Row

\* The calls that look for the first entry of a site find an entry of that site.
LEMMA FirstIsEntry ==
    ASSUME TypeOK, NEW s \in Site
    PROVE  \/ First(s) = 0 /\ Entries(s) = {}
           \/ First(s) \in Entries(s)
  <1>1. Entries(s) \in SUBSET Nat
    BY DEF TypeOK, Entries
  <1> QED BY <1>1, MinIsMember DEF First

\* check_site changes no entry that it keeps, erases completed entries of other
\* sites only, and reports a category only from a completed entry of the site.
LEMMA CheckSiteFacts ==
    ASSUME TypeOK, NEW s \in Site
    PROVE  /\ DOMAIN CheckSite(s).list \subseteq DOMAIN queries
           /\ CheckSite(s).list = [i \in DOMAIN CheckSite(s).list |-> queries[i]]
           /\ \A i \in DOMAIN queries \ DOMAIN CheckSite(s).list :
                 queries[i].site # s /\ queries[i].is_complete
           /\ \/ CheckSite(s).result \in {NotFound, Pending}
              \/ \E i \in Entries(s) :
                    queries[i].is_complete /\ CheckSite(s).result = queries[i].status
  <1> DEFINE c == CheckSite(s)
  <1>1. PICK looks : c =
            LET seen == {i \in Entries(s) : looks[i]}
                erased == {i \in Expired(s) : looks[i] /\ \A j \in seen : i < j}
            IN  [list |-> Restrict(queries, DOMAIN queries \ erased),
                 result |-> IF seen = {} THEN NotFound
                            ELSE IF queries[Min(seen)].is_complete THEN queries[Min(seen)].status
                            ELSE Pending]
    BY DEF CheckSite
  <1> DEFINE seen == {i \in Entries(s) : looks[i]}
             erased == {i \in Expired(s) : looks[i] /\ \A j \in seen : i < j}
  <1>2. /\ c.list = Restrict(queries, DOMAIN queries \ erased)
        /\ c.result = IF seen = {} THEN NotFound
                      ELSE IF queries[Min(seen)].is_complete THEN queries[Min(seen)].status
                      ELSE Pending
    BY <1>1
  <1>3. erased \subseteq Expired(s) /\ seen \subseteq Entries(s)
    OBVIOUS
  <1> HIDE DEF seen, erased
  <1>4. seen # {} => Min(seen) \in Entries(s)
    <2>1. seen \in SUBSET Nat
      BY <1>3 DEF TypeOK, Entries
    <2> QED BY <1>3, <2>1, MinIsMember
  <1>5. DOMAIN c.list = DOMAIN queries \ erased
    BY <1>2 DEF Restrict
  <1>6. c.list = [i \in DOMAIN c.list |-> queries[i]]
    BY <1>2, <1>5 DEF Restrict
  <1>7. \A i \in DOMAIN queries \ DOMAIN c.list :
           queries[i].site # s /\ queries[i].is_complete
    BY <1>3, <1>5 DEF Expired
  <1>8. \/ c.result \in {NotFound, Pending}
        \/ \E i \in Entries(s) :
              queries[i].is_complete /\ c.result = queries[i].status
    BY <1>2, <1>4
  <1> QED BY <1>5, <1>6, <1>7, <1>8

\* The list that check_site leaves and its result have the right types.
LEMMA CheckSiteTypes ==
    ASSUME TypeOK, NEW s \in Site
    PROVE  /\ DOMAIN CheckSite(s).list \subseteq DOMAIN queries
           /\ CheckSite(s).list \in [DOMAIN CheckSite(s).list -> QueryType]
           /\ CheckSite(s).result \in Int
  <1> DEFINE l == CheckSite(s).list
             v == CheckSite(s).result
  <1>1. /\ DOMAIN l \subseteq DOMAIN queries
        /\ l = [i \in DOMAIN l |-> queries[i]]
        /\ v \in {NotFound, Pending} \/ \E i \in Entries(s) : v = queries[i].status
    BY CheckSiteFacts
  <1>2. \A i \in DOMAIN queries : queries[i] \in QueryType
    BY DEF TypeOK
  <1> HIDE DEF l, v
  <1>3. l \in [DOMAIN l -> QueryType]
    BY <1>1, <1>2
  <1>4. \A i \in Entries(s) : queries[i].status \in Int
    BY <1>2 DEF Entries, QueryType, Category, Sex, Suspicious, Ok
  <1>5. v \in Int
    BY <1>1, <1>4 DEF NotFound, Pending
  <1> QED BY <1>1, <1>3, <1>5 DEF l, v

\* push_back keeps the entries that are there and adds one behind them.
LEMMA PushBackFacts ==
    ASSUME TypeOK, Bounded, NEW q
    PROVE  \E n \in Nat \ {0} :
              /\ n \notin DOMAIN queries
              /\ \A i \in DOMAIN queries : i < n
              /\ PushBack(q) = [i \in DOMAIN queries \cup {n} |-> IF i = n THEN q ELSE queries[i]]
  <1> DEFINE S == {0} \cup DOMAIN queries
             n == Max(S) + 1
  <1>1. S \in SUBSET Nat /\ S # {}
    BY DEF TypeOK
  <1>2. \E b \in Nat : \A y \in S : y <= b
    BY DEF Bounded
  <1>3. Max(S) \in S /\ \A y \in S : y <= Max(S)
    BY <1>1, <1>2, MaxIsMember
  <1>4. n \in Nat \ {0} /\ \A i \in DOMAIN queries : i < n
    BY <1>1, <1>3
  <1>5. n \notin DOMAIN queries
    BY <1>1, <1>4
  <1>6. PushBack(q) = [i \in DOMAIN queries \cup {n} |-> IF i = n THEN q ELSE queries[i]]
    BY DEF PushBack
  <1> QED BY <1>4, <1>5, <1>6

\* The row that select_site takes is one of the rows.
LEMMA TopIsRow ==
    ASSUME NEW R \in SUBSET Row, R # {}
    PROVE  (CHOOSE r \in R : \A q \in R : q.status <= r.status) \in R
  <1> USE DEF Row, Category, Sex, Suspicious, Ok
  <1>1. \E r \in R : \A q \in R : q.status <= r.status
    <2>1. \A q \in R : q.status \in {1, 2, 3}
      OBVIOUS
    <2>2. CASE \E r \in R : r.status = 3
      BY <2>1, <2>2
    <2>3. CASE (\A r \in R : r.status # 3) /\ (\E r \in R : r.status = 2)
      BY <2>1, <2>3
    <2>4. CASE \A r \in R : r.status # 3 /\ r.status # 2
      BY <2>1, <2>4
    <2> QED BY <2>2, <2>3, <2>4
  <1> QED BY <1>1

\* Idle and NoAnswer have a site, whichever it is.
LEMMA IdleTypes ==
    Idle \in ThreadType /\ NoAnswer \in AnswerType /\ Idle.pc = "idle"
  <1>1. (CHOOSE s \in Site : TRUE) \in Site
    BY CategoryAssumption
  <1> QED BY <1>1 DEF Idle, NoAnswer, ThreadType, AnswerType, Pcs, Status, Error, Hows

\* What a thread becomes that has missed in the cache.
LEMMA CheckThread ==
    ASSUME NEW s \in Site, NEW pc \in {"select", "callback"}
    PROVE  [Idle EXCEPT !.pc = pc, !.site = s].pc = pc
  BY DEF Idle

\* The state at the start of the proxy has the right types.
LEMMA InitTypeInv == Init => TypeInv
  <1> SUFFICES ASSUME Init PROVE TypeInv
    OBVIOUS
  <1>1. queries \in [DOMAIN queries -> QueryType] /\ DOMAIN queries = {}
    BY DEF Init, NoQueries
  <1>2. db \in [Site -> SUBSET Row]
    BY CategoryAssumption DEF Init, Row
  <1>3. th \in [Client -> ThreadType] /\ answer \in [Client -> AnswerType]
    BY IdleTypes DEF Init
  <1>4. said \in [Site -> SUBSET Category]
    BY <1>2 DEF Init, Row
  <1> QED BY <1>1, <1>2, <1>3, <1>4 DEF Init, TypeInv, Bounded

\* A call of whatsiteref that returns leaves an idle thread and an answer.
LEMMA ReturnTypes ==
    ASSUME TypeInv, NEW t \in Client, NEW value \in Int, NEW how \in Hows,
           Return(t, value, how)
    PROVE  th' \in [Client -> ThreadType] /\ answer' \in [Client -> AnswerType]
  <1>1. [site |-> th[t].site, value |-> value, how |-> how] \in AnswerType
    BY DEF TypeInv, ThreadType, AnswerType
  <1> QED BY <1>1, IdleTypes DEF Return, TypeInv

\* A step to another place in whatsiteref keeps the thread's site and status.
LEMMA GotoTypes ==
    ASSUME TypeInv, NEW t \in Client, NEW pc \in Pcs, Goto(t, pc),
           pc \in {"update", "complete"} => th[t].status \in Category
    PROVE  th' \in [Client -> ThreadType]
  <1>1. [th[t] EXCEPT !.pc = pc] \in ThreadType
    BY DEF TypeInv, ThreadType
  <1> QED BY <1>1 DEF Goto, TypeInv

\* Every step of a connection thread keeps the types.
LEMMA NextTypeInv ==
    ASSUME TypeInv, [Next]_vars
    PROVE  TypeInv'
  <1>t. TypeOK
    BY TypeInvTypeOK
  <1>s. \A t \in Client : th[t].site \in Site
    BY DEF TypeInv, ThreadType
  <1>q. ASSUME queries' \in [DOMAIN queries' -> QueryType], DOMAIN queries' \subseteq DOMAIN queries,
               th' \in [Client -> ThreadType], answer' \in [Client -> AnswerType],
               UNCHANGED <<db, said, dup, abandoned, unstored>>
        PROVE  TypeInv'
    BY <1>q DEF TypeInv, Bounded
  <1>u. ASSUME UNCHANGED queries
        PROVE  queries' \in [DOMAIN queries' -> QueryType] /\ DOMAIN queries' = DOMAIN queries
    BY <1>u DEF TypeInv
  <1>h. "cache" \in Hows /\ "timeout" \in Hows /\ "database" \in Hows
        /\ "search" \in Hows /\ "error" \in Hows
    BY DEF Hows
  <1>p. "callback" \in Pcs /\ "lock" \in Pcs /\ "wait" \in Pcs /\ "woken" \in Pcs
        /\ "select" \in Pcs /\ "add" \in Pcs /\ "ask" \in Pcs /\ "complete" \in Pcs
    BY DEF Pcs
  <1>1. ASSUME NEW t \in Client, NEW s \in Site, Check(t, s) PROVE TypeInv'
    <2> DEFINE c == CheckSite(s)
    <2>1. /\ DOMAIN c.list \subseteq DOMAIN queries
          /\ c.list \in [DOMAIN c.list -> QueryType]
          /\ c.result \in Int
      BY <1>t, CheckSiteTypes
    <2>2. /\ [Idle EXCEPT !.pc = "select", !.site = s] \in ThreadType
          /\ [Idle EXCEPT !.pc = "callback", !.site = s] \in ThreadType
          /\ [site |-> s, value |-> c.result, how |-> "cache"] \in AnswerType
      BY <2>1, IdleTypes, <1>p, <1>h DEF ThreadType, AnswerType
    <2>3. queries' = c.list /\ UNCHANGED <<db, said, dup, abandoned, unstored>>
      BY <1>1 DEF Check, History
    <2>4. th' \in [Client -> ThreadType] /\ answer' \in [Client -> AnswerType]
      BY <1>1, <2>2, IdleTypes DEF Check, TypeInv
    <2> QED BY <1>q, <2>1, <2>3, <2>4
  <1>2. ASSUME NEW t \in Client, AddCallback(t) PROVE TypeInv'
    <2> DEFINE i == First(th[t].site)
    <2>1. \A j \in DOMAIN queries : [queries[j] EXCEPT !.waiters = @ \cup {t}] \in QueryType
      BY DEF TypeInv, QueryType
    <2>2. queries' \in [DOMAIN queries' -> QueryType] /\ DOMAIN queries' = DOMAIN queries
      BY <1>2, <2>1 DEF AddCallback, TypeInv
    <2>3. th' \in [Client -> ThreadType] /\ UNCHANGED <<answer, db, said, dup, abandoned, unstored>>
      BY <1>2, <1>p, GotoTypes DEF AddCallback, History
    <2> QED BY <1>q, <2>2, <2>3 DEF TypeInv
  <1>3. ASSUME NEW t \in Client, StartWait(t) \/ SpuriousWake(t) PROVE TypeInv'
    <2>1. /\ th' \in [Client -> ThreadType]
          /\ UNCHANGED <<queries, answer, db, said, dup, abandoned, unstored>>
      BY <1>3, <1>p, GotoTypes DEF StartWait, SpuriousWake, History
    <2> QED BY <1>q, <1>u, <2>1 DEF TypeInv
  <1>4. ASSUME NEW t \in Client, Timeout(t) \/ SelectFails(t) PROVE TypeInv'
    <2>0. Error \in Int /\ Exception \in Int
      BY DEF Error, Exception
    <2>1. th' \in [Client -> ThreadType] /\ answer' \in [Client -> AnswerType]
      <3>1. CASE Return(t, Error, "timeout")
        BY <3>1, <1>h, <2>0, ReturnTypes
      <3>2. CASE Return(t, Error, "database")
        BY <3>2, <1>h, <2>0, ReturnTypes
      <3>3. CASE Return(t, Exception, "error")
        BY <3>3, <1>h, <2>0, ReturnTypes
      <3>4. CASE Goto(t, "add") /\ UNCHANGED answer
        BY <3>4, <1>p, GotoTypes DEF TypeInv
      <3> QED BY <1>4, <3>1, <3>2, <3>3, <3>4 DEF Timeout, SelectFails
    <2>2. UNCHANGED <<queries, db, said, dup, abandoned, unstored>>
      BY <1>4 DEF Timeout, SelectFails, History
    <2> QED BY <1>q, <1>u, <2>1, <2>2 DEF TypeInv
  <1>5. ASSUME NEW t \in Client, Recheck(t) PROVE TypeInv'
    <2> DEFINE c == CheckSite(th[t].site)
    <2>1. /\ DOMAIN c.list \subseteq DOMAIN queries
          /\ c.list \in [DOMAIN c.list -> QueryType]
          /\ c.result \in Int
      BY <1>s, <1>t, CheckSiteTypes
    <2>2. /\ queries' = c.list /\ UNCHANGED <<db, said, dup, abandoned, unstored>>
          /\ Return(t, c.result, "cache")
      BY <1>5 DEF Recheck, History
    <2>3. th' \in [Client -> ThreadType] /\ answer' \in [Client -> AnswerType]
      BY <1>h, <2>1, <2>2, ReturnTypes
    <2> QED BY <1>q, <2>1, <2>2, <2>3
  <1>6. ASSUME NEW t \in Client, SelectSite(t) PROVE TypeInv'
    <2> DEFINE s == th[t].site
               top == CHOOSE r \in db[s] : \A q \in db[s] : q.status <= r.status
    <2>1. s \in Site
      BY <1>s
    <2>2. db[s] # {} => top.status \in Int
      BY <2>1, TopIsRow DEF TypeInv, Row, Category, Sex, Suspicious, Ok
    <2>3. /\ (Goto(t, "add") /\ UNCHANGED answer) \/ (\E v \in Int : Return(t, v, "database"))
          /\ UNCHANGED <<queries, said, dup, abandoned>>
          /\ UNCHANGED db \/ db' = [db EXCEPT ![s] = {}]
          /\ unstored' \subseteq unstored \cup {s}
      BY <1>6, <2>2 DEF SelectSite
    <2>4. th' \in [Client -> ThreadType] /\ answer' \in [Client -> AnswerType]
      <3>1. CASE Goto(t, "add") /\ UNCHANGED answer
        BY <3>1, <1>p, GotoTypes DEF TypeInv
      <3>2. CASE \E v \in Int : Return(t, v, "database")
        BY <3>2, <1>h, ReturnTypes
      <3> QED BY <2>3, <3>1, <3>2
    <2>5. db' \in [Site -> SUBSET Row]
      BY <2>1, <2>3 DEF TypeInv
    <2> HIDE DEF s
    <2> QED BY <2>1, <2>3, <2>4, <2>5 DEF TypeInv, Bounded
  <1>7. ASSUME NEW t \in Client, AddPendingQuery(t) PROVE TypeInv'
    <2>1. NewQuery(th[t].site) \in QueryType
      BY <1>s DEF NewQuery, QueryType
    <2>2. PICK n \in Nat \ {0} :
             /\ n \notin DOMAIN queries
             /\ \A i \in DOMAIN queries : i < n
             /\ queries' = [i \in DOMAIN queries \cup {n} |->
                              IF i = n THEN NewQuery(th[t].site) ELSE queries[i]]
      BY <1>7, <1>t, PushBackFacts DEF AddPendingQuery, TypeInv
    <2>3. /\ queries' \in [DOMAIN queries' -> QueryType] /\ DOMAIN queries' \subseteq Nat \ {0}
          /\ \A i \in DOMAIN queries' : i <= n
      BY <2>1, <2>2 DEF TypeInv
    <2>4. th' \in [Client -> ThreadType]
      BY <1>7, <1>p, GotoTypes DEF AddPendingQuery
    <2>5. UNCHANGED <<answer, db, said, abandoned, unstored>> /\ dup' \subseteq Site
      BY <1>7, <1>s DEF AddPendingQuery, TypeInv
    <2> QED BY <2>3, <2>4, <2>5 DEF TypeInv, Bounded
  <1>8. ASSUME NEW t \in Client, NEW result \in Verdict \cup {Error, Exception},
               AnalyzeSite(t, result)
        PROVE  TypeInv'
    <2> DEFINE pc == IF result \in Category THEN "update" ELSE "remove"
    <2>1. result \in Status
      BY CategoryAssumption DEF Status
    <2>2. [th[t] EXCEPT !.pc = pc, !.status = result] \in ThreadType
      BY <2>1 DEF TypeInv, ThreadType, Pcs
    <2>3. th' = [th EXCEPT ![t] = [th[t] EXCEPT !.pc = pc, !.status = result]]
      BY <1>8 DEF AnalyzeSite, TypeInv
    <2>4. th' \in [Client -> ThreadType]
      BY <2>2, <2>3 DEF TypeInv
    <2>5. said' \in [Site -> SUBSET Category]
      BY <1>8, <1>s DEF AnalyzeSite, TypeInv
    <2> QED BY <1>8, <2>4, <2>5 DEF AnalyzeSite, TypeInv, Bounded
  <1>9. ASSUME NEW t \in Client, UpdateSite(t) PROVE TypeInv'
    <2>1. th[t].status \in Category
      BY <1>9 DEF UpdateSite, TypeInv, ThreadType
    <2>2. [status |-> th[t].status, old |-> FALSE] \in Row
      BY <2>1 DEF Row
    <2>3. db' \in [Site -> SUBSET Row]
      BY <1>9, <1>s, <2>2 DEF UpdateSite, TypeInv
    <2>4. th' \in [Client -> ThreadType] /\ UNCHANGED <<queries, answer, said, dup, abandoned, unstored>>
      BY <1>9, <1>p, <2>1, GotoTypes DEF UpdateSite, History
    <2> QED BY <2>3, <2>4 DEF TypeInv, Bounded
  <1>10. ASSUME NEW t \in Client, UpdateFails(t) PROVE TypeInv'
    <2>1. th[t].status \in Category
      BY <1>10 DEF UpdateFails, TypeInv, ThreadType
    <2>2. /\ th' \in [Client -> ThreadType] /\ UNCHANGED <<queries, answer, db, said, dup, abandoned>>
          /\ unstored' \subseteq Site
      BY <1>10, <1>p, <1>s, <2>1, GotoTypes DEF UpdateFails, TypeInv
    <2> QED BY <2>2 DEF TypeInv, Bounded
  <1>11. ASSUME NEW t \in Client, SetCompletedQuery(t) PROVE TypeInv'
    <2> DEFINE i == First(th[t].site)
               done(q) == [q EXCEPT !.is_complete = TRUE, !.old = FALSE, !.status = th[t].status]
    <2>1. th[t].status \in Category
      BY <1>11 DEF SetCompletedQuery, TypeInv, ThreadType
    <2>2. \A j \in DOMAIN queries : done(queries[j]) \in QueryType
      BY <2>1 DEF TypeInv, QueryType
    <2>3. queries' = queries \/ queries' = [queries EXCEPT ![i] = done(queries[i])]
      BY <1>11 DEF SetCompletedQuery, TypeInv
    <2>4. queries' \in [DOMAIN queries' -> QueryType] /\ DOMAIN queries' = DOMAIN queries
      <3> HIDE DEF i, done
      <3> QED BY <2>2, <2>3 DEF TypeInv
    <2>5. \A w \in Client : [th[w] EXCEPT !.pc = "woken"] \in ThreadType
      BY <1>p DEF TypeInv, ThreadType
    <2>6. th' \in [Client -> ThreadType]
      BY <1>11, <2>5, IdleTypes DEF SetCompletedQuery, TypeInv
    <2>7. [site |-> th[t].site, value |-> th[t].status, how |-> "search"] \in AnswerType
      BY <1>h, <1>s, <2>1 DEF AnswerType, Category, Sex, Suspicious, Ok
    <2>8. answer' \in [Client -> AnswerType]
      BY <1>11, <2>7 DEF SetCompletedQuery, TypeInv
    <2>9. UNCHANGED <<db, said, dup, abandoned, unstored>>
      BY <1>11 DEF SetCompletedQuery, History
    <2> QED BY <1>q, <2>4, <2>6, <2>8, <2>9
  <1>12. ASSUME NEW t \in Client, RemovePendingQuery(t) PROVE TypeInv'
    <2>1. queries' \in [DOMAIN queries' -> QueryType] /\ DOMAIN queries' \subseteq DOMAIN queries
      BY <1>12 DEF RemovePendingQuery, Restrict, TypeInv
    <2>2. th' \in [Client -> ThreadType] /\ answer' \in [Client -> AnswerType]
      BY <1>12, <1>h, ReturnTypes DEF RemovePendingQuery, Exception, Sex
    <2>3. UNCHANGED <<db, said, dup, abandoned, unstored>>
      BY <1>12 DEF RemovePendingQuery, History
    <2> QED BY <1>q, <2>1, <2>2, <2>3
  <1>13. CASE Age
    <2>1. \A j \in DOMAIN queries :
             [queries[j] EXCEPT !.old = queries[j].is_complete] \in QueryType
      BY DEF TypeInv, QueryType
    <2>2. queries' \in [DOMAIN queries' -> QueryType] /\ DOMAIN queries' = DOMAIN queries
      BY <1>13, <2>1 DEF Age
    <2>3. UNCHANGED <<th, answer, db, said, dup, abandoned, unstored>>
      BY <1>13 DEF Age, History
    <2> QED BY <1>q, <2>2, <2>3 DEF TypeInv
  <1>15. ASSUME NEW t \in Client, Uncaught(t) PROVE TypeInv'
    <2>1. Return(t, Exception, "error") /\ Exception \in Int
      BY <1>15 DEF Uncaught, Exception
    <2>2. th' \in [Client -> ThreadType] /\ answer' \in [Client -> AnswerType]
      BY <1>h, <2>1, ReturnTypes
    <2>3. UNCHANGED <<queries, db, said, dup, unstored>> /\ abandoned' \subseteq Site
      BY <1>15, <1>s DEF Uncaught, TypeInv
    <2> QED BY <1>u, <2>2, <2>3 DEF TypeInv, Bounded
  <1>14. CASE UNCHANGED vars
    BY <1>14 DEF vars, TypeInv, Bounded
  <1> QED
    BY <1>1, <1>2, <1>3, <1>4, <1>5, <1>6, <1>7, <1>8, <1>9, <1>10, <1>11, <1>12,
       <1>13, <1>14, <1>15 DEF Next, WhatSiteRef

\* The cache, the database and the threads of whatsiteref stay well formed; in
\* particular only categories are stored and completed.
THEOREM CategoryTypeCorrect == Spec => []TypeOK
  <1>1. TypeInv /\ [Next]_vars => TypeInv'
    BY NextTypeInv
  <1>2. TypeInv => TypeOK
    BY TypeInvTypeOK
  <1> QED BY InitTypeInv, <1>1, <1>2, PTL DEF Spec

----------------------------------------------------------------------------
(***************************************************************************)
(* Where an answer comes from.                                             *)
(***************************************************************************)

\* A category in the list, in the database or on its way there was given for
\* that site.
QueriesJustified ==
    \A i \in DOMAIN queries : queries[i].is_complete => queries[i].status \in said[queries[i].site]
RowsJustified ==
    \A s \in Site : \A r \in db[s] : r.status \in said[s]
ThreadsJustified ==
    \A t \in Client : th[t].pc \in {"update", "complete"} => th[t].status \in said[th[t].site]

\* CategoryJustified with what makes it inductive.
JustifiedInv == QueriesJustified /\ RowsJustified /\ ThreadsJustified /\ CategoryJustified

\* A thread of whatsiteref that goes on without a new status, or returns, has
\* nothing new to justify.
LEMMA GotoJustified ==
    ASSUME TypeInv, ThreadsJustified, NEW t \in Client, NEW pc, Goto(t, pc),
           pc \in {"update", "complete"} => th[t].pc \in {"update", "complete"}, UNCHANGED said
    PROVE  ThreadsJustified'
  BY DEF Goto, ThreadsJustified, TypeInv, ThreadType

\* The same for a thread that returns; its answer needs a reason.
LEMMA ReturnJustified ==
    ASSUME TypeInv, ThreadsJustified, CategoryJustified, NEW t \in Client, NEW value, NEW how,
           Return(t, value, how), UNCHANGED said,
           value \in Category => value \in said[th[t].site] \/ (value = Sex /\ how = "error")
    PROVE  ThreadsJustified' /\ CategoryJustified'
  <1>1. \A w \in Client : th'[w] = IF w = t THEN Idle ELSE th[w]
    BY DEF Return, TypeInv
  <1>2. ThreadsJustified'
    BY <1>1, IdleTypes DEF ThreadsJustified
  <1>3. \A w \in Client : answer'[w] = IF w = t THEN [site |-> th[t].site, value |-> value, how |-> how]
                                                ELSE answer[w]
    BY DEF Return, TypeInv
  <1>4. CategoryJustified'
    BY <1>3 DEF CategoryJustified
  <1> QED BY <1>2, <1>4

\* No step hands out a category that was not given for its site.
LEMMA NextJustified ==
    ASSUME TypeInv, JustifiedInv, [Next]_vars
    PROVE  JustifiedInv'
  <1>t. TypeOK
    BY TypeInvTypeOK
  <1>s. \A t \in Client : th[t].site \in Site
    BY DEF TypeInv, ThreadType
  <1> USE DEF JustifiedInv
  <1>q. ASSUME UNCHANGED said, DOMAIN queries' \subseteq DOMAIN queries,
               queries' = [i \in DOMAIN queries' |-> queries[i]]
        PROVE  QueriesJustified'
    BY <1>q DEF QueriesJustified
  <1>r. ASSUME UNCHANGED <<said, db>> PROVE RowsJustified'
    BY <1>r DEF RowsJustified
  <1>u. ASSUME UNCHANGED <<said, queries>> PROVE QueriesJustified'
    BY <1>u DEF QueriesJustified
  <1>c. ASSUME NEW s \in Site
        PROVE  CheckSite(s).result \in Category => CheckSite(s).result \in said[s]
    <2> DEFINE v == CheckSite(s).result
    <2>1. \/ v \in {NotFound, Pending}
          \/ \E i \in Entries(s) : queries[i].is_complete /\ v = queries[i].status
      BY <1>t, CheckSiteFacts
    <2> HIDE DEF v
    <2>2. v \in {NotFound, Pending} => v \notin Category
      BY DEF NotFound, Pending, Category, Sex, Suspicious, Ok
    <2>3. v \in Category => v \in said[s]
      BY <2>1, <2>2 DEF QueriesJustified, Entries
    <2> QED BY <2>3 DEF v
  <1>1. ASSUME NEW t \in Client, NEW s \in Site, Check(t, s) PROVE JustifiedInv'
    <2> DEFINE c == CheckSite(s)
               a == [site |-> s, value |-> c.result, how |-> "cache"]
    <2>1. queries' = c.list /\ UNCHANGED <<db, said>>
      BY <1>1 DEF Check, History
    <2>2. QueriesJustified'
      BY <1>q, <1>t, <2>1, CheckSiteFacts
    <2>3. \A w \in Client : th'[w] = th[w] \/ th'[w].pc \in {"select", "callback"}
      BY <1>1, CheckThread DEF Check, TypeInv
    <2>4. ThreadsJustified'
      BY <2>1, <2>3 DEF ThreadsJustified
    <2>5. \A w \in Client : answer'[w] \in {answer[w], NoAnswer, a}
      BY <1>1 DEF Check, TypeInv
    <2>6. NoAnswer.value \notin Category
      BY DEF NoAnswer, Error, Category, Sex, Suspicious, Ok
    <2>7. a.value \in Category => a.value \in said[a.site]
      BY <1>c
    <2> HIDE DEF a
    <2>8. CategoryJustified'
      BY <2>1, <2>5, <2>6, <2>7 DEF CategoryJustified
    <2> QED BY <1>r, <2>1, <2>2, <2>4, <2>8
  <1>2. ASSUME NEW t \in Client, AddCallback(t) PROVE JustifiedInv'
    <2>1. \A i \in DOMAIN queries' :
             /\ i \in DOMAIN queries
             /\ queries'[i].is_complete = queries[i].is_complete
             /\ queries'[i].status = queries[i].status /\ queries'[i].site = queries[i].site
      BY <1>2 DEF AddCallback, TypeInv, QueryType
    <2>2. UNCHANGED <<said, db, answer>>
      BY <1>2 DEF AddCallback, History
    <2>3. QueriesJustified'
      BY <2>1, <2>2 DEF QueriesJustified
    <2>4. ThreadsJustified'
      BY <1>2, <2>2, GotoJustified DEF AddCallback
    <2> QED BY <1>r, <2>2, <2>3, <2>4 DEF CategoryJustified
  <1>3. ASSUME NEW t \in Client, StartWait(t) \/ SpuriousWake(t) PROVE JustifiedInv'
    <2>1. UNCHANGED <<queries, said, db, answer>>
      BY <1>3 DEF StartWait, SpuriousWake, History
    <2>2. ThreadsJustified'
      BY <1>3, <2>1, GotoJustified DEF StartWait, SpuriousWake
    <2> QED BY <1>r, <1>u, <2>1, <2>2 DEF CategoryJustified
  <1>4. ASSUME NEW t \in Client, Timeout(t) \/ SelectFails(t) PROVE JustifiedInv'
    <2>1. UNCHANGED <<queries, said, db>>
      BY <1>4 DEF Timeout, SelectFails, History
    <2>2. Error \notin Category /\ Exception \notin Category
      BY DEF Error, Exception, Category, Sex, Suspicious, Ok
    <2>3. ThreadsJustified' /\ CategoryJustified'
      <3>1. CASE Goto(t, "add") /\ UNCHANGED answer
        BY <3>1, <2>1, GotoJustified DEF CategoryJustified
      <3>2. CASE \E v \in {Error, Exception} : \E h \in Hows : Return(t, v, h)
        BY <3>2, <2>1, <2>2, ReturnJustified
      <3>3. {"timeout", "database", "error"} \subseteq Hows
        BY DEF Hows
      <3> QED BY <1>4, <3>1, <3>2, <3>3 DEF Timeout, SelectFails
    <2> QED BY <1>r, <1>u, <2>1, <2>3
  <1>5. ASSUME NEW t \in Client, Recheck(t) PROVE JustifiedInv'
    <2> DEFINE c == CheckSite(th[t].site)
    <2>1. queries' = c.list /\ UNCHANGED <<db, said>> /\ Return(t, c.result, "cache")
      BY <1>5 DEF Recheck, History
    <2>2. QueriesJustified'
      BY <1>q, <1>s, <1>t, <2>1, CheckSiteFacts
    <2>3. ThreadsJustified' /\ CategoryJustified'
      BY <1>c, <1>s, <2>1, ReturnJustified
    <2> QED BY <1>r, <2>1, <2>2, <2>3
  <1>6. ASSUME NEW t \in Client, SelectSite(t) PROVE JustifiedInv'
    <2> DEFINE s == th[t].site
               top == CHOOSE r \in db[s] : \A q \in db[s] : q.status <= r.status
    <2>1. db[s] # {} => top.status \in said[s]
      BY <1>s, TopIsRow DEF TypeInv, RowsJustified
    <2>2. UNCHANGED <<queries, said>>
      BY <1>6 DEF SelectSite
    <2>3. UNCHANGED db \/ db' = [db EXCEPT ![s] = {}]
      BY <1>6 DEF SelectSite
    <2>4. RowsJustified'
      BY <2>2, <2>3 DEF RowsJustified, TypeInv
    <2>5. CASE Goto(t, "add") /\ UNCHANGED answer
      BY <1>u, <2>2, <2>4, <2>5, GotoJustified DEF CategoryJustified
    <2>6. CASE db[s] # {} /\ Return(t, top.status, "database")
      <3>1. ThreadsJustified' /\ CategoryJustified'
        BY <2>1, <2>2, <2>6, ReturnJustified
      <3> QED BY <1>u, <2>2, <2>4, <3>1
    <2> QED BY <1>6, <2>5, <2>6 DEF SelectSite
  <1>7. ASSUME NEW t \in Client, AddPendingQuery(t) PROVE JustifiedInv'
    <2>1. UNCHANGED <<said, db, answer>>
      BY <1>7 DEF AddPendingQuery
    <2>2. PICK n \in Nat \ {0} :
             queries' = [i \in DOMAIN queries \cup {n} |->
                           IF i = n THEN NewQuery(th[t].site) ELSE queries[i]]
      BY <1>7, <1>t, PushBackFacts DEF AddPendingQuery, TypeInv
    <2>3. QueriesJustified'
      BY <2>1, <2>2 DEF QueriesJustified, NewQuery
    <2>4. ThreadsJustified'
      BY <1>7, <2>1, GotoJustified DEF AddPendingQuery
    <2> QED BY <1>r, <2>1, <2>3, <2>4 DEF CategoryJustified
  <1>8. ASSUME NEW t \in Client, NEW result \in Verdict \cup {Error, Exception},
               AnalyzeSite(t, result)
        PROVE  JustifiedInv'
    <2>1. \A s \in Site : said[s] \subseteq said'[s]
      BY <1>8, <1>s DEF AnalyzeSite, TypeInv
    <2>2. result \in Category => result \in said'[th[t].site]
      BY <1>8, <1>s DEF AnalyzeSite, TypeInv
    <2>3. UNCHANGED <<queries, db, answer>>
      BY <1>8 DEF AnalyzeSite
    <2>4. \A w \in Client :
             \/ th'[w] = th[w]
             \/ /\ th'[w].site = th[w].site
                /\ th'[w].pc = "remove" \/ th'[w].status \in said'[th[w].site]
      BY <1>8, <2>2 DEF AnalyzeSite, TypeInv, ThreadType
    <2>5. ThreadsJustified'
      BY <1>s, <2>1, <2>4 DEF ThreadsJustified
    <2>6. QueriesJustified' /\ RowsJustified' /\ CategoryJustified'
      BY <2>1, <2>3
         DEF QueriesJustified, RowsJustified, CategoryJustified, TypeInv, QueryType, AnswerType
    <2> QED BY <2>5, <2>6
  <1>9. ASSUME NEW t \in Client, UpdateSite(t) PROVE JustifiedInv'
    <2>1. UNCHANGED <<queries, said, answer>>
      BY <1>9 DEF UpdateSite, History
    <2>2. th[t].status \in said[th[t].site]
      BY <1>9 DEF UpdateSite, ThreadsJustified
    <2>3. RowsJustified'
      BY <1>9, <2>1, <2>2 DEF UpdateSite, RowsJustified, TypeInv
    <2>4. ThreadsJustified'
      BY <1>9, <2>1, GotoJustified DEF UpdateSite
    <2> QED BY <1>u, <2>1, <2>3, <2>4 DEF CategoryJustified
  <1>10. ASSUME NEW t \in Client, UpdateFails(t) PROVE JustifiedInv'
    <2>1. UNCHANGED <<queries, said, db, answer>>
      BY <1>10 DEF UpdateFails
    <2>2. ThreadsJustified'
      BY <1>10, <2>1, GotoJustified DEF UpdateFails
    <2> QED BY <1>r, <1>u, <2>1, <2>2 DEF CategoryJustified
  <1>11. ASSUME NEW t \in Client, SetCompletedQuery(t) PROVE JustifiedInv'
    <2>1. th[t].status \in said[th[t].site]
      BY <1>11 DEF SetCompletedQuery, ThreadsJustified
    <2>2. UNCHANGED <<said, db>>
      BY <1>11 DEF SetCompletedQuery, History
    <2>3. \A j \in DOMAIN queries' :
             /\ j \in DOMAIN queries /\ queries'[j].site = queries[j].site
             /\ \/ queries'[j] = queries[j]
                \/ queries[j].site = th[t].site /\ queries'[j].status = th[t].status
      <3> DEFINE i == First(th[t].site)
      <3>1. i # 0 => i \in DOMAIN queries /\ queries[i].site = th[t].site
        BY <1>s, <1>t, FirstIsEntry DEF Entries
      <3> HIDE DEF i
      <3>2. queries' = IF i = 0 THEN queries
                      ELSE [queries EXCEPT ![i].is_complete = TRUE, ![i].old = FALSE,
                                           ![i].status = th[t].status]
        BY <1>11 DEF SetCompletedQuery, i
      <3> QED BY <3>1, <3>2 DEF TypeInv, QueryType
    <2>4. QueriesJustified'
      BY <2>1, <2>2, <2>3 DEF QueriesJustified
    <2>5. \A w \in Client : th'[w] = th[w] \/ th'[w].pc \in {"idle", "woken"}
      BY <1>11, IdleTypes DEF SetCompletedQuery, TypeInv, ThreadType
    <2>6. ThreadsJustified'
      BY <2>2, <2>5 DEF ThreadsJustified
    <2>7. CategoryJustified'
      BY <1>11, <2>1, <2>2 DEF SetCompletedQuery, CategoryJustified, TypeInv
    <2> QED BY <1>r, <2>2, <2>4, <2>6, <2>7
  <1>12. ASSUME NEW t \in Client, RemovePendingQuery(t) PROVE JustifiedInv'
    <2>1. UNCHANGED <<said, db>>
      BY <1>12 DEF RemovePendingQuery, History
    <2>2. QueriesJustified'
      BY <1>12, <1>q, <2>1 DEF RemovePendingQuery, Restrict
    <2>3. Exception \notin Category
      BY DEF Exception, Category, Sex, Suspicious, Ok
    <2>4. ThreadsJustified' /\ CategoryJustified'
      BY <1>12, <2>1, <2>3, ReturnJustified DEF RemovePendingQuery
    <2> QED BY <1>r, <2>1, <2>2, <2>4
  <1>13. CASE Age
    <2>1. \A i \in DOMAIN queries' :
             /\ i \in DOMAIN queries
             /\ queries'[i].is_complete = queries[i].is_complete
             /\ queries'[i].status = queries[i].status /\ queries'[i].site = queries[i].site
      BY <1>13 DEF Age, TypeInv, QueryType
    <2>2. UNCHANGED <<said, db, answer, th>>
      BY <1>13 DEF Age, History
    <2> QED BY <1>r, <2>1, <2>2 DEF QueriesJustified, ThreadsJustified, CategoryJustified
  <1>15. ASSUME NEW t \in Client, Uncaught(t) PROVE JustifiedInv'
    <2>1. UNCHANGED <<queries, said, db>> /\ Return(t, Exception, "error")
      BY <1>15 DEF Uncaught
    <2>2. Exception \notin Category
      BY DEF Exception, Category, Sex, Suspicious, Ok
    <2>3. ThreadsJustified' /\ CategoryJustified'
      BY <2>1, <2>2, ReturnJustified
    <2> QED BY <1>r, <1>u, <2>1, <2>3
  <1>14. CASE UNCHANGED vars
    BY <1>14 DEF vars, QueriesJustified, RowsJustified, ThreadsJustified, CategoryJustified
  <1> QED
    BY <1>1, <1>2, <1>3, <1>4, <1>5, <1>6, <1>7, <1>8, <1>9, <1>10, <1>11, <1>12,
       <1>13, <1>14, <1>15 DEF Next, WhatSiteRef

\* whatsiteref tells no connection a category that the search engine did not
\* give for that very site, with any number of threads sharing the cache.
THEOREM CategoryAnswersJustified == Spec => []CategoryJustified
  <1>1. Init => JustifiedInv
    <2> SUFFICES ASSUME Init PROVE JustifiedInv
      OBVIOUS
    <2>1. QueriesJustified /\ RowsJustified
      BY DEF Init, NoQueries, QueriesJustified, RowsJustified
    <2>2. ThreadsJustified
      BY IdleTypes DEF Init, ThreadsJustified
    <2>3. CategoryJustified
      BY DEF Init, CategoryJustified, NoAnswer, Error, Category, Sex, Suspicious, Ok
    <2> QED BY <2>1, <2>2, <2>3 DEF JustifiedInv
  <1>2. TypeInv /\ JustifiedInv /\ [Next]_vars => JustifiedInv'
    BY NextJustified
  <1>3. TypeInv /\ [Next]_vars => TypeInv'
    BY NextTypeInv
  <1>4. JustifiedInv => CategoryJustified
    BY DEF JustifiedInv
  <1> QED BY InitTypeInv, <1>1, <1>2, <1>3, <1>4, PTL DEF Spec

----------------------------------------------------------------------------
(***************************************************************************)
(* Who answers a pending query, and what the database knows of it.         *)
(***************************************************************************)

\* The entries of the new list are entries of the old one for the same sites,
\* with the same status.
Kept ==
    \A i \in DOMAIN queries' :
        /\ i \in DOMAIN queries
        /\ queries'[i].site = queries[i].site
        /\ queries'[i].is_complete = queries[i].is_complete
        /\ queries'[i].status = queries[i].status

\* check_site, add_callback and the passing of time add and complete nothing.
LEMMA KeptSteps ==
    ASSUME TypeInv,
           \/ Age
           \/ \E t \in Client : \/ \E s \in Site : Check(t, s)
                               \/ AddCallback(t) \/ Recheck(t)
           \/ UNCHANGED queries
    PROVE  Kept
  <1>t. TypeOK
    BY TypeInvTypeOK
  <1>1. ASSUME NEW s \in Site, queries' = CheckSite(s).list PROVE Kept
    <2> DEFINE l == CheckSite(s).list
    <2>1. DOMAIN l \subseteq DOMAIN queries /\ l = [i \in DOMAIN l |-> queries[i]]
      BY <1>t, CheckSiteFacts
    <2> HIDE DEF l
    <2>2. \A i \in DOMAIN l : i \in DOMAIN queries /\ l[i] = queries[i]
      BY <2>1
    <2>3. queries' = l
      BY <1>1 DEF l
    <2> QED BY <2>2, <2>3 DEF Kept
  <1>2. CASE Age
    BY <1>2 DEF Age, Kept, TypeInv, QueryType
  <1>3. ASSUME NEW t \in Client, AddCallback(t) PROVE Kept
    BY <1>3 DEF AddCallback, Kept, TypeInv, QueryType
  <1>4. ASSUME NEW t \in Client, Recheck(t) PROVE Kept
    BY <1>1, <1>4 DEF Recheck, TypeInv, ThreadType
  <1>5. ASSUME NEW t \in Client, NEW s \in Site, Check(t, s) PROVE Kept
    BY <1>1, <1>5 DEF Check
  <1>6. CASE UNCHANGED queries
    BY <1>6 DEF Kept
  <1> QED BY <1>2, <1>3, <1>4, <1>5, <1>6

\* set_completed_query completes the first entry of the thread's site.
LEMMA CompletedStep ==
    ASSUME TypeInv, NEW t \in Client, SetCompletedQuery(t)
    PROVE  LET i == First(th[t].site)
           IN  /\ DOMAIN queries' = DOMAIN queries
               /\ \A j \in DOMAIN queries :
                     /\ queries'[j].site = queries[j].site
                     /\ j # i => queries'[j] = queries[j]
               /\ i # 0 => /\ i \in Entries(th[t].site)
                          /\ queries'[i].is_complete /\ queries'[i].status = th[t].status
               /\ i = 0 => Entries(th[t].site) = {}
  <1> DEFINE i == First(th[t].site)
  <1>1. th[t].site \in Site
    BY DEF TypeInv, ThreadType
  <1>2. \/ i = 0 /\ Entries(th[t].site) = {}
        \/ i \in Entries(th[t].site)
    BY <1>1, TypeInvTypeOK, FirstIsEntry
  <1>3. queries' = IF i = 0 THEN queries
                  ELSE [queries EXCEPT ![i].is_complete = TRUE, ![i].old = FALSE,
                                       ![i].status = th[t].status]
    BY DEF SetCompletedQuery
  <1> HIDE DEF i
  <1>4. i \in Entries(th[t].site) => i \in DOMAIN queries /\ i # 0
    BY DEF Entries, TypeInv
  <1>5. /\ DOMAIN queries' = DOMAIN queries
        /\ \A j \in DOMAIN queries :
              queries'[j].site = queries[j].site /\ (j # i => queries'[j] = queries[j])
    BY <1>2, <1>3, <1>4 DEF TypeInv, QueryType
  <1>6. i # 0 => queries'[i].is_complete /\ queries'[i].status = th[t].status
    BY <1>2, <1>3, <1>4 DEF TypeInv, QueryType
  <1> QED BY <1>2, <1>4, <1>5, <1>6 DEF i

OwnerPc == {"ask", "update", "complete", "remove"}

\* OrphanHasCause with what makes it inductive: a site that was never
\* queried twice at a time has one entry at most.
OrphanInv ==
    /\ OrphanHasCause
    /\ \A i, j \in DOMAIN queries :
          queries[i].site = queries[j].site /\ queries[i].site \notin dup => i = j

\* A thread that gives up its query completes or removes the one entry there is.
LEMMA NextOrphanInv ==
    ASSUME TypeInv, OrphanInv, [Next]_vars
    PROVE  OrphanInv'
  <1>t. TypeOK
    BY TypeInvTypeOK
  <1>s. \A t \in Client : th[t].site \in Site
    BY DEF TypeInv, ThreadType
  <1> USE DEF OrphanInv, OrphanHasCause, Owners, OwnerPc
  <1>k. ASSUME Kept, UNCHANGED <<dup, abandoned>>,
               \A w \in Client : th[w].pc \in OwnerPc =>
                   th'[w].pc \in OwnerPc /\ th'[w].site = th[w].site
        PROVE  OrphanInv'
    BY <1>k DEF Kept
  <1>1. ASSUME NEW t \in Client, NEW s \in Site, Check(t, s) PROVE OrphanInv'
    <2>1. Kept
      BY <1>1, KeptSteps
    <2>2. UNCHANGED <<dup, abandoned>> /\ \A w \in Client : th[w].pc # "idle" => th'[w] = th[w]
      BY <1>1 DEF Check, History, TypeInv
    <2> QED BY <1>k, <2>1, <2>2
  <1>2. ASSUME NEW t \in Client,
               AddCallback(t) \/ StartWait(t) \/ SpuriousWake(t) \/ Timeout(t) \/ Recheck(t)
        PROVE  OrphanInv'
    <2>1. Kept
      BY <1>2, KeptSteps DEF StartWait, SpuriousWake, Timeout
    <2>2. UNCHANGED <<dup, abandoned>> /\ \A w \in Client : w # t => th'[w] = th[w]
      BY <1>2 DEF AddCallback, StartWait, SpuriousWake, Timeout, Recheck, Goto, Return, History, TypeInv
    <2>3. th[t].pc \notin OwnerPc
      BY <1>2 DEF AddCallback, StartWait, SpuriousWake, Timeout, Recheck
    <2> QED BY <1>k, <2>1, <2>2, <2>3
  <1>3. ASSUME NEW t \in Client, SelectSite(t) \/ SelectFails(t) PROVE OrphanInv'
    <2>1. Kept
      BY <1>3, KeptSteps DEF SelectSite, SelectFails
    <2>2. UNCHANGED <<dup, abandoned>> /\ \A w \in Client : w # t => th'[w] = th[w]
      BY <1>3 DEF SelectSite, SelectFails, Goto, Return, History, TypeInv
    <2>3. th[t].pc \notin OwnerPc
      BY <1>3 DEF SelectSite, SelectFails
    <2> QED BY <1>k, <2>1, <2>2, <2>3
  <1>4. ASSUME NEW t \in Client, AddPendingQuery(t) PROVE OrphanInv'
    <2>1. PICK n \in Nat \ {0} :
             /\ n \notin DOMAIN queries
             /\ queries' = [i \in DOMAIN queries \cup {n} |->
                           IF i = n THEN NewQuery(th[t].site) ELSE queries[i]]
      BY <1>4, <1>t, PushBackFacts DEF AddPendingQuery, TypeInv
    <2>2. /\ \A w \in Client : w # t => th'[w] = th[w]
          /\ th[t].pc = "add" /\ th'[t].pc = "ask" /\ th'[t].site = th[t].site
      BY <1>4 DEF AddPendingQuery, Goto, TypeInv, ThreadType
    <2>3. /\ dup \subseteq dup' /\ abandoned' = abandoned
          /\ \A i \in DOMAIN queries : queries[i].site = th[t].site => th[t].site \in dup'
      BY <1>4 DEF AddPendingQuery, Entries
    <2>4. /\ \A i \in DOMAIN queries : queries'[i] = queries[i]
          /\ queries'[n].site = th[t].site
          /\ DOMAIN queries' = DOMAIN queries \cup {n}
      BY <2>1 DEF NewQuery
    <2>5. \A i \in DOMAIN queries' :
             ~ queries'[i].is_complete /\ queries'[i].site \notin dup' \cup abandoned'
                => \E w \in Client : th'[w].site = queries'[i].site /\ th'[w].pc \in OwnerPc
      BY <2>2, <2>3, <2>4
    <2>6. \A i, j \in DOMAIN queries' :
             queries'[i].site = queries'[j].site /\ queries'[i].site \notin dup' => i = j
      BY <2>3, <2>4
    <2> QED BY <2>5, <2>6
  <1>5. ASSUME NEW t \in Client, NEW result \in Verdict \cup {Error, Exception},
               AnalyzeSite(t, result)
        PROVE  OrphanInv'
    <2>1. Kept
      BY <1>5, KeptSteps DEF AnalyzeSite
    <2>2. /\ UNCHANGED <<dup, abandoned>> /\ \A w \in Client : w # t => th'[w] = th[w]
          /\ th'[t].pc \in OwnerPc /\ th'[t].site = th[t].site
      BY <1>5 DEF AnalyzeSite, TypeInv, ThreadType
    <2> QED BY <1>k, <2>1, <2>2
  <1>6. ASSUME NEW t \in Client, UpdateSite(t) \/ UpdateFails(t) PROVE OrphanInv'
    <2>1. Kept
      BY <1>6, KeptSteps DEF UpdateSite, UpdateFails
    <2>2. /\ UNCHANGED <<dup, abandoned>> /\ \A w \in Client : w # t => th'[w] = th[w]
          /\ th'[t].pc \in OwnerPc /\ th'[t].site = th[t].site
      BY <1>6 DEF UpdateSite, UpdateFails, Goto, History, TypeInv, ThreadType
    <2> QED BY <1>k, <2>1, <2>2
  <1>7. ASSUME NEW t \in Client, SetCompletedQuery(t) PROVE OrphanInv'
    <2> DEFINE i == First(th[t].site)
    <2>1. /\ DOMAIN queries' = DOMAIN queries
          /\ \A j \in DOMAIN queries :
                queries'[j].site = queries[j].site /\ (j # i => queries'[j] = queries[j])
          /\ i # 0 => i \in Entries(th[t].site) /\ queries'[i].is_complete
          /\ i = 0 => Entries(th[t].site) = {}
      BY <1>7, CompletedStep
    <2> HIDE DEF i
    <2>2. UNCHANGED <<dup, abandoned>> /\ \A w \in Client : w # t /\ th[w].pc \in OwnerPc => th'[w] = th[w]
      BY <1>7 DEF SetCompletedQuery, History, TypeInv
    <2>3. \A j \in DOMAIN queries' :
             ~ queries'[j].is_complete /\ queries'[j].site \notin dup => queries[j].site # th[t].site
      BY <2>1 DEF Entries
    <2>4. \A j \in DOMAIN queries' :
             ~ queries'[j].is_complete /\ queries'[j].site \notin dup' \cup abandoned' =>
                \E w \in Client : th'[w].site = queries'[j].site /\ th'[w].pc \in OwnerPc
      <3> SUFFICES ASSUME NEW j \in DOMAIN queries', ~ queries'[j].is_complete,
                          queries'[j].site \notin dup' \cup abandoned'
                   PROVE  \E w \in Client : th'[w].site = queries'[j].site /\ th'[w].pc \in OwnerPc
        OBVIOUS
      <3>1. queries[j].site # th[t].site /\ queries[j].site \notin dup \cup abandoned
        BY <2>1, <2>2, <2>3
      <3>2. ~ queries[j].is_complete
        BY <2>1, <3>1 DEF Entries, TypeInv
      <3>3. PICK w \in Client : th[w].site = queries[j].site /\ th[w].pc \in OwnerPc
        BY <2>1, <3>1, <3>2
      <3> QED BY <2>1, <2>2, <3>1, <3>3
    <2> QED BY <2>1, <2>2, <2>4
  <1>8. ASSUME NEW t \in Client, RemovePendingQuery(t) PROVE OrphanInv'
    <2> DEFINE i == First(th[t].site)
    <2>1. (i = 0 /\ Entries(th[t].site) = {}) \/ i \in Entries(th[t].site)
      BY <1>s, <1>t, FirstIsEntry
    <2>2. queries' = [j \in DOMAIN queries \ {i} |-> queries[j]]
      BY <1>8 DEF RemovePendingQuery, Restrict
    <2> HIDE DEF i
    <2>3. UNCHANGED <<dup, abandoned>> /\ \A w \in Client : w # t => th'[w] = th[w]
      BY <1>8 DEF RemovePendingQuery, Return, History, TypeInv
    <2>4. \A j \in DOMAIN queries' : queries[j].site \notin dup => queries[j].site # th[t].site
      BY <2>1, <2>2 DEF Entries
    <2> QED BY <2>2, <2>3, <2>4
  <1>9. CASE Age
    <2>1. UNCHANGED <<dup, abandoned, th>>
      BY <1>9 DEF Age, History
    <2> QED BY <1>9, <1>k, <2>1, KeptSteps
  <1>11. ASSUME NEW t \in Client, Uncaught(t) PROVE OrphanInv'
    <2>1. UNCHANGED <<queries, dup>> /\ abandoned' = abandoned \cup {th[t].site}
      BY <1>11 DEF Uncaught
    <2>2. \A w \in Client : w # t => th'[w] = th[w]
      BY <1>11 DEF Uncaught, Return, TypeInv
    <2> QED BY <2>1, <2>2
  <1>10. CASE UNCHANGED vars
    BY <1>10, <1>k, KeptSteps DEF vars
  <1> QED
    BY <1>1, <1>2, <1>3, <1>4, <1>5, <1>6, <1>7, <1>8, <1>9, <1>10, <1>11 DEF Next, WhatSiteRef

\* A pending query of the cache that nobody will complete or remove takes a
\* site that two threads of whatsiteref queried at the same time, or an
\* exception that whatsiteref does not catch.
THEOREM CategoryOrphanHasCause == Spec => []OrphanHasCause
  <1>1. Init => OrphanInv
    BY DEF Init, NoQueries, OrphanInv, OrphanHasCause
  <1>2. TypeInv /\ OrphanInv /\ [Next]_vars => OrphanInv'
    BY NextOrphanInv
  <1>3. TypeInv /\ [Next]_vars => TypeInv'
    BY NextTypeInv
  <1>4. OrphanInv => OrphanHasCause
    BY DEF OrphanInv
  <1> QED BY InitTypeInv, <1>1, <1>2, <1>3, <1>4, PTL DEF Spec

\* CacheBehindDatabase with what makes it inductive: the thread that is about
\* to complete its query has stored the category.
StoredInv ==
    /\ CacheBehindDatabase
    /\ \A t \in Client : th[t].pc = "complete" /\ th[t].site \notin unstored =>
          \E r \in db[th[t].site] : r.status = th[t].status

\* The write comes before the completion, and a deletion is remembered.
LEMMA NextStoredInv ==
    ASSUME TypeInv, StoredInv, [Next]_vars
    PROVE  StoredInv'
  <1>t. TypeOK
    BY TypeInvTypeOK
  <1>s. /\ \A t \in Client : th[t].site \in Site
        /\ \A i \in DOMAIN queries : queries[i].site \in Site
    BY DEF TypeInv, ThreadType, QueryType
  <1> USE DEF StoredInv, CacheBehindDatabase
  <1>k. ASSUME Kept, unstored \subseteq unstored',
               \A s \in Site : s \notin unstored' => db[s] \subseteq db'[s],
               \A w \in Client : th'[w].pc = "complete" => th'[w] = th[w]
        PROVE  StoredInv'
    BY <1>k, <1>s DEF Kept
  <1>1. ASSUME NEW t \in Client, NEW s \in Site, Check(t, s) PROVE StoredInv'
    <2>1. Kept
      BY <1>1, KeptSteps
    <2>2. /\ UNCHANGED <<db, unstored>>
          /\ \A w \in Client : th'[w] = th[w] \/ th'[w].pc \in {"select", "callback"}
      BY <1>1, CheckThread DEF Check, History, TypeInv
    <2> QED BY <1>k, <2>1, <2>2
  <1>2. ASSUME NEW t \in Client,
               \/ AddCallback(t) \/ StartWait(t) \/ SpuriousWake(t) \/ Timeout(t)
               \/ Recheck(t) \/ SelectFails(t) \/ Uncaught(t)
        PROVE  StoredInv'
    <2>1. Kept
      BY <1>2, KeptSteps DEF StartWait, SpuriousWake, Timeout, SelectFails, Uncaught
    <2>2. UNCHANGED <<db, unstored>>
      BY <1>2 DEF AddCallback, StartWait, SpuriousWake, Timeout, Recheck, SelectFails, Uncaught, History
    <2>3. \A w \in Client : th'[w] = th[w] \/ th'[w].pc # "complete"
      BY <1>2, IdleTypes
         DEF AddCallback, StartWait, SpuriousWake, Timeout, Recheck, SelectFails, Uncaught, Goto, Return,
             TypeInv, ThreadType
    <2> QED BY <1>k, <2>1, <2>2, <2>3
  <1>3. ASSUME NEW t \in Client, SelectSite(t) PROVE StoredInv'
    <2>1. Kept
      BY <1>3, KeptSteps DEF SelectSite
    <2>2. \A w \in Client : th'[w] = th[w] \/ th'[w].pc # "complete"
      BY <1>3, IdleTypes DEF SelectSite, Goto, Return, TypeInv, ThreadType
    <2>3. /\ unstored \subseteq unstored'
          /\ \A s \in Site : s \notin unstored' => db'[s] = db[s]
      BY <1>3 DEF SelectSite, TypeInv
    <2> QED BY <1>k, <2>1, <2>2, <2>3
  <1>4. ASSUME NEW t \in Client, AddPendingQuery(t) PROVE StoredInv'
    <2>1. PICK n \in Nat \ {0} :
             queries' = [i \in DOMAIN queries \cup {n} |->
                           IF i = n THEN NewQuery(th[t].site) ELSE queries[i]]
      BY <1>4, <1>t, PushBackFacts DEF AddPendingQuery, TypeInv
    <2>2. \A i \in DOMAIN queries' :
             ~ queries'[i].is_complete \/ (i \in DOMAIN queries /\ queries'[i] = queries[i])
      BY <2>1 DEF NewQuery
    <2>3. /\ UNCHANGED <<db, unstored>>
          /\ \A w \in Client : th'[w] = th[w] \/ th'[w].pc # "complete"
      BY <1>4 DEF AddPendingQuery, Goto, TypeInv, ThreadType
    <2> QED BY <2>2, <2>3
  <1>5. ASSUME NEW t \in Client, NEW result \in Verdict \cup {Error, Exception},
               AnalyzeSite(t, result)
        PROVE  StoredInv'
    <2>1. Kept
      BY <1>5, KeptSteps DEF AnalyzeSite
    <2>2. /\ UNCHANGED <<db, unstored>>
          /\ \A w \in Client : th'[w] = th[w] \/ th'[w].pc # "complete"
      BY <1>5 DEF AnalyzeSite, TypeInv, ThreadType
    <2> QED BY <1>k, <2>1, <2>2
  <1>6. ASSUME NEW t \in Client, UpdateSite(t) \/ UpdateFails(t) PROVE StoredInv'
    <2>1. UNCHANGED queries
      BY <1>6 DEF UpdateSite, UpdateFails
    <2>2. unstored \subseteq unstored' /\ \A s \in Site : db[s] \subseteq db'[s]
      BY <1>6 DEF UpdateSite, UpdateFails, History, TypeInv
    <2>3. \/ th[t].site \in unstored'
          \/ \E r \in db'[th[t].site] : r.status = th[t].status
      <3> DEFINE r == [status |-> th[t].status, old |-> FALSE]
      <3>1. CASE UpdateSite(t)
        <4>1. r \in db'[th[t].site]
          BY <1>s, <3>1 DEF UpdateSite, TypeInv
        <4> QED BY <4>1
      <3>2. CASE UpdateFails(t)
        BY <3>2 DEF UpdateFails
      <3> QED BY <1>6, <3>1, <3>2
    <2>4. /\ \A w \in Client : w # t => th'[w] = th[w]
          /\ th'[t].site = th[t].site /\ th'[t].status = th[t].status
      BY <1>6 DEF UpdateSite, UpdateFails, Goto, TypeInv, ThreadType
    <2>5. CacheBehindDatabase'
      BY <1>s, <2>1, <2>2
    <2>6. \A w \in Client : th'[w].pc = "complete" /\ th'[w].site \notin unstored' =>
             \E r \in db'[th'[w].site] : r.status = th'[w].status
      BY <1>s, <2>2, <2>3, <2>4
    <2> QED BY <2>5, <2>6
  <1>7. ASSUME NEW t \in Client, SetCompletedQuery(t) PROVE StoredInv'
    <2> DEFINE i == First(th[t].site)
    <2>1. /\ DOMAIN queries' = DOMAIN queries
          /\ \A j \in DOMAIN queries :
                queries'[j].site = queries[j].site /\ (j # i => queries'[j] = queries[j])
          /\ i # 0 => i \in Entries(th[t].site) /\ queries'[i].status = th[t].status
      BY <1>7, CompletedStep
    <2> HIDE DEF i
    <2>2. /\ UNCHANGED <<db, unstored>> /\ th[t].pc = "complete"
          /\ \A w \in Client : th'[w] = th[w] \/ th'[w].pc # "complete"
      BY <1>7, IdleTypes DEF SetCompletedQuery, History, TypeInv, ThreadType
    <2>3. i \in DOMAIN queries =>
             queries[i].site = th[t].site /\ queries'[i].status = th[t].status
      BY <2>1 DEF Entries, TypeInv
    <2>4. CacheBehindDatabase'
      BY <2>1, <2>2, <2>3
    <2> QED BY <2>2, <2>4
  <1>8. ASSUME NEW t \in Client, RemovePendingQuery(t) PROVE StoredInv'
    <2>1. Kept
      BY <1>8 DEF RemovePendingQuery, Restrict, Kept
    <2>2. /\ UNCHANGED <<db, unstored>>
          /\ \A w \in Client : th'[w] = th[w] \/ th'[w].pc # "complete"
      BY <1>8, IdleTypes DEF RemovePendingQuery, Return, History, TypeInv
    <2> QED BY <1>k, <2>1, <2>2
  <1>9. CASE Age
    <2>1. UNCHANGED <<db, unstored, th>>
      BY <1>9 DEF Age, History
    <2> QED BY <1>9, <1>k, <2>1, KeptSteps
  <1>10. CASE UNCHANGED vars
    BY <1>10, <1>k, KeptSteps DEF vars
  <1> QED
    BY <1>1, <1>2, <1>3, <1>4, <1>5, <1>6, <1>7, <1>8, <1>9, <1>10 DEF Next, WhatSiteRef

\* What the cache offers to other connections is in the database, but for a
\* failed write and an expired row: update_site runs before set_completed_query.
THEOREM CategoryCacheBehindDatabase == Spec => []CacheBehindDatabase
  <1>1. Init => StoredInv
    BY IdleTypes DEF Init, NoQueries, StoredInv, CacheBehindDatabase
  <1>2. TypeInv /\ StoredInv /\ [Next]_vars => StoredInv'
    BY NextStoredInv
  <1>3. TypeInv /\ [Next]_vars => TypeInv'
    BY NextTypeInv
  <1>4. StoredInv => CacheBehindDatabase
    BY DEF StoredInv
  <1> QED BY InitTypeInv, <1>1, <1>2, <1>3, <1>4, PTL DEF Spec
=============================================================================

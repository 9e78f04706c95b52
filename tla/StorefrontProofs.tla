-------------------------- MODULE StorefrontProofs -------------------------
(***************************************************************************)
(* Proofs about what a customer meets at the storefront: the caches of the *)
(* shelf, the content administrators publish, the cart, and the            *)
(* Idempotency-Key store behind every write he sends; for any number of    *)
(* requests, devices, offers, pages, rows, keys and bounds.                *)
(***************************************************************************)
EXTENDS MCRetailOrder, Idempotency, FiniteSetTheorems, TLAPS

----------------------------------------
(* The shelf. What a reader holds, and what Redis holds, is explained by *)
(* what is committed and by who still has to invalidate it. *)
Bumps   == Cities \cup {"global", "city", "none"}
ReadRow == [step : {"idle", "city", "global", "revision", "get", "db", "confirm", "confirmHit",
                    "fill", "done"},
            page : Cities \cup {"all"}, version : Nat \X Nat, got : Nat, passed : BOOLEAN,
            tries : Nat, during : SUBSET Nat, qty : Int, moved : BOOLEAN]
WriteRow == [pages : SUBSET Pages, bump : Bumps, event : BOOLEAN]
EntryRow == [page : Pages, version : Nat \X Nat, content : Nat, late : BOOLEAN,
             qty : Int, moved : BOOLEAN]

ShelfTypes ==
    /\ cache \in Caches /\ writes \in Nat /\ queue \in Nat /\ silent \in BOOLEAN /\ onHand \in Int
    /\ committed \in [Pages -> Nat] /\ \A p \in Pages : committed[p] <= writes + 1
    /\ version \in [Cities \cup {"global"} -> Nat] /\ shopper \in [Shoppers -> ReadRow]
    /\ writer \in [Writers -> WriteRow] /\ entries \subseteq EntryRow
    /\ cache = "category" => queue = 0
    /\ cache = "home" => \A w \in Writers : writer[w] # NoWrite => writer[w].bump \in Cities \cup {"global"}

\* Why an old product detail may be in Redis, apart from a late write-back.
Excused == queue > 0 \/ silent \/ \E w \in Writers : "all" \in writer[w].pages /\ ~writer[w].event

\* What is not newer than the counters.
NotAhead(p, v) == v[1] <= version[p] /\ v[2] <= version["global"]

\* Content of a page with the version it is stored, or will be stored, under.
Explained(p, v, content, late, qty, moved) ==
    /\ cache = "category" => v = <<content, 0>>
    /\ cache = "product" => (content # committed["all"] \/ (qty # onHand /\ ~moved) => late \/ Excused)
    /\ cache = "home" =>
          /\ NotAhead(p, v)
          /\ content # committed[p] =>
                /\ queue > 0 \/ late
                /\ v = <<version[p], version["global"]>> => Pending(p) \/ p \in missed

EntryOK(e) == Explained(e.page, e.version, e.content, e.late, e.qty, e.moved)

\* What a reader knows at each step.
ReadOK(r) ==
    /\ r.step # "idle" => r.page \in Pages
    /\ r.step = "fill" => Explained(r.page, r.version, r.got, r.passed, r.qty, r.moved)
    /\ cache # "category" => r.step \in {"idle", "city", "global", "get", "db", "fill"}
    /\ cache = "product" => r.step \notin {"city", "global"}
    /\ cache = "home" =>
          /\ r.step = "global" => r.version[1] <= version[r.page]
          /\ r.step \in {"get", "db"} => NotAhead(r.page, r.version)
    /\ cache = "category" =>
          /\ r.step \notin {"city", "global"}
          /\ r.step \in {"get", "db", "confirmHit"} => r.version[1] <= committed["all"]
          /\ r.step = "confirm" => r.version[1] <= r.got /\ r.got <= committed["all"]
          /\ r.step = "confirmHit" => r.version = <<r.got, 0>>
          /\ r.step \in {"db", "confirm", "confirmHit", "fill"} => committed["all"] \in r.during
          /\ r.step \in {"confirm", "fill", "done"} => r.got \in r.during

ShelfInv ==
    /\ ShelfTypes
    /\ \A s \in Shoppers, r \in ReadRow : shopper[s] = r => ReadOK(r)
    /\ \A e \in entries : EntryOK(e)

\* Nobody reads, nobody writes.
LEMMA NoReadFits == NoRead \in ReadRow /\ NoRead.step = "idle"
<1>1. PICK d \in SUBSET Nat : d = {} OBVIOUS
<1>2. PICK v \in Nat \X Nat : v = <<0, 0>> OBVIOUS
<1>3. NoRead = [step |-> "idle", page |-> "all", version |-> v, got |-> 0, passed |-> FALSE,
                tries |-> 0, during |-> d, qty |-> 0, moved |-> FALSE]
 BY <1>1, <1>2 DEF NoRead
<1> QED BY <1>3 DEF ReadRow

LEMMA NoReadOK == ReadOK(NoRead)
BY NoReadFits DEF ReadOK

LEMMA NoWriteFits == NoWrite \in WriteRow /\ NoWrite.pages = {}
<1>1. PICK d \in SUBSET Pages : d = {} OBVIOUS
<1>2. NoWrite = [pages |-> d, bump |-> "none", event |-> FALSE] BY <1>1 DEF NoWrite
<1> QED BY <1>1, <1>2 DEF WriteRow, Bumps

LEMMA ShelfInitially == ShelfInit => ShelfInv
<1> SUFFICES ASSUME ShelfInit PROVE ShelfInv
 OBVIOUS
<1>1. committed \in [Pages -> Nat] /\ \A p \in Pages : committed[p] <= 1 BY DEF ShelfInit
<1>2. shopper \in [Shoppers -> ReadRow] /\ writer \in [Writers -> WriteRow]
 BY NoReadFits, NoWriteFits DEF ShelfInit
<1>3. /\ \A w \in Writers : writer[w] = NoWrite
      /\ \A s \in Shoppers : shopper[s] = NoRead
 BY DEF ShelfInit
<1>4. version \in [Cities \cup {"global"} -> Nat] /\ writes = 0 /\ queue = 0 /\ silent = FALSE /\ entries = {}
      /\ cache \in Caches /\ onHand \in Int
 BY DEF ShelfInit
<1>5. ShelfTypes
 <2>1. writes \in Nat /\ queue \in Nat /\ \A p \in Pages : committed[p] <= writes + 1 BY <1>1, <1>4
 <2>3. silent \in BOOLEAN BY <1>4, Zenon
 <2>2. entries \subseteq EntryRow BY <1>4
 <2> QED BY <1>1, <1>2, <1>3, <1>4, <2>1, <2>2, <2>3, Zenon DEF ShelfTypes
<1>6. \A s \in Shoppers, r \in ReadRow : shopper[s] = r => ReadOK(r) BY <1>3, NoReadOK, Zenon
<1> QED BY <1>4, <1>5, <1>6, Zenon DEF ShelfInv

\* The property follows.
LEMMA ShelfInvImplies == ShelfInv => ShelfIsHonest
<1> SUFFICES ASSUME ShelfInv PROVE ShelfIsHonest
 OBVIOUS
<1>1. ASSUME NEW s \in Shoppers, cache = "category", shopper[s].step = "done"
      PROVE  shopper[s].got \in shopper[s].during
 <2>1. shopper[s] \in ReadRow BY DEF ShelfInv, ShelfTypes
 <2>2. ReadOK(shopper[s]) BY <2>1 DEF ShelfInv
 <2> QED BY <1>1, <2>2 DEF ReadOK
<1>2. ASSUME NEW e \in entries, cache = "product", e.content # committed["all"] \/ (e.qty # onHand /\ ~e.moved)
      PROVE  e.late \/ Pending("all") \/ queue > 0 \/ silent
 BY <1>2 DEF ShelfInv, EntryOK, Explained, Excused, Pending
<1>3. ASSUME NEW e \in entries, cache = "home", e.content # committed[e.page], Served(e)
      PROVE  Pending(e.page) \/ (e.page \in missed /\ (queue > 0 \/ e.late))
 BY <1>3 DEF ShelfInv, EntryOK, Explained, Served
<1> QED BY <1>1, <1>2, <1>3 DEF ShelfIsHonest

\* A reader moves on, and may leave an entry or take one away.
LEMMA ReaderMoves ==
    ASSUME ShelfInv, NEW s \in Shoppers, NEW r \in ReadRow, Reads, ReadOK(r),
           shopper' = [shopper EXCEPT ![s] = r],
           entries' \subseteq EntryRow, \A e \in entries' : e \in entries \/ EntryOK(e)
    PROVE  ShelfInv'
<1>0. UNCHANGED <<cache, committed, version, queue, writer, missed, silent, onHand, writes>> /\ Pages' = Pages
 BY DEF Reads, Pages
<1>1. shopper' \in [Shoppers -> ReadRow] /\ \A x \in Shoppers : shopper'[x] = shopper[x] \/ shopper'[x] = r
 BY DEF ShelfInv, ShelfTypes
<1>2. ShelfTypes' BY <1>0, <1>1 DEF ShelfInv, ShelfTypes, WriteRow, EntryRow, ReadRow
<1>3. ASSUME NEW x, ReadOK(x) PROVE ReadOK(x)' BY <1>0, <1>3 DEF ReadOK, Explained, NotAhead, Excused, Pending
<1>4. ASSUME NEW x, EntryOK(x) PROVE EntryOK(x)'
 BY <1>0, <1>4 DEF EntryOK, Explained, NotAhead, Excused, Pending
<1>5. \A x \in Shoppers, y \in ReadRow : shopper'[x] = y => ReadOK(y)' BY <1>1, <1>3 DEF ShelfInv
<1>6. \A x \in entries' : EntryOK(x)' BY <1>4 DEF ShelfInv
<1> QED BY <1>0, <1>2, <1>5, <1>6 DEF ShelfInv, ReadRow

\* A reader's next step, as Step takes it.
LEMMA StepFits ==
    ASSUME ShelfInv, NEW s \in Shoppers, NEW r \in ReadRow, Step(s, r),
           r.step = "done" => cache # "category" \/ ReadOK(r), r.step # "done" => ReadOK(r)
    PROVE  \E x \in ReadRow : ReadOK(x) /\ shopper' = [shopper EXCEPT ![s] = x]
<1>1. CASE r.step = "done" /\ cache # "category"
 BY <1>1, NoReadFits, NoReadOK DEF Step
<1>2. CASE ~(r.step = "done" /\ cache # "category")
 BY <1>2 DEF Step
<1> QED BY <1>1, <1>2

\* The actions of a reader that write nothing to Redis.
LEMMA ReaderSteps ==
    ASSUME ShelfInv, NEW s \in Shoppers, NEW r \in ReadRow, Reads, Step(s, r), entries' = entries,
           r.step = "done" => cache # "category" \/ ReadOK(r), r.step # "done" => ReadOK(r)
    PROVE  ShelfInv'
<1>1. PICK x \in ReadRow : ReadOK(x) /\ shopper' = [shopper EXCEPT ![s] = x] BY StepFits
<1>2. entries' \subseteq EntryRow /\ \A e \in entries' : e \in entries BY DEF ShelfInv, ShelfTypes
<1> QED BY <1>1, <1>2, ReaderMoves, Zenon

LEMMA OpenPageStep == ASSUME ShelfInv, NEW s \in Shoppers, NEW p \in Pages, OpenPage(s, p) PROVE ShelfInv'
<1>1. PICK st \in {"city", "get", "revision"} :
        /\ cache = "home" => st = "city"
        /\ cache = "product" => st = "get"
        /\ cache = "category" => st = "revision"
        /\ Step(s, [NoRead EXCEPT !.page = p, !.step = st])
 <2>1. CASE cache = "home"
  BY <2>1, Zenon DEF OpenPage
 <2>2. CASE cache = "product"
  BY <2>2, Zenon DEF OpenPage
 <2>3. CASE cache = "category"
  BY <2>3, Zenon DEF OpenPage
 <2> QED BY <2>1, <2>2, <2>3 DEF ShelfInv, ShelfTypes, Caches
<1>2. PICK r : r = [NoRead EXCEPT !.page = p, !.step = st] OBVIOUS
<1>3. p \in Cities \cup {"all"} BY DEF Pages
<1>4. r \in ReadRow /\ r.page = p /\ r.step = st /\ r.version = NoRead.version
 BY <1>1, <1>2, <1>3, NoReadFits DEF ReadRow
<1>5. ReadOK(r) BY <1>1, <1>4 DEF ReadOK, ShelfInv, ShelfTypes, Caches
<1>6. Step(s, r) /\ entries' = entries /\ Reads BY <1>1, <1>2 DEF OpenPage
<1> QED BY <1>4, <1>5, <1>6, ReaderSteps

LEMMA CityVersionStep == ASSUME ShelfInv, NEW s \in Shoppers, CityVersion(s) PROVE ShelfInv'
<1>0. PICK q \in ReadRow : q = shopper[s] BY DEF ShelfInv, ShelfTypes
<1>1. ReadOK(q) /\ q.step = "city" BY <1>0 DEF ShelfInv, CityVersion
<1>2. cache = "home" /\ q.page \in Cities BY <1>1 DEF ReadOK, ShelfInv, ShelfTypes, Caches, Pages
<1>3. PICK n \in Nat : n = version[q.page] BY <1>2 DEF ShelfInv, ShelfTypes
<1>v. PICK a \in Nat, b \in Nat : q.version = <<a, b>>
 BY DEF ReadRow
<1>w. PICK v : v = [q.version EXCEPT ![1] = n]
 OBVIOUS
<1>x. v = <<n, b>>
 BY <1>v, <1>w, <1>3
<1>4. PICK r : r = [q EXCEPT !.version = v, !.step = "global"] OBVIOUS
<1>5. r \in ReadRow /\ r.page = q.page /\ r.step = "global" /\ r.version[1] = n
 BY <1>v, <1>x, <1>4 DEF ReadRow
<1>6. ReadOK(r) BY <1>1, <1>2, <1>3, <1>5 DEF ReadOK
<1>7. Step(s, r) /\ entries' = entries /\ Reads BY <1>0, <1>3, <1>4, <1>w DEF CityVersion
<1> QED BY <1>5, <1>6, <1>7, ReaderSteps

LEMMA GlobalVersionStep == ASSUME ShelfInv, NEW s \in Shoppers, GlobalVersion(s) PROVE ShelfInv'
<1>0. PICK q \in ReadRow : q = shopper[s] BY DEF ShelfInv, ShelfTypes
<1>1. ReadOK(q) /\ q.step = "global" BY <1>0 DEF ShelfInv, GlobalVersion
<1>2. cache = "home" /\ q.page \in Cities BY <1>1 DEF ReadOK, ShelfInv, ShelfTypes, Caches, Pages
<1>3. PICK n \in Nat : n = version["global"] BY <1>2 DEF ShelfInv, ShelfTypes
<1>v. PICK a \in Nat, b \in Nat : q.version = <<a, b>>
 BY DEF ReadRow
<1>w. PICK v : v = [q.version EXCEPT ![2] = n]
 OBVIOUS
<1>x. v = <<a, n>>
 BY <1>v, <1>w, <1>3
<1>4. PICK r : r = [q EXCEPT !.version = v, !.step = "get"] OBVIOUS
<1>5. r \in ReadRow /\ r.page = q.page /\ r.step = "get" /\ r.version[1] = q.version[1] /\ r.version[2] = n
 <2>1. r \in ReadRow /\ r.page = q.page /\ r.step = "get" /\ r.version = v BY <1>v, <1>x, <1>4 DEF ReadRow
 <2> QED BY <2>1, <1>v, <1>x
<1>6. ReadOK(r) BY <1>1, <1>2, <1>3, <1>5 DEF ReadOK, NotAhead
<1>7. Step(s, r) /\ entries' = entries /\ Reads BY <1>0, <1>3, <1>4, <1>w DEF GlobalVersion
<1> QED BY <1>5, <1>6, <1>7, ReaderSteps

LEMMA ReadRevisionStep == ASSUME ShelfInv, NEW s \in Shoppers, ReadRevision(s) PROVE ShelfInv'
<1>0. PICK q \in ReadRow : q = shopper[s] BY DEF ShelfInv, ShelfTypes
<1>1. ReadOK(q) /\ q.step = "revision" BY <1>0 DEF ShelfInv, ReadRevision
<1>2. cache = "category" /\ q.page = "all" /\ Pages = {"all"}
 BY <1>1 DEF ReadOK, ShelfInv, ShelfTypes, Caches, Pages
<1>3. PICK n \in Nat : n = committed["all"] BY <1>2 DEF ShelfInv, ShelfTypes
<1>4. PICK r : r = [q EXCEPT !.version = <<n, 0>>, !.step = "get"] OBVIOUS
<1>5. r \in ReadRow /\ r.page = q.page /\ r.step = "get" /\ r.version[1] = n BY <1>4 DEF ReadRow
<1>6. ReadOK(r) BY <1>1, <1>2, <1>3, <1>5 DEF ReadOK
<1>7. Step(s, r) /\ entries' = entries /\ Reads BY <1>0, <1>3, <1>4 DEF ReadRevision, Revision
<1> QED BY <1>5, <1>6, <1>7, ReaderSteps

\* Redis is asked.
LEMMA GetStep == ASSUME ShelfInv, NEW s \in Shoppers, Get(s) PROVE ShelfInv'
<1>0. PICK q \in ReadRow : q = shopper[s] BY DEF ShelfInv, ShelfTypes
<1>1. ReadOK(q) /\ q.step = "get" BY <1>0 DEF ShelfInv, Get
<1>2. PICK d : d = IF cache = "category" THEN {committed["all"]} ELSE {} OBVIOUS
<1>3. d \in SUBSET Nat /\ (cache = "category" => committed["all"] \in d)
 BY <1>2 DEF ShelfInv, ShelfTypes, Pages
<1>4. PICK r : r = [q EXCEPT !.during = d] OBVIOUS
<1>5. r \in ReadRow /\ r.page = q.page /\ r.version = q.version /\ r.during = d BY <1>3, <1>4 DEF ReadRow
<1>6. Entry(r) \subseteq entries /\ \A e \in Entry(r) : e.version = r.version BY DEF Entry
<1>7. /\ entries' = entries /\ Reads
      /\ IF Entry(r) = {} THEN Step(s, [r EXCEPT !.step = "db"])
         ELSE \E e \in Entry(r) :
                Step(s, [r EXCEPT !.got = e.content, !.step = IF cache = "category" THEN "confirmHit" ELSE "done"])
 BY <1>0, <1>2, <1>4 DEF Get
<1>8. CASE Entry(r) = {}
 <2>1. PICK x : x = [r EXCEPT !.step = "db"] OBVIOUS
 <2>2. x \in ReadRow /\ x.page = q.page /\ x.version = q.version /\ x.during = d /\ x.step = "db"
  BY <2>1, <1>5 DEF ReadRow
 <2>3. ReadOK(x) BY <2>2, <1>1, <1>3 DEF ReadOK
 <2> QED BY <1>7, <1>8, <2>1, <2>2, <2>3, ReaderSteps
<1>9. CASE Entry(r) # {}
 <2>1. PICK e \in Entry(r), st \in {"confirmHit", "done"} :
         /\ Step(s, [r EXCEPT !.got = e.content, !.step = st])
         /\ st = IF cache = "category" THEN "confirmHit" ELSE "done"
  BY <1>7, <1>9
 <2>2. e \in EntryRow /\ EntryOK(e) /\ e.version = q.version BY <1>5, <1>6 DEF ShelfInv, ShelfTypes
 <2>3. PICK n \in Nat : n = e.content BY <2>2 DEF EntryRow
 <2>4. PICK x : x = [r EXCEPT !.got = n, !.step = st] OBVIOUS
 <2>5. x \in ReadRow /\ x.page = q.page /\ x.version = q.version /\ x.during = d /\ x.step = st /\ x.got = n
  BY <2>4, <1>5 DEF ReadRow
 <2>6. cache = "category" => ReadOK(x) BY <2>1, <2>2, <2>3, <2>5, <1>1, <1>3 DEF ReadOK, EntryOK, Explained
 <2> QED BY <1>7, <2>1, <2>3, <2>4, <2>5, <2>6, ReaderSteps
<1> QED BY <1>8, <1>9

\* The rows are read.
LEMMA ReadDbStep == ASSUME ShelfInv, NEW s \in Shoppers, ReadDb(s) PROVE ShelfInv'
<1>0. PICK q \in ReadRow : q = shopper[s] BY DEF ShelfInv, ShelfTypes
<1>1. ReadOK(q) /\ q.step = "db" BY <1>0 DEF ShelfInv, ReadDb
<1>2. q.page \in Pages BY <1>1 DEF ReadOK
<1>3. PICK n \in Nat : n = committed[q.page] BY <1>2 DEF ShelfInv, ShelfTypes
<1>4. PICK st \in {"fill", "done", "confirm"} :
        /\ st = IF cache # "category" THEN "fill" ELSE IF q.tries = ReadAttempts THEN "done" ELSE "confirm"
        /\ Step(s, [q EXCEPT !.got = n, !.qty = onHand, !.step = st])
 BY <1>0, <1>3, Zenon DEF ReadDb
<1>o. onHand \in Int
 BY DEF ShelfInv, ShelfTypes
<1>5. PICK r : r = [q EXCEPT !.got = n, !.qty = onHand, !.step = st] OBVIOUS
<1>6. r \in ReadRow /\ r.page = q.page /\ r.version = q.version /\ r.during = q.during /\ r.step = st /\ r.got = n
      /\ r.qty = onHand
 BY <1>o, <1>5 DEF ReadRow
<1>7. cache = "category" => n = committed["all"] BY <1>2, <1>3 DEF Pages
<1>8. ReadOK(r)
 <2>1. CASE cache = "category"
  BY <2>1, <1>1, <1>2, <1>3, <1>4, <1>6, <1>7 DEF ReadOK
 <2>2. CASE cache = "product"
  <3>1. Explained(r.page, r.version, r.got, r.passed, r.qty, r.moved)
   BY <2>2, <1>2, <1>3, <1>6 DEF Explained, Pages
  <3> QED BY <2>2, <3>1, <1>2, <1>4, <1>6 DEF ReadOK
 <2>3. CASE cache = "home"
  <3>1. Explained(r.page, r.version, r.got, r.passed, r.qty, r.moved)
   BY <2>3, <1>1, <1>2, <1>3, <1>6 DEF Explained, ReadOK
  <3> QED BY <2>3, <3>1, <1>2, <1>4, <1>6 DEF ReadOK
 <2> QED BY <2>1, <2>2, <2>3 DEF ShelfInv, ShelfTypes, Caches
<1>9. Step(s, r) /\ entries' = entries /\ Reads BY <1>4, <1>5 DEF ReadDb
<1> QED BY <1>6, <1>8, <1>9, ReaderSteps

\* The digest is read again.
LEMMA ConfirmStep == ASSUME ShelfInv, NEW s \in Shoppers, Confirm(s) PROVE ShelfInv'
<1>0. PICK q \in ReadRow : q = shopper[s] BY DEF ShelfInv, ShelfTypes
<1>1. ReadOK(q) /\ q.step \in {"confirm", "confirmHit"} BY <1>0 DEF ShelfInv, Confirm
<1>2. cache = "category" /\ q.page = "all" /\ Pages = {"all"}
 BY <1>1 DEF ReadOK, ShelfInv, ShelfTypes, Caches, Pages
<1>3. committed["all"] \in Nat BY <1>2 DEF ShelfInv, ShelfTypes
<1>4. PICK a \in Nat, b \in Nat : q.version = <<a, b>> BY DEF ReadRow
<1>5. entries' = entries /\ Reads BY DEF Confirm
<1>6. CASE Confirmed(q)
 <2>1. PICK st \in {"fill", "done"} : /\ st = IF q.step = "confirm" THEN "fill" ELSE "done"
                                      /\ Step(s, [q EXCEPT !.step = st])
  BY <1>0, <1>6 DEF Confirm
 <2>2. PICK r : r = [q EXCEPT !.step = st] OBVIOUS
 <2>3. r \in ReadRow /\ r.page = q.page /\ r.version = q.version /\ r.during = q.during /\ r.step = st /\ r.got = q.got
  BY <2>2 DEF ReadRow
 <2>4. q.version = <<committed["all"], 0>> BY <1>6 DEF Confirmed, Revision
 <2>5. q.got = committed["all"]
  <3>1. CASE q.step = "confirm"
   <4>1. q.version[1] <= q.got /\ q.got <= committed["all"] /\ q.got \in Nat
    BY <3>1, <1>1, <1>2 DEF ReadOK, ReadRow
   <4> QED BY <4>1, <2>4, <1>3
  <3>2. CASE q.step = "confirmHit"
   BY <3>2, <1>1, <1>2, <2>4 DEF ReadOK
  <3> QED BY <1>1, <3>1, <3>2
 <2>6. q.got \in q.during /\ committed["all"] \in q.during BY <2>5, <1>1, <1>2 DEF ReadOK
 <2>7. ReadOK(r)
  <3>1. r.version = <<r.got, 0>> BY <2>3, <2>4, <2>5
  <3>2. Explained(r.page, r.version, r.got, r.passed, r.qty, r.moved) BY <3>1, <1>2 DEF Explained
  <3>3. r.got \in r.during /\ committed["all"] \in r.during /\ r.page \in Pages BY <2>3, <2>6, <1>2
  <3> QED BY <3>2, <3>3, <2>1, <2>3, <1>2 DEF ReadOK
 <2> QED BY <1>5, <2>1, <2>2, <2>3, <2>7, ReaderSteps
<1>7. CASE ~Confirmed(q)
 <2>1. PICK n \in Nat : n = q.tries + 1 BY DEF ReadRow
 <2>2. PICK st \in {"db", "revision"} : Step(s, [q EXCEPT !.tries = n, !.step = st])
  BY <1>0, <1>7, <2>1 DEF Confirm
 <2>3. PICK r : r = [q EXCEPT !.tries = n, !.step = st] OBVIOUS
 <2>4. r \in ReadRow /\ r.page = q.page /\ r.version = q.version /\ r.during = q.during /\ r.step = st /\ r.got = q.got
  BY <2>3 DEF ReadRow
 <2>5. q.version[1] <= committed["all"]
  <3>1. CASE q.step = "confirm"
   <4>1. q.version[1] <= q.got /\ q.got <= committed["all"] /\ q.got \in Nat
    BY <3>1, <1>1, <1>2 DEF ReadOK, ReadRow
   <4> QED BY <4>1, <1>3, <1>4
  <3>2. CASE q.step = "confirmHit"
   BY <3>2, <1>1, <1>2 DEF ReadOK
  <3> QED BY <1>1, <3>1, <3>2
 <2>6. committed["all"] \in q.during BY <1>1, <1>2 DEF ReadOK
 <2>7. ReadOK(r) BY <2>2, <2>4, <2>5, <2>6, <1>2 DEF ReadOK
 <2> QED BY <1>5, <2>2, <2>3, <2>4, <2>7, ReaderSteps
<1> QED BY <1>6, <1>7

\* A reader writes to Redis what it read.
LEMMA FillStep == ASSUME ShelfInv, NEW s \in Shoppers, Fill(s) PROVE ShelfInv'
<1>0. PICK q \in ReadRow : q = shopper[s] BY DEF ShelfInv, ShelfTypes
<1>1. ReadOK(q) /\ q.step = "fill" /\ q.page \in Pages BY <1>0 DEF ShelfInv, Fill, ReadOK
<1>2. [q EXCEPT !.version = FillVersion(q)] = q BY DEF FillVersion, ReadRow
<1>3. PICK n : n = [page |-> q.page, version |-> q.version, content |-> q.got, late |-> q.passed,
                qty |-> q.qty, moved |-> q.moved]
 OBVIOUS
<1>4. n \in EntryRow BY <1>1, <1>3 DEF EntryRow, ReadRow
<1>5. EntryOK(n) BY <1>1, <1>3 DEF ReadOK, EntryOK
<1>6. entries' = (entries \ Entry(q)) \cup {n} /\ Step(s, [q EXCEPT !.step = "done"]) /\ Reads
 BY <1>0, <1>2, <1>3 DEF Fill
<1>7. entries' \subseteq EntryRow /\ \A e \in entries' : e \in entries \/ EntryOK(e)
 BY <1>4, <1>5, <1>6 DEF ShelfInv, ShelfTypes
<1>8. PICK r : r = [q EXCEPT !.step = "done"] OBVIOUS
<1>9. r \in ReadRow /\ r.step = "done" /\ r.page = q.page /\ r.got = q.got /\ r.during = q.during
 BY <1>8 DEF ReadRow
<1>10. cache = "category" => ReadOK(r) BY <1>1, <1>9 DEF ReadOK
<1>11. PICK x \in ReadRow : ReadOK(x) /\ shopper' = [shopper EXCEPT ![s] = x]
 BY <1>6, <1>8, <1>9, <1>10, StepFits
<1> QED BY <1>6, <1>7, <1>11, ReaderMoves, Zenon

LEMMA EntryExpiresStep == ASSUME ShelfInv, NEW e \in entries, EntryExpires(e) PROVE ShelfInv'
<1>0. UNCHANGED <<cache, committed, version, queue, writer, missed, silent, onHand, writes, shopper>> /\ Pages' = Pages
 BY DEF EntryExpires, Reads, Pages
<1>1. entries' \subseteq entries BY DEF EntryExpires
<1>2. ShelfTypes' BY <1>0, <1>1 DEF ShelfInv, ShelfTypes, WriteRow, EntryRow, ReadRow
<1>3. ASSUME NEW x, ReadOK(x) PROVE ReadOK(x)' BY <1>0, <1>3 DEF ReadOK, Explained, NotAhead, Excused, Pending
<1>4. ASSUME NEW x, EntryOK(x) PROVE EntryOK(x)'
 BY <1>0, <1>4 DEF EntryOK, Explained, NotAhead, Excused, Pending
<1>5. \A x \in Shoppers, y \in ReadRow : shopper'[x] = y => ReadOK(y)' BY <1>0, <1>3 DEF ShelfInv
<1>6. \A x \in entries' : EntryOK(x)' BY <1>1, <1>4 DEF ShelfInv
<1> QED BY <1>0, <1>2, <1>5, <1>6 DEF ShelfInv, ReadRow

\* A reader of a product or of a home page keeps what it knows while the counters only grow.
LEMMA ReadKept ==
    ASSUME NEW r \in ReadRow, ReadOK(r), cache' = cache, cache \in {"product", "home"},
           version \in [Cities \cup {"global"} -> Nat], version' \in [Cities \cup {"global"} -> Nat],
           \A c \in Cities \cup {"global"} : version[c] <= version'[c],
           r.step = "fill" => Explained(r.page, r.version, r.got, r.passed, r.qty, r.moved)'
    PROVE  ReadOK(r)'
<1>1. Pages' = Pages /\ cache # "category" BY DEF Pages
<1>2. ASSUME cache = "home", r.step # "idle" PROVE r.page \in Cities BY <1>2 DEF ReadOK, Pages
<1>3. r.version[1] \in Nat /\ r.version[2] \in Nat BY DEF ReadRow
<1>4. ASSUME cache = "home", r.step = "global" PROVE (r.version[1] <= version[r.page])'
 BY <1>2, <1>3, <1>4 DEF ReadOK
<1>5. ASSUME cache = "home", r.step \in {"get", "db"} PROVE NotAhead(r.page, r.version)'
 BY <1>2, <1>3, <1>5 DEF ReadOK, NotAhead
<1> QED BY <1>1, <1>4, <1>5 DEF ReadOK

\* A committed change of some pages.
LEMMA CommitStep ==
    ASSUME ShelfInv, NEW w \in Writers, NEW P \in SUBSET Pages, NEW bump \in Bumps, NEW event \in BOOLEAN,
           Commit(P, w, bump, event), cache \in {"product", "home"}, cache = "product" => P = {"all"},
           cache = "home" => event /\ bump \in Cities \cup {"global"}, onHand' \in Int
    PROVE  ShelfInv'
<1>0. UNCHANGED <<cache, version, entries, shopper, missed, silent>> /\ Pages' = Pages BY DEF Commit, Pages
<1>1. PICK n : n = [pages |-> P, bump |-> bump, event |-> event] OBVIOUS
<1>2. n \in WriteRow /\ n.pages = P /\ n.bump = bump /\ n.event = event BY <1>1 DEF WriteRow
<1>3. writer' = [writer EXCEPT ![w] = n] /\ writer[w] = NoWrite /\ writer \in [Writers -> WriteRow]
 BY <1>1 DEF Commit, ShelfInv, ShelfTypes
<1>4. /\ writer' \in [Writers -> WriteRow] /\ writer'[w] = n /\ \A x \in Writers \ {w} : writer'[x] = writer[x]
 BY <1>2, <1>3
<1>5. writes' = writes + 1 /\ writes \in Nat /\ queue \in Nat /\ queue' \in Nat /\ queue' >= queue /\ (event => queue' > 0)
 <2>1. queue' = IF event THEN queue + 1 ELSE queue BY DEF Commit, ShelfInv, ShelfTypes
 <2> QED BY <2>1 DEF Commit, ShelfInv, ShelfTypes
<1>6. /\ committed' \in [Pages -> Nat]
      /\ \A p \in Pages : committed'[p] <= writes' + 1 /\ (p \notin P => committed'[p] = committed[p])
 BY <1>5 DEF Commit, ShelfInv, ShelfTypes
<1>7. ShelfTypes'
 <2>1. cache = "home" => \A x \in Writers : writer'[x] # NoWrite => writer'[x].bump \in Cities \cup {"global"}
  BY <1>2, <1>4 DEF ShelfInv, ShelfTypes
 <2> QED BY <1>0, <1>4, <1>5, <1>6, <2>1 DEF ShelfInv, ShelfTypes, WriteRow, EntryRow, ReadRow
<1>8. /\ Excused => Excused'
      /\ cache = "product" => Excused'
 <2>1. \A x \in Writers : writer[x].pages # {} => writer'[x] = writer[x] BY <1>3, <1>4, NoWriteFits
 <2>2. Excused => Excused'
  <3>1. CASE \E x \in Writers : "all" \in writer[x].pages /\ ~writer[x].event
   BY <2>1, <3>1 DEF Excused
  <3>2. CASE queue > 0 \/ silent
   BY <1>0, <1>5, <3>2 DEF Excused
  <3> QED BY <3>1, <3>2 DEF Excused
 <2>3. cache = "product" => Excused'
  <3>1. CASE event
   BY <1>5, <3>1 DEF Excused
  <3>2. CASE ~event /\ cache = "product"
   <4>1. "all" \in writer'[w].pages /\ ~writer'[w].event BY <1>2, <1>4, <3>2
   <4> QED BY <4>1 DEF Excused
  <3> QED BY <3>1, <3>2
 <2> QED BY <2>2, <2>3
<1>9. \A p \in Pages : (Pending(p) => Pending(p)') /\ (p \in P => Pending(p)')
 BY <1>2, <1>3, <1>4, NoWriteFits DEF Pending
<1>10. ASSUME NEW p \in Pages, NEW v, NEW content, NEW late, NEW qty, NEW moved,
              Explained(p, v, content, late, qty, moved)
       PROVE  Explained(p, v, content, late, qty, moved)'
 <2>1. CASE cache = "product"
  BY <2>1, <1>0, <1>8 DEF Explained
 <2>2. CASE cache = "home"
  <3>1. NotAhead(p, v)' BY <2>2, <1>0, <1>10 DEF Explained, NotAhead
  <3>2. queue' > 0 BY <2>2, <1>5
  <3>3. ASSUME content # committed'[p], v = <<version[p], version["global"]>>
        PROVE  Pending(p)' \/ p \in missed
   BY <2>2, <1>6, <1>9, <1>10, <3>3 DEF Explained
  <3> QED BY <2>2, <1>0, <3>1, <3>2, <3>3 DEF Explained
 <2> QED BY <2>1, <2>2
<1>11. \A x \in Shoppers, r \in ReadRow : shopper'[x] = r => ReadOK(r)'
 <2>1. SUFFICES ASSUME NEW x \in Shoppers, NEW r \in ReadRow, shopper[x] = r PROVE ReadOK(r)' BY <1>0
 <2>2. ReadOK(r) BY <2>1 DEF ShelfInv
 <2>3. r.step = "fill" => Explained(r.page, r.version, r.got, r.passed, r.qty, r.moved)'
  BY <2>2, <1>10 DEF ReadOK
 <2>4. version \in [Cities \cup {"global"} -> Nat] /\ version' = version /\ cache' = cache
  BY <1>0 DEF ShelfInv, ShelfTypes
 <2>5. \A c \in Cities \cup {"global"} : version[c] <= version'[c] BY <2>4
 <2> QED BY <2>2, <2>3, <2>4, <2>5, ReadKept
<1>12. \A e \in entries' : EntryOK(e)'
 <2>1. SUFFICES ASSUME NEW e \in entries PROVE EntryOK(e)' BY <1>0
 <2>2. EntryOK(e) /\ e.page \in Pages BY DEF ShelfInv, ShelfTypes, EntryRow
 <2> QED BY <2>2, <1>10 DEF EntryOK
<1> QED BY <1>0, <1>7, <1>11, <1>12 DEF ShelfInv, ReadRow

LEMMA CategoriesChangeStep == ASSUME ShelfInv, NEW w \in Writers, CategoriesChange(w) PROVE ShelfInv'
<1>0. /\ UNCHANGED <<cache, version, entries, writer, queue, missed, silent, onHand>> /\ Pages' = Pages
      /\ cache = "category" /\ Pages = {"all"}
 BY DEF CategoriesChange, Pages
<1>1. PICK n \in Nat : n = writes + 2 /\ writes \in Nat /\ writes' = writes + 1
 BY DEF CategoriesChange, ShelfInv, ShelfTypes
<1>2. PICK old \in Nat : old = committed["all"] /\ old <= n BY <1>0, <1>1 DEF ShelfInv, ShelfTypes
<1>3. committed' \in [Pages -> Nat] /\ committed'["all"] = n
 BY <1>0, <1>1 DEF CategoriesChange, ShelfInv, ShelfTypes
<1>4. ASSUME NEW x \in Shoppers
      PROVE  /\ shopper'[x] \in ReadRow
             /\ \A r \in ReadRow : shopper'[x] = r => ReadOK(r)'
 <2>0. PICK q \in ReadRow : q = shopper[x] BY DEF ShelfInv, ShelfTypes
 <2>1. ReadOK(q) BY <2>0 DEF ShelfInv
 <2>2. PICK d \in SUBSET Nat : d = q.during \cup {n} BY DEF ReadRow
 <2>3. shopper'[x] = IF q.step \in {"db", "confirm", "confirmHit", "fill"} THEN [q EXCEPT !.during = d] ELSE q
  BY <1>1, <2>0, <2>2 DEF CategoriesChange
 <2>4. PICK r : r = shopper'[x] OBVIOUS
 <2>5. /\ r \in ReadRow /\ r.step = q.step /\ r.page = q.page /\ r.version = q.version /\ r.got = q.got
       /\ q.during \subseteq r.during
       /\ r.step \in {"db", "confirm", "confirmHit", "fill"} => n \in r.during
  BY <2>2, <2>3, <2>4 DEF ReadRow
 <2>6. r.version[1] \in Nat /\ r.got \in Nat BY <2>5 DEF ReadRow
 <2>7. r.step = "fill" => Explained(r.page, r.version, r.got, r.passed, r.qty, r.moved)'
  BY <1>0, <2>1, <2>5 DEF ReadOK, Explained
 <2>8. /\ r.step \in {"get", "db", "confirmHit"} => r.version[1] <= n
       /\ r.step = "confirm" => r.version[1] <= r.got /\ r.got <= n
  BY <1>0, <1>2, <2>1, <2>5, <2>6 DEF ReadOK
 <2>9. ReadOK(r)' BY <1>0, <1>3, <2>1, <2>5, <2>7, <2>8 DEF ReadOK
 <2> QED BY <2>4, <2>5, <2>9
<1>5. shopper' \in [Shoppers -> ReadRow]
 <2>1. shopper' = [x \in Shoppers |-> shopper'[x]] BY DEF CategoriesChange
 <2> QED BY <2>1, <1>4
<1>6. ShelfTypes' BY <1>0, <1>1, <1>3, <1>5 DEF ShelfInv, ShelfTypes, WriteRow, EntryRow, ReadRow
<1>7. \A e \in entries' : EntryOK(e)' BY <1>0 DEF ShelfInv, EntryOK, Explained
<1> QED BY <1>0, <1>4, <1>6, <1>7 DEF ShelfInv, ReadRow

\* Every entry and every page read before it goes with the keys of all pages.
LEMMA DroppedStep ==
    ASSUME ShelfInv, Dropped(Pages), cache' = cache, cache # "category", committed' = committed, version' = version,
           writes' = writes, onHand' = onHand, queue' \in Nat, silent' \in BOOLEAN, writer' \in [Writers -> WriteRow],
           \A w \in Writers : writer'[w] \in {writer[w], NoWrite}, cache = "home" => writer' = writer /\ missed' = missed
    PROVE  ShelfInv'
<1>0. Pages' = Pages /\ cache \in {"product", "home"} BY DEF Pages, ShelfInv, ShelfTypes, Caches
<1>1. entries' = {} BY DEF Dropped, ShelfInv, ShelfTypes, EntryRow
<1>2. version \in [Cities \cup {"global"} -> Nat] /\ \A c \in Cities \cup {"global"} : version[c] <= version'[c]
 BY DEF ShelfInv, ShelfTypes
<1>3. ASSUME NEW x \in Shoppers
      PROVE  /\ shopper'[x] \in ReadRow
             /\ \A r \in ReadRow : shopper'[x] = r => ReadOK(r)'
 <2>0. PICK q \in ReadRow : q = shopper[x] BY DEF ShelfInv, ShelfTypes
 <2>1. ReadOK(q) BY <2>0 DEF ShelfInv
 <2>2. shopper'[x] = IF q.page \in Pages /\ q.step = "fill" THEN [q EXCEPT !.passed = TRUE] ELSE q
  BY <2>0 DEF Dropped
 <2>3. CASE q.step = "fill"
  <3>1. PICK r : r = [q EXCEPT !.passed = TRUE] OBVIOUS
  <3>2. r \in ReadRow /\ r.step = "fill" /\ r.page = q.page /\ r.version = q.version /\ r.got = q.got /\ r.passed
       /\ r.qty = q.qty /\ r.moved = q.moved
   BY <3>1, <2>3 DEF ReadRow
  <3>3. q.page \in Pages /\ Explained(q.page, q.version, q.got, q.passed, q.qty, q.moved)
   BY <2>1, <2>3 DEF ReadOK
  <3>4. Explained(r.page, r.version, r.got, r.passed, r.qty, r.moved) BY <3>2, <3>3, <1>0 DEF Explained
  <3>5. Explained(r.page, r.version, r.got, r.passed, r.qty, r.moved)'
   BY <3>2, <3>4, <1>0 DEF Explained, NotAhead, Pending
  <3>6. ReadOK(r) BY <3>2, <3>3, <3>4, <1>0 DEF ReadOK
  <3>7. ReadOK(r)' BY <3>2, <3>5, <3>6, <1>0, <1>2, ReadKept
  <3>8. shopper'[x] = r BY <2>2, <2>3, <3>1, <3>3
  <3> QED BY <3>2, <3>7, <3>8
 <2>4. CASE q.step # "fill"
  <3>1. shopper'[x] = q BY <2>2, <2>4
  <3>2. ReadOK(q)' BY <2>1, <2>4, <1>0, <1>2, ReadKept
  <3> QED BY <3>1, <3>2
 <2> QED BY <2>3, <2>4
<1>4. shopper' \in [Shoppers -> ReadRow]
 <2>1. shopper' = [x \in Shoppers |-> shopper'[x]] BY DEF Dropped
 <2> QED BY <2>1, <1>3
<1>5. ShelfTypes' BY <1>0, <1>1, <1>4 DEF ShelfInv, ShelfTypes, WriteRow, EntryRow, ReadRow
<1> QED BY <1>0, <1>1, <1>3, <1>5 DEF ShelfInv, ReadRow

LEMMA InvalidateProductCacheStep == ASSUME ShelfInv, NEW w \in Writers, InvalidateProductCache(w) PROVE ShelfInv'
<1>1. Pages = {"all"} /\ cache = "product" BY DEF Pages, InvalidateProductCache
<1>2. writer' \in [Writers -> WriteRow] /\ \A x \in Writers : writer'[x] \in {writer[x], NoWrite}
 BY NoWriteFits DEF InvalidateProductCache, ShelfInv, ShelfTypes
<1>3. queue' \in Nat /\ silent' \in BOOLEAN BY DEF InvalidateProductCache, ShelfInv, ShelfTypes
<1> QED BY <1>1, <1>2, <1>3, DroppedStep DEF InvalidateProductCache

LEMMA HandleInvalidationStep == ASSUME ShelfInv, HandleInvalidation PROVE ShelfInv'
<1>1. queue' \in Nat /\ cache # "category" BY DEF HandleInvalidation, ShelfInv, ShelfTypes
<1>2. silent' \in BOOLEAN /\ Dropped(Pages) /\ cache' = cache /\ committed' = committed /\ version' = version
      /\ writes' = writes /\ onHand' = onHand /\ writer' = writer /\ missed' = missed /\ writer \in [Writers -> WriteRow]
 BY DEF HandleInvalidation, EventTargets, ShelfInv, ShelfTypes
<1>3. \A x \in Writers : writer'[x] \in {writer[x], NoWrite} BY <1>2
<1> QED BY <1>1, <1>2, <1>3, DroppedStep

\* The counter a writer increments leaves every page it covers behind.
LEMMA BumpStep == ASSUME ShelfInv, NEW w \in Writers, Bump(w) PROVE ShelfInv'
<1>0. /\ UNCHANGED <<cache, committed, entries, shopper, queue, silent, onHand, writes>> /\ Pages' = Pages
      /\ cache = "home" /\ Pages = Cities
 BY DEF Bump, Pages
<1>1. PICK b \in Cities \cup {"global"} : b = writer[w].bump BY <1>0 DEF Bump, ShelfInv, ShelfTypes
<1>2. version' = [version EXCEPT ![b] = version[b] + 1] /\ version \in [Cities \cup {"global"} -> Nat]
 BY <1>1 DEF Bump, ShelfInv, ShelfTypes
<1>3. /\ version' \in [Cities \cup {"global"} -> Nat] /\ version'[b] = version[b] + 1
      /\ \A c \in Cities \cup {"global"} : version[c] <= version'[c] /\ (c # b => version'[c] = version[c])
 BY <1>2
<1>4. /\ writer' \in [Writers -> WriteRow] /\ writer'[w] = NoWrite
      /\ \A x \in Writers \ {w} : writer'[x] = writer[x]
 BY NoWriteFits DEF Bump, ShelfInv, ShelfTypes
<1>5. ShelfTypes'
 <2>1. \A x \in Writers : writer'[x] # NoWrite => writer'[x].bump \in Cities \cup {"global"}
  BY <1>0, <1>4 DEF ShelfInv, ShelfTypes
 <2> QED BY <1>0, <1>3, <1>4, <2>1 DEF ShelfInv, ShelfTypes, WriteRow, EntryRow, ReadRow
<1>6. ASSUME NEW p \in Cities, p \notin SlotPages(b), Pending(p) \/ p \in missed
      PROVE  Pending(p)' \/ p \in missed'
 <2>1. missed' = (missed \ SlotPages(b)) \cup (writer[w].pages \ SlotPages(b)) BY <1>1 DEF Bump
 <2>2. CASE p \in missed \/ p \in writer[w].pages
  BY <1>6, <2>1, <2>2
 <2>3. CASE \E x \in Writers \ {w} : p \in writer[x].pages
  BY <1>4, <2>3 DEF Pending
 <2> QED BY <1>6, <2>2, <2>3 DEF Pending
<1>7. ASSUME NEW p \in Cities, NEW v \in Nat \X Nat, NEW content, NEW late, NEW qty, NEW moved,
              Explained(p, v, content, late, qty, moved)
      PROVE  Explained(p, v, content, late, qty, moved)'
 <2>0. PICK v1 \in Nat, v2 \in Nat : v = <<v1, v2>> OBVIOUS
 <2>1. v1 <= version[p] /\ v2 <= version["global"] BY <1>0, <1>7, <2>0 DEF Explained, NotAhead
 <2>2. NotAhead(p, v)' BY <1>2, <1>3, <2>0, <2>1 DEF NotAhead
 <2>3. ASSUME v = <<version'[p], version'["global"]>> PROVE v = <<version[p], version["global"]>> /\ p \notin SlotPages(b)
  <3>1. v1 = version'[p] /\ v2 = version'["global"] BY <2>0, <2>3
  <3>2. b # p /\ b # "global" BY <1>2, <1>3, <2>1, <3>1
  <3>3. version'[p] = version[p] /\ version'["global"] = version["global"] BY <1>3, <3>2
  <3> QED BY <2>3, <3>2, <3>3 DEF SlotPages
 <2>4. ASSUME content # committed[p], v = <<version'[p], version'["global"]>> PROVE Pending(p)' \/ p \in missed'
  <3>1. Pending(p) \/ p \in missed BY <1>0, <1>7, <2>3, <2>4 DEF Explained
  <3> QED BY <1>6, <2>3, <2>4, <3>1
 <2> QED BY <1>0, <1>7, <2>2, <2>4 DEF Explained
<1>11. \A x \in Shoppers, r \in ReadRow : shopper'[x] = r => ReadOK(r)'
 <2>1. SUFFICES ASSUME NEW x \in Shoppers, NEW r \in ReadRow, shopper[x] = r PROVE ReadOK(r)' BY <1>0
 <2>2. ReadOK(r) /\ r.version \in Nat \X Nat BY <2>1 DEF ShelfInv, ReadRow
 <2>3. r.step = "fill" => Explained(r.page, r.version, r.got, r.passed, r.qty, r.moved)'
  BY <2>2, <1>0, <1>7 DEF ReadOK
 <2> QED BY <2>2, <2>3, <1>0, <1>2, <1>3, ReadKept
<1>12. \A e \in entries' : EntryOK(e)'
 <2>1. SUFFICES ASSUME NEW e \in entries PROVE EntryOK(e)' BY <1>0
 <2>2. EntryOK(e) /\ e.page \in Cities /\ e.version \in Nat \X Nat BY <1>0 DEF ShelfInv, ShelfTypes, EntryRow
 <2> QED BY <2>2, <1>7 DEF EntryOK
<1> QED BY <1>0, <1>5, <1>11, <1>12 DEF ShelfInv, ReadRow

\* A writer is gone: its pages are missed, and silently when it wrote no event.
LEMMA WriterDiesStep == ASSUME ShelfInv, NEW w \in Writers, WriterDies(w) PROVE ShelfInv'
<1>0. UNCHANGED <<cache, committed, version, entries, shopper, queue, onHand, writes>> /\ Pages' = Pages
 BY DEF WriterDies, Pages
<1>1. PICK n \in WriteRow : n = writer[w] BY DEF ShelfInv, ShelfTypes
<1>2. missed' = missed \cup n.pages /\ silent' = (silent \/ ~n.event) BY <1>1 DEF WriterDies
<1>3. silent' \in BOOLEAN BY <1>2 DEF ShelfInv, ShelfTypes, WriteRow
<1>4. /\ writer' \in [Writers -> WriteRow] /\ writer'[w] = NoWrite
      /\ \A x \in Writers \ {w} : writer'[x] = writer[x]
 BY NoWriteFits DEF WriterDies, ShelfInv, ShelfTypes
<1>5. ShelfTypes'
 <2>1. cache = "home" => \A x \in Writers : writer'[x] # NoWrite => writer'[x].bump \in Cities \cup {"global"}
  BY <1>0, <1>4 DEF ShelfInv, ShelfTypes
 <2> QED BY <1>0, <1>3, <1>4, <2>1 DEF ShelfInv, ShelfTypes, WriteRow, EntryRow, ReadRow
<1>6. \A p \in Pages : Pending(p) \/ p \in missed => Pending(p)' \/ p \in missed'
 BY <1>1, <1>2, <1>4 DEF Pending
<1>7. Excused => Excused'
 <2>1. CASE "all" \in n.pages /\ ~n.event
  BY <1>2, <2>1 DEF Excused
 <2>2. CASE \E x \in Writers \ {w} : "all" \in writer[x].pages /\ ~writer[x].event
  BY <1>4, <2>2 DEF Excused
 <2>3. CASE queue > 0 \/ silent
  BY <1>0, <1>2, <2>3 DEF Excused
 <2> QED BY <1>1, <2>1, <2>2, <2>3 DEF Excused
<1>8. ASSUME NEW p \in Pages, NEW v, NEW content, NEW late, NEW qty, NEW moved,
              Explained(p, v, content, late, qty, moved)
      PROVE  Explained(p, v, content, late, qty, moved)'
 BY <1>0, <1>6, <1>7, <1>8 DEF Explained, NotAhead
<1>9. ASSUME NEW r \in ReadRow, ReadOK(r) PROVE ReadOK(r)'
 <2>1. r.step = "fill" => Explained(r.page, r.version, r.got, r.passed, r.qty, r.moved)'
  BY <1>8, <1>9 DEF ReadOK
 <2> QED BY <1>0, <1>9, <2>1 DEF ReadOK, NotAhead
<1>11. \A x \in Shoppers, r \in ReadRow : shopper'[x] = r => ReadOK(r)' BY <1>0, <1>9 DEF ShelfInv
<1>12. \A e \in entries' : EntryOK(e)'
 <2>1. SUFFICES ASSUME NEW e \in entries PROVE EntryOK(e)' BY <1>0
 <2>2. EntryOK(e) /\ e.page \in Pages BY DEF ShelfInv, ShelfTypes, EntryRow
 <2> QED BY <2>2, <1>8 DEF EntryOK
<1> QED BY <1>0, <1>5, <1>11, <1>12 DEF ShelfInv, ReadRow

\* The stock moves: every page that is there or on its way knows it.
LEMMA StockMovesStep == ASSUME ShelfInv, NEW d \in {-1, 1}, StockMoves(d) PROVE ShelfInv'
<1>0. /\ UNCHANGED <<cache, committed, version, writer, queue, missed, silent>> /\ Pages' = Pages
      /\ cache = "product"
 BY DEF StockMoves, Pages
<1>1. writes' = writes + 1 /\ writes \in Nat /\ onHand' \in Int
 BY DEF StockMoves, Stocked, ShelfInv, ShelfTypes
<1>2. ASSUME NEW e \in entries' PROVE e \in EntryRow /\ EntryOK(e)'
 <2>1. PICK f \in entries : e = [f EXCEPT !.moved = TRUE] BY <1>2 DEF StockMoves
 <2>2. f \in EntryRow /\ EntryOK(f) BY DEF ShelfInv, ShelfTypes
 <2>3. e \in EntryRow /\ e.page = f.page /\ e.version = f.version /\ e.content = f.content /\ e.late = f.late /\ e.moved
  BY <2>1, <2>2 DEF EntryRow
 <2> QED BY <1>0, <2>2, <2>3 DEF EntryOK, Explained, Excused
<1>3. ASSUME NEW x \in Shoppers
      PROVE  /\ shopper'[x] \in ReadRow
             /\ \A r \in ReadRow : shopper'[x] = r => ReadOK(r)'
 <2>0. PICK q \in ReadRow : q = shopper[x] BY DEF ShelfInv, ShelfTypes
 <2>1. ReadOK(q) BY <2>0 DEF ShelfInv
 <2>2. shopper'[x] = IF q.step = "fill" THEN [q EXCEPT !.moved = TRUE] ELSE q BY <2>0 DEF StockMoves
 <2>3. PICK r : r = shopper'[x] OBVIOUS
 <2>4. /\ r \in ReadRow /\ r.step = q.step /\ r.page = q.page /\ r.version = q.version /\ r.got = q.got
       /\ r.passed = q.passed /\ (r.step = "fill" => r.moved)
  BY <2>2, <2>3 DEF ReadRow
 <2>5. r.step = "fill" => Explained(r.page, r.version, r.got, r.passed, r.qty, r.moved)'
  BY <1>0, <2>1, <2>4 DEF ReadOK, Explained, Excused
 <2>6. ReadOK(r)' BY <1>0, <2>1, <2>4, <2>5 DEF ReadOK
 <2> QED BY <2>3, <2>4, <2>6
<1>4. shopper' \in [Shoppers -> ReadRow]
 <2>1. shopper' = [x \in Shoppers |-> shopper'[x]] BY DEF StockMoves
 <2> QED BY <2>1, <1>3
<1>5. ShelfTypes' BY <1>0, <1>1, <1>2, <1>4 DEF ShelfInv, ShelfTypes, WriteRow, EntryRow, ReadRow
<1> QED BY <1>0, <1>2, <1>3, <1>5 DEF ShelfInv, ReadRow

\* Nothing happens on the shelf.
LEMMA ShelfRests == ASSUME ShelfInv, UNCHANGED shelfVars PROVE ShelfInv'
BY DEF shelfVars, ShelfInv, ShelfTypes, ReadOK, EntryOK, Explained, NotAhead, Excused, Pending, Pages,
       ReadRow, WriteRow, EntryRow

LEMMA ShelfKept == ASSUME ShelfInv, [ShelfNext]_shelfVars PROVE ShelfInv'
<1>1. ASSUME NEW s \in Shoppers, NEW p \in Pages, OpenPage(s, p) PROVE ShelfInv' BY <1>1, OpenPageStep
<1>2. ASSUME NEW s \in Shoppers, CityVersion(s) \/ GlobalVersion(s) \/ ReadRevision(s) PROVE ShelfInv'
 BY <1>2, CityVersionStep, GlobalVersionStep, ReadRevisionStep
<1>3. ASSUME NEW s \in Shoppers, Get(s) \/ ReadDb(s) \/ Confirm(s) \/ Fill(s) PROVE ShelfInv'
 BY <1>3, GetStep, ReadDbStep, ConfirmStep, FillStep
<1>4. ASSUME NEW e \in entries, EntryExpires(e) PROVE ShelfInv' BY <1>4, EntryExpiresStep
<1>5. ASSUME NEW w \in Writers, cache = "product", onHand' \in Int,
             \/ Commit({"all"}, w, "global", TRUE)
             \/ Commit({"all"}, w, "city", FALSE)
      PROVE  ShelfInv'
 <2>1. {"all"} \in SUBSET Pages /\ "global" \in Bumps /\ "city" \in Bumps BY <1>5 DEF Pages, Bumps
 <2>2. CASE Commit({"all"}, w, "global", TRUE)
  BY <1>5, <2>1, <2>2, CommitStep
 <2>3. CASE Commit({"all"}, w, "city", FALSE)
  BY <1>5, <2>1, <2>3, CommitStep
 <2> QED BY <1>5, <2>2, <2>3
<1>o. onHand \in Int /\ (UNCHANGED onHand \/ (\E d \in {-1, 1} : Stocked(d)) => onHand' \in Int)
 BY DEF Stocked, ShelfInv, ShelfTypes
<1>6. ASSUME NEW w \in Writers, CreateShopProduct(w) \/ UpdateShopProduct(w) \/ UpdateBusinessStatus(w) \/ UpdateProduct(w)
      PROVE  ShelfInv'
 BY <1>5, <1>6, <1>o DEF CreateShopProduct, UpdateShopProduct, UpdateBusinessStatus, UpdateProduct
<1>7. ASSUME NEW w \in Writers, NEW d \in {-1, 1}, StoreAdjustStock(w, d) \/ AdminAdjustStock(w, d)
      PROVE  ShelfInv'
 BY <1>5, <1>7, <1>o DEF StoreAdjustStock, AdminAdjustStock
<1>8. ASSUME NEW w \in Writers, NEW c \in Cities \cup {"global"}, NEW from \in Cities \cup {"global"},
             WriteSlot(w, c) \/ MoveSlot(w, from, c)
      PROVE  ShelfInv'
 <2>1. cache = "home" BY <1>8 DEF WriteSlot, MoveSlot
 <2>2. SlotPages(c) \in SUBSET Pages /\ SlotPages(from) \cup SlotPages(c) \in SUBSET Pages /\ c \in Bumps
  BY <2>1 DEF SlotPages, Pages, Bumps
 <2>3. CASE WriteSlot(w, c)
  BY <2>1, <2>2, <2>3, <1>o, CommitStep DEF WriteSlot
 <2>4. CASE MoveSlot(w, from, c)
  BY <2>1, <2>2, <2>4, <1>o, CommitStep DEF MoveSlot
 <2> QED BY <1>8, <2>3, <2>4
<1>9. ASSUME NEW w \in Writers, CategoriesChange(w) \/ InvalidateProductCache(w) \/ Bump(w) \/ WriterDies(w)
      PROVE  ShelfInv'
 BY <1>9, CategoriesChangeStep, InvalidateProductCacheStep, BumpStep, WriterDiesStep
<1>10. CASE HandleInvalidation
 BY <1>10, HandleInvalidationStep
<1>11. CASE UNCHANGED shelfVars
 BY <1>11, ShelfRests
<1>m. ASSUME OrderReserves \/ OrderReleases \/ ReplacementReserved \/ CaseRestocks \/ ReturnRestocks \/ RedemptionMovesStock
      PROVE  ShelfInv'
 BY <1>m, StockMovesStep DEF OrderReserves, OrderReleases, ReplacementReserved, CaseRestocks, ReturnRestocks, RedemptionMovesStock
<1>12. CASE ShelfNext
 BY <1>12, <1>1, <1>2, <1>3, <1>4, <1>6, <1>7, <1>8, <1>9, <1>10, <1>m, Zenon DEF ShelfNext
<1> QED BY <1>11, <1>12

----------------------------------------
(* The published content.  A row an administrator looks at with the *)
(* version it has now holds the content it has now; that is why approving *)
(* by version approves the content. *)
PaperStatuses  == {"none", "draft", "validated", "published", "unpublished", "retired", "active", "disabled"}
Wordings  == {"", "a", "b"}
PaperRows == [status : PaperStatuses, content : Wordings, version : Nat, at : Nat]
Sights    == [id : {0} \cup Papers, row : PaperRows]

PubTypes ==
    /\ topic \in Topics /\ hour \in Nat /\ paper \in [Papers -> PaperRows] /\ approved \in [Papers -> Wordings]
    /\ desk \in [Admins -> Sights] /\ shown \in Sights
    /\ bound \in {-1, 0} \cup Papers /\ (topic # "promise" => bound = -1)

\* The rows there are come first.
Filed == \E n \in 0..PaperBound : \A d \in Papers : paper[d].status # "none" <=> d <= n

InForce == \A d \in Papers :
    /\ paper[d].status \in {"published", "active"} /\ topic # "promise" => paper[d].content = approved[d]
    /\ paper[d].status = "active" => topic = "rule"
OnePublished == topic \in {"package", "policy", "promise"} => \A d, e \in Published : d = e
BoundToPublished == bound > 0 \/ (bound = 0 /\ Published # {}) => bound \in Published
RulesInForce == topic = "rule" => EffectiveRules = force

SightOK(s) == s.id # 0 =>
    /\ paper[s.id].status # "none" /\ s.row.version <= paper[s.id].version
    /\ topic # "promise" /\ s.row.version = paper[s.id].version => s.row.content = paper[s.id].content
    /\ topic = "rule" => s.row.content = paper[s.id].content

ShownOK(s) == s.id # 0 =>
    /\ topic = "package" /\ paper[s.id].status \in {"published", "unpublished"}
    /\ s.row.content = paper[s.id].content

PubInv ==
    /\ PubTypes /\ Filed /\ InForce /\ OnePublished /\ BoundToPublished /\ RulesInForce
    /\ \A a \in Admins, s \in Sights : desk[a] = s => SightOK(s)
    /\ \A s \in Sights : shown = s => ShownOK(s)
    /\ \A s \in deals : s.seen = s.charged

LEMMA NoPaperFits == NoPaper \in PaperRows /\ NoPaper.status = "none"
BY DEF NoPaper, PaperRows, PaperStatuses, Wordings

LEMMA NoSightFits == NoSight \in Sights /\ NoSight.id = 0
BY NoPaperFits DEF NoSight, Sights

LEMMA PubInitially == PubInit => PubInv
<1> SUFFICES ASSUME PubInit PROVE PubInv
 OBVIOUS
<1>1. /\ \A d \in Papers : paper[d] = NoPaper
      /\ \A a \in Admins : desk[a] = NoSight
      /\ shown = NoSight
 BY DEF PubInit
<1>2. Published = {} BY <1>1, NoPaperFits DEF Published
<1>3. PubTypes
 <2>1. paper \in [Papers -> PaperRows] /\ desk \in [Admins -> Sights] /\ shown \in Sights
  BY NoPaperFits, NoSightFits DEF PubInit
 <2>2. approved \in [Papers -> Wordings] /\ hour \in Nat /\ topic \in Topics BY DEF PubInit, Wordings
 <2>3. bound \in {-1, 0} /\ (topic # "promise" => bound = -1) BY DEF PubInit
 <2> QED BY <2>1, <2>2, <2>3 DEF PubTypes
<1>4. Filed
 <2>1. 0 \in 0..PaperBound /\ \A d \in Papers : ~(d <= 0) BY PubAssumption DEF Papers
 <2> QED BY <1>1, <2>1, NoPaperFits DEF Filed
<1>5. InForce BY <1>1, NoPaperFits DEF InForce
<1>6. OnePublished /\ BoundToPublished
 <2>1. bound \in {-1, 0} BY DEF PubInit
 <2> QED BY <1>2, <2>1 DEF OnePublished, BoundToPublished
<1>7. RulesInForce
 <2>1. {d \in Papers : paper[d].status = "active" /\ paper[d].at <= hour} = {} BY <1>1, NoPaperFits
 <2> QED BY <2>1 DEF RulesInForce, EffectiveRules, PubInit
<1>8. \A a \in Admins, s \in Sights : desk[a] = s => SightOK(s) BY <1>1, NoSightFits DEF SightOK
<1>9. \A s \in Sights : shown = s => ShownOK(s) BY <1>1, NoSightFits DEF ShownOK
<1>10. \A s \in deals : s.seen = s.charged BY DEF PubInit
<1> QED BY <1>3, <1>4, <1>5, <1>6, <1>7, <1>8, <1>9, <1>10 DEF PubInv

LEMMA PubInvImplies == PubInv => PublishedIsApproved
<1> SUFFICES ASSUME PubInv PROVE PublishedIsApproved
 OBVIOUS
<1>1. \A d \in Papers : paper[d].content # "malformed" BY DEF PubInv, PubTypes, PaperRows, Wordings
<1>2. ASSUME topic \in {"package", "policy", "promise"} PROVE Cardinality(Published) <= 1
 <2>1. \A d, e \in Published : d = e BY <1>2 DEF PubInv, OnePublished
 <2>2. CASE Published = {}
  BY <2>2, FS_EmptySet
 <2>3. CASE Published # {}
  <3>1. PICK d : Published = {d} BY <2>1, <2>3
  <3> QED BY <3>1, FS_Singleton
 <2> QED BY <2>2, <2>3
<1> QED BY <1>1, <1>2 DEF PubInv, PublishedIsApproved, InForce, BoundToPublished, RulesInForce

\* How a row that is there may change.
GoesOn(d) == paper[d].status # "none" =>
    /\ paper'[d].status # "none" /\ paper[d].version <= paper'[d].version
    /\ topic # "promise" /\ paper'[d].version = paper[d].version => paper'[d].content = paper[d].content
    /\ topic = "rule" => paper'[d].content = paper[d].content
    /\ topic = "package" /\ paper[d].status \in {"published", "unpublished"}
         => paper'[d].status \in {"published", "unpublished"} /\ paper'[d].content = paper[d].content

\* What was seen of a row stays true as the row goes on.
LEMMA SightKept ==
    ASSUME PubTypes, PubTypes', topic' = topic, \A d \in Papers : GoesOn(d), NEW s \in Sights, SightOK(s)
    PROVE  SightOK(s)'
<1>1. CASE s.id = 0
 BY <1>1 DEF SightOK
<1>2. CASE s.id # 0
 <2>1. PICK d \in Papers : d = s.id BY <1>2 DEF Sights
 <2>2. PICK v \in Nat, v1 \in Nat, v2 \in Nat : v = s.row.version /\ v1 = paper[d].version /\ v2 = paper'[d].version
  BY DEF Sights, PubTypes, PaperRows
 <2>3. paper[d].status # "none" /\ v <= v1 BY <1>2, <2>1, <2>2 DEF SightOK
 <2>4. paper'[d].status # "none" /\ v1 <= v2 BY <2>2, <2>3 DEF GoesOn
 <2>5. ASSUME topic # "promise", v = v2 PROVE s.row.content = paper'[d].content
  <3>1. v = v1 /\ v1 = v2 BY <2>3, <2>4, <2>5
  <3> QED BY <1>2, <2>1, <2>2, <2>3, <2>5, <3>1 DEF SightOK, GoesOn
 <2>6. v <= v2 BY <2>3, <2>4
 <2>7. topic = "rule" => s.row.content = paper'[d].content BY <1>2, <2>1, <2>3 DEF SightOK, GoesOn
 <2> QED BY <2>1, <2>2, <2>4, <2>5, <2>6, <2>7 DEF SightOK
<1> QED BY <1>1, <1>2

LEMMA ShownKept ==
    ASSUME PubTypes, topic' = topic, \A d \in Papers : GoesOn(d), NEW s \in Sights, ShownOK(s)
    PROVE  ShownOK(s)'
<1>1. CASE s.id = 0
 BY <1>1 DEF ShownOK
<1>2. CASE s.id # 0
 <2>1. PICK d \in Papers : d = s.id BY <1>2 DEF Sights
 <2>2. topic = "package" /\ paper[d].status \in {"published", "unpublished"} /\ s.row.content = paper[d].content
  BY <1>2, <2>1 DEF ShownOK
 <2>3. paper'[d].status \in {"published", "unpublished"} /\ paper'[d].content = paper[d].content
  BY <2>2 DEF GoesOn
 <2> QED BY <2>1, <2>2, <2>3 DEF ShownOK
<1> QED BY <1>1, <1>2

\* An administrator changes rows, each as it may, and is shown one of them.
LEMMA PapersChange ==
    ASSUME PubInv, NEW a \in Admins, NEW d \in Papers,
           topic' = topic, shown' = shown, deals' = deals, hour' = hour,
           paper' \in [Papers -> PaperRows], approved' \in [Papers -> Wordings], \A e \in Papers : GoesOn(e),
           paper'[d].status # "none", Shows(a, d), bound' \in {-1, 0} \cup Papers, topic # "promise" => bound' = -1,
           Filed', InForce', OnePublished', BoundToPublished', RulesInForce'
    PROVE  PubInv'
<1>1. PICK n : n = [id |-> d, row |-> paper'[d]] OBVIOUS
<1>2. n \in Sights /\ n.id = d /\ n.row = paper'[d] BY <1>1 DEF Sights
<1>3. desk' = [desk EXCEPT ![a] = n] /\ desk \in [Admins -> Sights] BY <1>1 DEF Shows, PubInv, PubTypes
<1>4. desk' \in [Admins -> Sights] /\ \A x \in Admins : desk'[x] \in {n, desk[x]} BY <1>2, <1>3
<1>5. PubTypes'
 <2>1. topic' \in Topics /\ hour' \in Nat /\ shown' \in Sights BY DEF PubInv, PubTypes
 <2> QED BY <1>4, <2>1 DEF PubTypes
<1>6. SightOK(n)'
 <2>1. n.row.version = paper'[d].version /\ n.row.version \in Nat BY <1>2 DEF Sights, PaperRows
 <2> QED BY <1>2, <2>1 DEF SightOK
<1>7. \A x \in Admins, s \in Sights : desk'[x] = s => SightOK(s)'
 <2>1. SUFFICES ASSUME NEW x \in Admins, NEW s \in Sights, desk'[x] = s PROVE SightOK(s)' OBVIOUS
 <2>2. CASE s = n
  BY <1>6, <2>2
 <2>3. CASE s = desk[x]
  <3>1. SightOK(s) BY <2>3 DEF PubInv
  <3> QED BY <3>1, <1>5, SightKept DEF PubInv
 <2> QED BY <1>4, <2>1, <2>2, <2>3
<1>8. \A s \in Sights : shown' = s => ShownOK(s)'
 <2>1. SUFFICES ASSUME NEW s \in Sights, shown = s PROVE ShownOK(s)' OBVIOUS
 <2>2. ShownOK(s) BY <2>1 DEF PubInv
 <2> QED BY <2>2, ShownKept DEF PubInv
<1>9. \A s \in deals' : s.seen = s.charged BY DEF PubInv
<1> QED BY <1>5, <1>7, <1>8, <1>9 DEF PubInv, Sights, Papers

\* The rules in force depend on the active rows only.
LEMMA RulesSame ==
    ASSUME hour' = hour,
           \A e \in Papers : paper'[e].status = "active" <=> paper[e].status = "active",
           \A e \in Papers : paper[e].status = "active" => paper'[e].at = paper[e].at
    PROVE  EffectiveRules' = EffectiveRules
<1> DEFINE past == {d \in Papers : paper[d].status = "active" /\ paper[d].at <= hour}
           late == {d \in past : \A e \in past : paper[e].at <= paper[d].at}
<1>1. past' = past BY DEF Papers
<1>2. late' = late BY <1>1
<1>3. EffectiveRules = IF past = {} THEN 0 ELSE Max(late) BY DEF EffectiveRules
<1>4. EffectiveRules' = IF past' = {} THEN 0 ELSE Max(late') BY DEF EffectiveRules
<1> HIDE DEF past, late
<1> QED BY <1>1, <1>2, <1>3, <1>4

\* A new row.
LEMMA InsertStep ==
    ASSUME PubInv, NEW a \in Admins, NEW c \in {"a", "b"}, NEW at \in Nat, InsertPaper(a, c, at)
    PROVE  PubInv'
<1>1. PICK n \in 0..PaperBound : \A e \in Papers : paper[e].status # "none" <=> e <= n BY DEF PubInv, Filed
<1>2. n \in Nat /\ n <= PaperBound BY <1>1, PubAssumption
<1>3. {p \in Papers : paper[p].status # "none"} = 1..n BY <1>1, <1>2, PubAssumption DEF Papers
<1>4. Cardinality(1..n) = n BY <1>2, FS_Interval
<1>5. PICK d \in Papers : d = n + 1 BY <1>2, <1>3, <1>4 DEF InsertPaper
<1>r. PICK sheet : sheet = [status |-> "draft", content |-> c, version |-> 1, at |-> at]
 OBVIOUS
<1>6. sheet \in PaperRows /\ sheet.status = "draft" BY <1>r DEF PaperRows, PaperStatuses, Wordings
<1>7. /\ paper' = [paper EXCEPT ![d] = sheet] /\ Shows(a, d)
      /\ UNCHANGED <<topic, approved, hour, linked, bound, force, shown, deals>>
 BY <1>3, <1>4, <1>5, <1>r DEF InsertPaper
<1>8. paper \in [Papers -> PaperRows] /\ paper[d].status = "none"
 <2>1. ~(d <= n) BY <1>2, <1>5
 <2> QED BY <1>1, <2>1 DEF PubInv, PubTypes
<1>9. /\ paper' \in [Papers -> PaperRows] /\ paper'[d] = sheet /\ \A e \in Papers \ {d} : paper'[e] = paper[e]
 BY <1>6, <1>7, <1>8
<1>10. Published' = Published BY <1>6, <1>8, <1>9 DEF Published, Papers
<1>11. \A e \in Papers : GoesOn(e)
 <2>1. SUFFICES ASSUME NEW e \in Papers, paper[e].status # "none" PROVE GoesOn(e) BY DEF GoesOn
 <2>2. paper'[e] = paper[e] /\ paper[e].version \in Nat BY <1>8, <1>9, <2>1 DEF PaperRows
 <2> QED BY <2>1, <2>2 DEF GoesOn
<1>12. Filed'
 <2>1. PICK m \in 0..PaperBound : m = n + 1 BY <1>2, <1>5, PubAssumption DEF Papers
 <2>2. \A e \in Papers : paper'[e].status # "none" <=> e <= m
  BY <1>1, <1>2, <1>5, <1>6, <1>9, <2>1, PubAssumption DEF Papers
 <2> QED BY <2>2 DEF Filed, Papers
<1>13. InForce' BY <1>6, <1>7, <1>9 DEF PubInv, InForce, Papers
<1>14. OnePublished' /\ BoundToPublished' BY <1>7, <1>10 DEF PubInv, OnePublished, BoundToPublished
<1>15. RulesInForce'
 <2>1. /\ \A e \in Papers : paper'[e].status = "active" <=> paper[e].status = "active"
       /\ \A e \in Papers : paper[e].status = "active" => paper'[e].at = paper[e].at
  BY <1>6, <1>8, <1>9
 <2>2. EffectiveRules' = EffectiveRules BY <1>7, <2>1, RulesSame
 <2> QED BY <1>7, <2>2 DEF PubInv, RulesInForce
<1>16. approved' \in [Papers -> Wordings] /\ bound' \in {-1, 0} \cup Papers /\ (topic # "promise" => bound' = -1)
 BY <1>7 DEF PubInv, PubTypes
<1>17. paper'[d].status # "none" BY <1>6, <1>9
<1> QED BY <1>7, <1>9, <1>11, <1>12, <1>13, <1>14, <1>15, <1>16, <1>17, PapersChange

\* One row is changed by somebody who looks at it. (Rule sets change several.)
LEMMA WriteStep ==
    ASSUME PubInv, NEW a \in Admins, desk[a].id # 0, topic # "rule", NEW sheet \in PaperRows, Write(a, sheet),
           bound' = bound, approved' \in [Papers -> Wordings], \A e \in Papers \ {Mine(a)} : approved'[e] = approved[e],
           sheet.status \notin {"none", "active"}, PaperRow(a).version <= sheet.version,
           topic # "promise" /\ sheet.version = PaperRow(a).version => sheet.content = PaperRow(a).content,
           topic = "package" /\ PaperRow(a).status \in {"published", "unpublished"}
             => sheet.status = "unpublished" /\ sheet.content = PaperRow(a).content,
           sheet.status = "published" /\ topic # "promise" => sheet.content = approved'[Mine(a)],
           sheet.status = "published" => topic \in {"city", "slot"} \/ (topic = "package" /\ Published \ {Mine(a)} = {}),
           PaperRow(a).status = "published" => bound # Mine(a)
    PROVE  PubInv'
<1>1. PICK d \in Papers : d = Mine(a) /\ d = desk[a].id /\ paper[d] = PaperRow(a) /\ paper[d].status # "none"
 <2>1. PICK s \in Sights : s = desk[a] BY DEF PubInv, PubTypes
 <2>2. SightOK(s) /\ s.id # 0 BY <2>1 DEF PubInv
 <2> QED BY <2>1, <2>2 DEF SightOK, Sights, Mine, PaperRow
<1>2. /\ paper' = [paper EXCEPT ![d] = sheet] /\ Shows(a, d)
      /\ UNCHANGED <<topic, hour, linked, force, shown, deals>>
 BY <1>1 DEF Write
<1>3. paper \in [Papers -> PaperRows] /\ approved \in [Papers -> Wordings] /\ topic \in Topics
 BY DEF PubInv, PubTypes
<1>4. /\ paper' \in [Papers -> PaperRows] /\ paper'[d] = sheet /\ \A e \in Papers \ {d} : paper'[e] = paper[e]
 BY <1>2, <1>3
<1>5. \A e \in Papers : GoesOn(e)
 <2>1. GoesOn(d) BY <1>1, <1>4 DEF GoesOn
 <2>2. ASSUME NEW e \in Papers \ {d} PROVE GoesOn(e)
  <3>1. paper'[e] = paper[e] /\ paper[e].version \in Nat BY <1>3, <1>4, <2>2 DEF PaperRows
  <3> QED BY <3>1 DEF GoesOn
 <2> QED BY <2>1, <2>2
<1>6. Filed'
 <2>1. \A e \in Papers : paper'[e].status # "none" <=> paper[e].status # "none" BY <1>1, <1>4
 <2> QED BY <2>1 DEF PubInv, Filed, Papers
<1>7. InForce' BY <1>1, <1>2, <1>4 DEF PubInv, InForce, Papers
<1>8. /\ Published' \subseteq Published \cup {d} /\ Published \subseteq Published' \cup {d}
      /\ d \in Published' <=> sheet.status = "published"
 BY <1>4 DEF Published, Papers
<1>9. OnePublished'
 <2>1. CASE sheet.status = "published"
  BY <1>1, <1>2, <1>8, <2>1 DEF PubInv, OnePublished
 <2>2. CASE sheet.status # "published"
  BY <1>2, <1>8, <2>2 DEF PubInv, OnePublished
 <2> QED BY <2>1, <2>2
<1>10. BoundToPublished'
 <2>1. CASE topic # "promise"
  <3>1. bound' = -1 BY <2>1 DEF PubInv, PubTypes
  <3> QED BY <3>1 DEF BoundToPublished
 <2>2. CASE topic = "promise"
  <3>1. sheet.status # "published" BY <2>2
  <3>2. Published' \subseteq Published BY <1>8, <3>1
  <3>3. ASSUME bound \in Published PROVE bound \in Published'
   <4>1. bound # d BY <1>1, <3>3 DEF Published
   <4> QED BY <1>8, <3>3, <4>1
  <3> QED BY <3>2, <3>3 DEF PubInv, BoundToPublished
 <2> QED BY <2>1, <2>2
<1>11. RulesInForce' BY <1>2 DEF RulesInForce
<1>12. bound' \in {-1, 0} \cup Papers /\ (topic # "promise" => bound' = -1) /\ paper'[d].status # "none"
 BY <1>4 DEF PubInv, PubTypes
<1> QED BY <1>2, <1>4, <1>5, <1>6, <1>7, <1>9, <1>10, <1>11, <1>12, PapersChange

\* What somebody with a row in his hands knows.
LEMMA InHandFacts ==
    ASSUME PubInv, NEW a \in Admins, desk[a].id # 0
    PROVE  /\ Mine(a) \in Papers /\ PaperRow(a) \in PaperRows /\ PaperRow(a).status # "none"
           /\ desk[a].row.content \in Wordings
           /\ topic = "rule" => desk[a].row.content = PaperRow(a).content
           /\ AsSeen(a) /\ topic # "promise" => desk[a].row.content = PaperRow(a).content
           /\ topic # "promise" => bound # Mine(a)
<1>1. PICK s \in Sights : s = desk[a] BY DEF PubInv, PubTypes
<1>2. SightOK(s) /\ s.id # 0 BY <1>1 DEF PubInv
<1>3. Mine(a) = s.id /\ s.id \in Papers /\ PaperRow(a) = paper[s.id] BY <1>1, <1>2 DEF Sights, Mine, PaperRow
<1>4. topic # "promise" => bound = -1 /\ bound # s.id BY <1>3, PubAssumption DEF PubInv, PubTypes, Papers
<1>5. PaperRow(a) \in PaperRows /\ desk[a].row.content \in Wordings
 BY <1>1, <1>3 DEF PubInv, PubTypes, Sights, PaperRows
<1> QED BY <1>1, <1>2, <1>3, <1>4, <1>5 DEF SightOK, AsSeen

\* A row with another status, or another content, and the next version.
LEMMA NextStatus ==
    ASSUME NEW r \in PaperRows, NEW st \in PaperStatuses
    PROVE  \E n \in PaperRows : /\ n = [r EXCEPT !.status = st, !.version = @ + 1]
                                /\ n.status = st /\ n.content = r.content
                                /\ r.version < n.version /\ r.version <= n.version /\ n.version # r.version
<1>1. PICK v \in Nat : v = r.version + 1 /\ r.version < v /\ r.version <= v /\ r.version # v BY DEF PaperRows
<1>2. PICK n : n = [r EXCEPT !.status = st, !.version = v] OBVIOUS
<1>3. n \in PaperRows /\ n.status = st /\ n.content = r.content /\ n.version = v BY <1>2 DEF PaperRows
<1> QED BY <1>1, <1>2, <1>3

LEMMA NextContent ==
    ASSUME NEW r \in PaperRows, NEW c \in Wordings
    PROVE  \E n \in PaperRows : /\ n = [r EXCEPT !.content = c, !.version = @ + 1]
                                /\ n.status = r.status /\ n.content = c
                                /\ r.version < n.version /\ r.version <= n.version /\ n.version # r.version
<1>1. PICK v \in Nat : v = r.version + 1 /\ r.version < v /\ r.version <= v /\ r.version # v BY DEF PaperRows
<1>2. PICK n : n = [r EXCEPT !.content = c, !.version = v] OBVIOUS
<1>3. n \in PaperRows /\ n.status = r.status /\ n.content = c /\ n.version = v BY <1>2 DEF PaperRows
<1> QED BY <1>1, <1>2, <1>3

\* Edits of the content: of a draft, of a city that is not published, or approved by their author.
LEMMA EditSteps ==
    ASSUME PubInv, NEW a \in Admins, NEW c \in Contents,
           UpdateAdminPackage(a, c) \/ UpdateAdminCity(a, c) \/ UpdateHomeSlot(a, c)
    PROVE  PubInv'
<1>1. /\ desk[a].id # 0 /\ c \in {"a", "b"} /\ bound' = bound /\ topic \in {"package", "city", "slot"}
      /\ Write(a, [PaperRow(a) EXCEPT !.content = c, !.version = @ + 1])
 BY DEF UpdateAdminPackage, UpdateAdminCity, UpdateHomeSlot, InHand, Contents,
        NormalizePackageWrite, ValidateCityWrite, ValidateWrite
<1>2. PICK r \in PaperRows : r = PaperRow(a) /\ Mine(a) \in Papers /\ r.status # "none" /\ bound # Mine(a)
 BY <1>1, InHandFacts
<1>3. PICK n \in PaperRows : /\ n = [r EXCEPT !.content = c, !.version = @ + 1] /\ n.status = r.status /\ n.content = c
                             /\ r.version <= n.version /\ n.version # r.version
 <2>1. c \in Wordings BY <1>1 DEF Wordings
 <2>2. \E n \in PaperRows : /\ n = [r EXCEPT !.content = c, !.version = @ + 1]
                            /\ n.status = r.status /\ n.content = c
                            /\ r.version < n.version /\ r.version <= n.version /\ n.version # r.version
  BY <1>2, <2>1, NextContent
 <2> QED BY <2>2, Zenon
<1>4. Write(a, n) BY <1>1, <1>2, <1>3
<1>5. r.status # "active" BY <1>1, <1>2 DEF PubInv, InForce, PaperRow
<1>6. CASE topic \in {"package", "city"}
 <2>1. r.status # "published" /\ approved' = approved /\ (topic = "package" => r.status = "draft")
  BY <1>2, <1>6 DEF UpdateAdminPackage, UpdateAdminCity, UpdateHomeSlot, InHand, Editable
 <2>2. approved' \in [Papers -> Wordings] /\ \A e \in Papers : approved'[e] = approved[e]
  BY <2>1 DEF PubInv, PubTypes
 <2> QED BY <1>1, <1>2, <1>3, <1>4, <1>5, <1>6, <2>1, <2>2, WriteStep
<1>7. CASE topic = "slot"
 <2>1. approved' = [approved EXCEPT ![Mine(a)] = c]
  BY <1>7 DEF UpdateAdminPackage, UpdateAdminCity, UpdateHomeSlot, InHand, Approves
 <2>2. /\ approved' \in [Papers -> Wordings] /\ \A e \in Papers \ {Mine(a)} : approved'[e] = approved[e]
       /\ approved'[Mine(a)] = c
  BY <1>1, <1>2, <2>1 DEF PubInv, PubTypes, Wordings
 <2> QED BY <1>1, <1>2, <1>3, <1>4, <1>5, <1>7, <2>2, WriteStep
<1> QED BY <1>1, <1>6, <1>7

\* A status that approves nothing: unpublished, validated, retired, disabled, or a draft again.
LEMMA SetAside ==
    ASSUME PubInv, NEW a \in Admins, desk[a].id # 0, topic \in {"package", "policy", "city", "slot"},
           NEW to \in {"draft", "validated", "unpublished", "retired", "disabled"},
           topic = "package" /\ PaperRow(a).status \in {"published", "unpublished"} => to = "unpublished",
           Write(a, [PaperRow(a) EXCEPT !.status = to, !.version = @ + 1]), UNCHANGED <<approved, bound>>
    PROVE  PubInv'
<1>1. PICK r \in PaperRows : r = PaperRow(a) /\ Mine(a) \in Papers /\ r.status # "none" /\ bound # Mine(a)
 BY InHandFacts
<1>2. PICK n \in PaperRows : /\ n = [r EXCEPT !.status = to, !.version = @ + 1] /\ n.status = to /\ n.content = r.content
                             /\ r.version <= n.version /\ n.version # r.version
 <2>1. to \in PaperStatuses BY DEF PaperStatuses
 <2>2. \E n \in PaperRows : /\ n = [r EXCEPT !.status = to, !.version = @ + 1]
                            /\ n.status = to /\ n.content = r.content
                            /\ r.version < n.version /\ r.version <= n.version /\ n.version # r.version
  BY <1>1, <2>1, NextStatus
 <2> QED BY <2>2, Zenon
<1>3. Write(a, n) BY <1>1, <1>2
<1>4. approved' \in [Papers -> Wordings] /\ \A e \in Papers : approved'[e] = approved[e]
 BY DEF PubInv, PubTypes
<1> QED BY <1>1, <1>2, <1>3, <1>4, WriteStep

\* The status that approves what was seen.
LEMMA Approval ==
    ASSUME PubInv, NEW a \in Admins, desk[a].id # 0, topic \in {"package", "city", "slot"}, AsSeen(a),
           topic = "package" => PaperRow(a).status = "draft" /\ Published \ {Mine(a)} = {},
           Write(a, [PaperRow(a) EXCEPT !.status = "published", !.version = @ + 1]),
           Approves(Mine(a), desk[a].row.content), UNCHANGED bound
    PROVE  PubInv'
<1>1. PICK r \in PaperRows : /\ r = PaperRow(a) /\ Mine(a) \in Papers /\ r.status # "none" /\ bound # Mine(a)
                             /\ desk[a].row.content = r.content /\ r.content \in Wordings
 BY InHandFacts
<1>2. PICK n \in PaperRows : /\ n = [r EXCEPT !.status = "published", !.version = @ + 1] /\ n.status = "published"
                             /\ n.content = r.content /\ r.version <= n.version /\ n.version # r.version
 <2>1. "published" \in PaperStatuses BY DEF PaperStatuses
 <2>2. \E n \in PaperRows : /\ n = [r EXCEPT !.status = "published", !.version = @ + 1]
                            /\ n.status = "published" /\ n.content = r.content
                            /\ r.version < n.version /\ r.version <= n.version /\ n.version # r.version
  BY <1>1, <2>1, NextStatus
 <2> QED BY <2>2, Zenon
<1>3. Write(a, n) BY <1>1, <1>2
<1>4. /\ approved' \in [Papers -> Wordings] /\ \A e \in Papers \ {Mine(a)} : approved'[e] = approved[e]
      /\ approved'[Mine(a)] = n.content
 BY <1>1, <1>2 DEF PubInv, PubTypes, Approves
<1> QED BY <1>1, <1>2, <1>3, <1>4, WriteStep

LEMMA StatusSteps ==
    ASSUME PubInv, NEW a \in Admins,
           \/ PublishAdminPackage(a) \/ UnpublishAdminPackage(a) \/ ValidatePolicy(a) \/ RetirePolicy(a)
           \/ \E to \in {"published", "disabled"} : SetAdminCityStatus(a, to)
           \/ \E to \in {"draft", "published", "disabled"} : SetSlotStatus(a, to)
    PROVE  PubInv'
<1>1. CASE PublishAdminPackage(a)
 BY <1>1, Approval DEF PublishAdminPackage, InHand
<1>2. CASE UnpublishAdminPackage(a)
 BY <1>2, SetAside DEF UnpublishAdminPackage, InHand
<1>3. CASE ValidatePolicy(a)
 BY <1>3, SetAside DEF ValidatePolicy, InHand
<1>4. CASE RetirePolicy(a)
 BY <1>4, SetAside DEF RetirePolicy, InHand
<1>5. ASSUME NEW to \in {"draft", "published", "disabled"}, SetAdminCityStatus(a, to) \/ SetSlotStatus(a, to)
      PROVE  PubInv'
 <2>1. /\ desk[a].id # 0 /\ topic \in {"city", "slot"} /\ AsSeen(a) /\ bound' = bound
       /\ Write(a, [PaperRow(a) EXCEPT !.status = to, !.version = @ + 1])
       /\ IF to = "published" THEN Approves(Mine(a), desk[a].row.content) ELSE UNCHANGED approved
  BY <1>5 DEF SetAdminCityStatus, SetSlotStatus, InHand
 <2>2. CASE to = "published"
  BY <2>1, <2>2, Approval
 <2>3. CASE to # "published"
  <3>1. approved' = approved /\ to \in {"draft", "disabled"} BY <1>5, <2>1, <2>3
  <3> QED BY <2>1, <3>1, SetAside
 <2> QED BY <2>2, <2>3
<1> QED BY <1>1, <1>2, <1>3, <1>4, <1>5

\* The promise policies keep their version.
LEMMA PromiseSteps ==
    ASSUME PubInv, NEW a \in Admins, NEW c \in Contents, UpdateAdminPolicy(a, c) \/ RetirePromise(a)
    PROVE  PubInv'
<1>1. /\ desk[a].id # 0 /\ topic = "promise" /\ approved' = approved /\ bound' = bound
 BY DEF UpdateAdminPolicy, RetirePromise, InHand
<1>2. PICK r \in PaperRows : r = PaperRow(a) /\ Mine(a) \in Papers /\ r.status # "none" BY <1>1, InHandFacts
<1>3. approved' \in [Papers -> Wordings] /\ \A e \in Papers : approved'[e] = approved[e]
 BY <1>1 DEF PubInv, PubTypes
<1>4. CASE UpdateAdminPolicy(a, c)
 <2>1. c \in {"a", "b"} /\ r.status = "draft" /\ Write(a, [r EXCEPT !.content = c])
  BY <1>2, <1>4 DEF UpdateAdminPolicy, ValidatePolicyWrite, Contents
 <2>2. PICK n : n = [r EXCEPT !.content = c] OBVIOUS
 <2>w. c \in Wordings
  BY <2>1 DEF Wordings
 <2>v. n \in PaperRows /\ n.status = r.status /\ n.version = r.version
  BY <1>2, <2>w, <2>2 DEF PaperRows
 <2>3. n \in PaperRows /\ n.status = "draft" /\ n.version = r.version /\ r.version <= n.version
  BY <1>2, <2>1, <2>v DEF PaperRows
 <2> QED BY <1>1, <1>2, <1>3, <2>1, <2>2, <2>3, WriteStep
<1>5. CASE RetirePromise(a)
 <2>1. bound # Mine(a) /\ Write(a, [r EXCEPT !.status = "retired"]) BY <1>2, <1>5 DEF RetirePromise
 <2>2. PICK n : n = [r EXCEPT !.status = "retired"] OBVIOUS
 <2>3. n \in PaperRows /\ n.status = "retired" /\ n.version = r.version /\ r.version <= n.version
  BY <1>2, <2>1, <2>2 DEF PaperRows, PaperStatuses
 <2> QED BY <1>1, <1>2, <1>3, <2>1, <2>2, <2>3, WriteStep
<1> QED BY <1>4, <1>5

\* One row is published in the place of the one that was.
LEMMA Replacement ==
    ASSUME PubInv, NEW a \in Admins, NEW d \in Papers, topic \in {"policy", "promise"}, paper[d].status # "none",
           paper' \in [Papers -> PaperRows], paper'[d].status = "published",
           \A e \in Papers \ {d} : paper[e] = paper'[e] \/ (e \in Published /\ paper'[e].status = "retired"),
           \A e \in Published \ {d} : paper'[e].status = "retired",
           \A e \in Papers : paper[e].version <= paper'[e].version /\ paper'[e].content = paper[e].content,
           Shows(a, d), approved' = [approved EXCEPT ![d] = desk[a].row.content], desk[a].row.content \in Wordings,
           topic # "promise" => desk[a].row.content = paper[d].content,
           bound' = Rebound(d), UNCHANGED <<topic, hour, shown, deals, force>>
    PROVE  PubInv'
<1>1. paper \in [Papers -> PaperRows] /\ approved \in [Papers -> Wordings] BY DEF PubInv, PubTypes
<1>2. /\ approved' \in [Papers -> Wordings] /\ approved'[d] = desk[a].row.content
      /\ \A e \in Papers \ {d} : approved'[e] = approved[e]
 BY <1>1
<1>3. Published' = {d} BY DEF Published, Papers
<1>4. \A e \in Papers : GoesOn(e)
 <2>1. \A e \in Papers : paper[e].status # "none" => paper'[e].status # "none" OBVIOUS
 <2> QED BY <2>1 DEF GoesOn
<1>5. Filed'
 <2>1. \A e \in Papers : paper'[e].status # "none" <=> paper[e].status # "none" BY DEF Published
 <2> QED BY <2>1 DEF PubInv, Filed, Papers
<1>6. InForce'
 <2>1. ASSUME NEW e \in Papers PROVE /\ paper'[e].status \in {"published", "active"} /\ topic # "promise"
                                          => paper'[e].content = approved'[e]
                                     /\ paper'[e].status # "active"
  <3>1. CASE e = d
   BY <1>2, <3>1
  <3>2. CASE e # d /\ paper'[e] = paper[e]
   BY <1>2, <3>2 DEF PubInv, InForce
  <3>3. CASE paper'[e].status = "retired"
   BY <3>3
  <3> QED BY <3>1, <3>2, <3>3
 <2> QED BY <2>1 DEF InForce, Papers
<1>7. OnePublished' BY <1>3 DEF OnePublished
<1>8. bound' \in {-1, 0} \cup Papers /\ (topic # "promise" => bound' = -1) /\ (bound' = -1 \/ bound' = d)
 BY DEF PubInv, PubTypes, Rebound
<1>9. BoundToPublished' BY <1>3, <1>8 DEF BoundToPublished
<1>10. RulesInForce' BY DEF RulesInForce
<1>11. paper'[d].status # "none" OBVIOUS
<1> QED BY <1>2, <1>4, <1>5, <1>6, <1>7, <1>8, <1>9, <1>10, <1>11, PapersChange

LEMMA ReplaceSteps == ASSUME PubInv, NEW a \in Admins, PublishPolicy(a) \/ PublishPromise(a) PROVE PubInv'
<1>1. /\ desk[a].id # 0 /\ topic \in {"policy", "promise"} /\ AsSeen(a)
      /\ UNCHANGED <<topic, hour, shown, deals, force>> /\ Shows(a, Mine(a))
      /\ approved' = [approved EXCEPT ![Mine(a)] = desk[a].row.content]
 BY DEF PublishPolicy, PublishPromise, InHand, Approves
<1>2. PICK d \in Papers : d = Mine(a) /\ paper[d].status # "none" /\ (topic # "promise" => desk[a].row.content = paper[d].content)
 BY <1>1, InHandFacts DEF PaperRow
<1>3. desk[a].row.content \in Wordings /\ paper \in [Papers -> PaperRows]
 BY <1>1, InHandFacts DEF PubInv, PubTypes
<1>4. bound' = Rebound(d)
 <2>1. CASE PublishPolicy(a)
  BY <2>1 DEF PublishPolicy, InHand, Rebound, PubInv, PubTypes
 <2>2. CASE PublishPromise(a)
  BY <1>2, <2>2 DEF PublishPromise
 <2> QED BY <2>1, <2>2
<1>5. ASSUME NEW e \in Papers
      PROVE  /\ paper'[e] \in PaperRows
             /\ e = d => paper'[e].status = "published"
             /\ e # d => IF e \in Published THEN paper'[e].status = "retired" ELSE paper'[e] = paper[e]
             /\ paper[e].version <= paper'[e].version /\ paper'[e].content = paper[e].content
 <2>0. PICK r \in PaperRows : r = paper[e] BY <1>3
 <2>1. r.version \in Nat BY DEF PaperRows
 <2>r. r \in PaperRows
  BY <2>0
 <2>s. "published" \in PaperStatuses /\ "retired" \in PaperStatuses
  BY DEF PaperStatuses
 <2>2. CASE PublishPolicy(a)
  <3>1. paper'[e] = IF e = d THEN [r EXCEPT !.status = "published", !.version = @ + 1]
                    ELSE IF e \in Published THEN [r EXCEPT !.status = "retired", !.version = @ + 1] ELSE r
   BY <1>2, <2>0, <2>2, Zenon DEF PublishPolicy
  <3>2. CASE e = d
   <4>0. \E n \in PaperRows :   /\ n = [r EXCEPT !.status = "published", !.version = @ + 1]
                                /\ n.status = "published" /\ n.content = r.content
                                /\ r.version < n.version /\ r.version <= n.version /\ n.version # r.version
    BY <2>r, <2>s, NextStatus
   <4>1. PICK n \in PaperRows : /\ n = [r EXCEPT !.status = "published", !.version = @ + 1]
                                /\ n.status = "published" /\ n.content = r.content
                                /\ r.version < n.version /\ r.version <= n.version /\ n.version # r.version
    BY <4>0, Zenon
   <4> QED BY <2>0, <3>1, <3>2, <4>1
  <3>3. CASE e # d /\ e \in Published
   <4>0. \E n \in PaperRows :   /\ n = [r EXCEPT !.status = "retired", !.version = @ + 1]
                                /\ n.status = "retired" /\ n.content = r.content
                                /\ r.version < n.version /\ r.version <= n.version /\ n.version # r.version
    BY <2>r, <2>s, NextStatus
   <4>1. PICK n \in PaperRows : /\ n = [r EXCEPT !.status = "retired", !.version = @ + 1]
                                /\ n.status = "retired" /\ n.content = r.content
                                /\ r.version < n.version /\ r.version <= n.version /\ n.version # r.version
    BY <4>0, Zenon
   <4> QED BY <2>0, <3>1, <3>3, <4>1
  <3>4. CASE e # d /\ e \notin Published
   BY <2>0, <2>1, <3>1, <3>4
  <3> QED BY <3>2, <3>3, <3>4
 <2>3. CASE PublishPromise(a)
  <3>1. paper'[e] = IF e = d THEN [r EXCEPT !.status = "published"]
                    ELSE IF e \in Published THEN [r EXCEPT !.status = "retired"] ELSE r
   BY <1>2, <2>0, <2>3, Zenon DEF PublishPromise
  <3>2. PICK n1, n2 : n1 = [r EXCEPT !.status = "published"] /\ n2 = [r EXCEPT !.status = "retired"] OBVIOUS
  <3>3. /\ n1 \in PaperRows /\ n1.status = "published" /\ n1.content = r.content /\ n1.version = r.version
        /\ n2 \in PaperRows /\ n2.status = "retired" /\ n2.content = r.content /\ n2.version = r.version
   BY <2>0, <3>2 DEF PaperRows, PaperStatuses
  <3> QED BY <2>0, <2>1, <3>1, <3>2, <3>3
 <2> QED BY <2>2, <2>3
<1>6. paper' \in [Papers -> PaperRows]
 <2>1. paper' = [e \in Papers |-> paper'[e]] BY DEF PublishPolicy, PublishPromise
 <2> QED BY <1>5, <2>1
<1>7. /\ \A e \in Papers \ {d} : paper[e] = paper'[e] \/ (e \in Published /\ paper'[e].status = "retired")
      /\ \A e \in Published \ {d} : paper'[e].status = "retired"
      /\ \A e \in Papers : paper[e].version <= paper'[e].version /\ paper'[e].content = paper[e].content
      /\ paper'[d].status = "published"
 BY <1>5 DEF Published
<1> QED BY <1>1, <1>2, <1>3, <1>4, <1>6, <1>7, Replacement

\* A rule set is activated: now, in the place of those in effect, or ahead of its hour.
LEMMA ActivateStep == ASSUME PubInv, NEW a \in Admins, ActivateRuleSet(a) PROVE PubInv'
<1>1. /\ desk[a].id # 0 /\ topic = "rule" /\ UNCHANGED <<topic, hour, bound, shown, deals>> /\ Shows(a, Mine(a))
      /\ approved' = [approved EXCEPT ![Mine(a)] = desk[a].row.content] /\ PaperRow(a).status = "draft"
 BY DEF ActivateRuleSet, InHand, Approves
<1>2. PICK d \in Papers : d = Mine(a) /\ paper[d].status = "draft" BY <1>1, InHandFacts DEF PaperRow
<1>3. /\ desk[a].row.content = paper[d].content /\ desk[a].row.content \in Wordings
      /\ paper \in [Papers -> PaperRows] /\ approved \in [Papers -> Wordings] /\ hour \in Nat
 BY <1>1, <1>2, InHandFacts DEF PaperRow, PubInv, PubTypes
<1>4. /\ approved' \in [Papers -> Wordings] /\ approved'[d] = paper[d].content
      /\ \A e \in Papers \ {d} : approved'[e] = approved[e]
 BY <1>1, <1>2, <1>3
<1> DEFINE now == paper[d].at <= hour
<1>5. /\ force' = IF now THEN d ELSE force
      /\ paper' = [e \in Papers |->
             IF e = d THEN [paper[e] EXCEPT !.status = "active"]
             ELSE IF now /\ e \in Outdated THEN [paper[e] EXCEPT !.status = "retired"] ELSE paper[e]]
 BY <1>2, Zenon DEF ActivateRuleSet, PaperRow
<1>6. ASSUME NEW e \in Papers
      PROVE  /\ paper'[e] \in PaperRows
             /\ e = d => paper'[e].status = "active"
             /\ e # d => IF now /\ e \in Outdated THEN paper'[e].status = "retired" ELSE paper'[e] = paper[e]
             /\ paper'[e].version = paper[e].version /\ paper'[e].content = paper[e].content
             /\ paper'[e].at = paper[e].at /\ paper[e].version \in Nat /\ paper[e].at \in Nat
 <2>0. PICK r \in PaperRows : r = paper[e] BY <1>3
 <2>1. paper'[e] = IF e = d THEN [r EXCEPT !.status = "active"]
                   ELSE IF now /\ e \in Outdated THEN [r EXCEPT !.status = "retired"] ELSE r
  BY <1>5, <2>0
 <2>2. PICK n1, n2 : n1 = [r EXCEPT !.status = "active"] /\ n2 = [r EXCEPT !.status = "retired"] OBVIOUS
 <2>3. /\ n1 \in PaperRows /\ n1.status = "active" /\ n1.content = r.content /\ n1.version = r.version /\ n1.at = r.at
       /\ n2 \in PaperRows /\ n2.status = "retired" /\ n2.content = r.content /\ n2.version = r.version /\ n2.at = r.at
  BY <2>0, <2>2 DEF PaperRows, PaperStatuses
 <2>4. r.version \in Nat /\ r.at \in Nat BY DEF PaperRows
 <2> QED BY <2>0, <2>1, <2>2, <2>3, <2>4
<1>7. paper' \in [Papers -> PaperRows]
 <2>1. paper' = [e \in Papers |-> paper'[e]] BY <1>5
 <2> QED BY <1>6, <2>1
<1>8. \A e \in Papers : paper'[e].status = "none" <=> paper[e].status = "none" BY <1>2, <1>6 DEF Outdated
<1>9. \A e \in Papers : GoesOn(e) BY <1>1, <1>6, <1>8 DEF GoesOn
<1>10. Filed' BY <1>8 DEF PubInv, Filed, Papers
<1>11. InForce'
 <2>1. ASSUME NEW e \in Papers, paper'[e].status \in {"published", "active"} PROVE paper'[e].content = approved'[e]
  <3>1. CASE e = d
   BY <1>4, <1>6, <3>1
  <3>2. CASE e # d
   <4>1. paper'[e] = paper[e] BY <1>6, <2>1, <3>2
   <4> QED BY <1>1, <1>4, <2>1, <3>2, <4>1 DEF PubInv, InForce
  <3> QED BY <3>1, <3>2
 <2> QED BY <1>1, <2>1 DEF InForce, Papers
<1>12. OnePublished' /\ BoundToPublished' /\ bound' = -1
 BY <1>1 DEF OnePublished, BoundToPublished, PubInv, PubTypes
<1> DEFINE past == {e \in Papers : paper[e].status = "active" /\ paper[e].at <= hour}
           late == {e \in past : \A x \in past : paper[x].at <= paper[e].at}
<1>13. /\ EffectiveRules = IF past = {} THEN 0 ELSE Max(late)
       /\ EffectiveRules' = IF past' = {} THEN 0 ELSE Max(late')
 BY DEF EffectiveRules
<1>14. RulesInForce'
 <2>1. CASE now
  <3>0. \A e \in Papers : paper'[e].status = "active" /\ paper'[e].at <= hour <=> e = d
   BY <1>6, <2>1 DEF Outdated
  <3>1. past' = {d} BY <1>1, <3>0 DEF Papers
  <3>2. late' = {d} BY <1>6, <3>1
  <3>3. Max({d}) = d BY PubAssumption DEF Max, Papers
  <3> HIDE DEF past, late
  <3> QED BY <1>5, <1>13, <2>1, <3>1, <3>2, <3>3 DEF RulesInForce
 <2>2. CASE ~now
  <3>0. \A e \in Papers : /\ paper'[e].status = "active" /\ paper'[e].at <= hour
                             <=> paper[e].status = "active" /\ paper[e].at <= hour
                          /\ paper'[e].at = paper[e].at
   BY <1>2, <1>6, <2>2
  <3>1. past' = past BY <1>1, <3>0 DEF Papers
  <3>2. late' = late BY <1>6, <3>1
  <3> HIDE DEF past, late
  <3> QED BY <1>1, <1>5, <1>13, <2>2, <3>1, <3>2 DEF PubInv, RulesInForce
 <2> QED BY <1>5, <2>1, <2>2
<1>15. paper'[d].status # "none" /\ Shows(a, d) BY <1>1, <1>2, <1>6
<1> QED BY <1>1, <1>4, <1>7, <1>9, <1>10, <1>11, <1>12, <1>14, <1>15, PapersChange

\* Steps that leave the rows alone.
LEMMA RowsRest ==
    ASSUME PubInv, UNCHANGED <<topic, paper, approved, bound>>, hour' \in Nat, RulesInForce',
           desk' \in [Admins -> Sights], shown' \in Sights,
           \A a \in Admins, s \in Sights : desk'[a] = s => SightOK(s),
           \A s \in Sights : shown' = s => ShownOK(s),
           \A s \in deals' : s.seen = s.charged
    PROVE  PubInv'
<1>1. PubTypes' /\ Published' = Published BY DEF PubInv, PubTypes, Published, Papers
<1>2. Filed' /\ InForce' /\ OnePublished' /\ BoundToPublished'
 BY <1>1 DEF PubInv, Filed, InForce, OnePublished, BoundToPublished, Papers
<1>3. ASSUME NEW s, SightOK(s) PROVE SightOK(s)' BY <1>3 DEF SightOK
<1>4. ASSUME NEW s, ShownOK(s) PROVE ShownOK(s)' BY <1>4 DEF ShownOK
<1>5. \A a \in Admins, s \in Sights : desk'[a] = s => SightOK(s)' BY <1>3
<1>6. \A s \in Sights : shown' = s => ShownOK(s)' BY <1>4
<1> QED BY <1>1, <1>2, <1>5, <1>6 DEF PubInv, Sights, Papers

LEMMA ReadPaperStep == ASSUME PubInv, NEW a \in Admins, NEW d \in Papers, ReadPaper(a, d) PROVE PubInv'
<1>1. UNCHANGED <<topic, paper, approved, bound, hour, force, shown, deals>> /\ paper[d].status # "none"
 BY DEF ReadPaper
<1>2. PICK n : n = [id |-> d, row |-> paper[d]] OBVIOUS
<1>3. n \in Sights /\ n.id = d /\ n.row = paper[d] /\ paper[d].version \in Nat
 BY <1>2 DEF PubInv, PubTypes, Sights, PaperRows
<1>4. desk' = [desk EXCEPT ![a] = n] /\ desk \in [Admins -> Sights] BY <1>2 DEF ReadPaper, PubInv, PubTypes
<1>5. desk' \in [Admins -> Sights] /\ \A x \in Admins : desk'[x] \in {n, desk[x]} BY <1>3, <1>4
<1>6. SightOK(n) BY <1>1, <1>3 DEF SightOK
<1>7. \A x \in Admins, s \in Sights : desk'[x] = s => SightOK(s) BY <1>5, <1>6 DEF PubInv
<1>8. /\ hour' \in Nat /\ shown' \in Sights
      /\ \A s \in Sights : shown' = s => ShownOK(s)
      /\ \A s \in deals' : s.seen = s.charged
 BY <1>1 DEF PubInv, PubTypes
<1>9. RulesInForce'
 <2>1. EffectiveRules' = EffectiveRules BY <1>1, RulesSame
 <2> QED BY <1>1, <2>1 DEF PubInv, RulesInForce
<1> QED BY <1>1, <1>5, <1>7, <1>8, <1>9, RowsRest

LEMMA CustomerSteps == ASSUME PubInv, NEW d \in Papers, PublicPackageByNo(d) \/ BuyPackage PROVE PubInv'
<1>1. UNCHANGED <<topic, paper, approved, bound, hour, force, desk>> BY DEF PublicPackageByNo, BuyPackage
<1>2. RulesInForce'
 <2>1. EffectiveRules' = EffectiveRules BY <1>1, RulesSame
 <2> QED BY <1>1, <2>1 DEF PubInv, RulesInForce
<1>3. /\ hour' \in Nat /\ desk' \in [Admins -> Sights]
      /\ \A a \in Admins, s \in Sights : desk'[a] = s => SightOK(s)
 BY <1>1 DEF PubInv, PubTypes
<1>4. CASE PublicPackageByNo(d)
 <2>1. PICK n : n = [id |-> d, row |-> paper[d]] /\ n = shown' BY <1>4 DEF PublicPackageByNo
 <2>2. n \in Sights /\ n.id = d /\ n.row = paper[d] BY <2>1 DEF PubInv, PubTypes, Sights
 <2>3. ShownOK(n) BY <1>4, <2>2 DEF ShownOK, PublicPackageByNo
 <2>4. \A s \in deals' : s.seen = s.charged BY <1>4 DEF PublicPackageByNo, PubInv
 <2> QED BY <1>1, <1>2, <1>3, <2>1, <2>2, <2>3, <2>4, RowsRest
<1>5. CASE BuyPackage
 <2>1. PICK n \in Sights : n = shown /\ n.id # 0 /\ ShownOK(n) BY <1>5 DEF BuyPackage, PubInv, PubTypes
 <2>2. n.row.content = paper[n.id].content BY <2>1 DEF ShownOK
 <2>3. \A s \in deals' : s.seen = s.charged BY <1>5, <2>1, <2>2 DEF BuyPackage, PubInv
 <2>4. shown' \in Sights /\ \A s \in Sights : shown' = s => ShownOK(s)
  BY <1>5, NoSightFits DEF BuyPackage, ShownOK
 <2> QED BY <1>1, <1>2, <1>3, <2>3, <2>4, RowsRest
<1> QED BY <1>4, <1>5

\* The hour comes of rule sets that were activated ahead.
LEMMA HourStep == ASSUME PubInv, HourPasses PROVE PubInv'
<1>1. /\ UNCHANGED <<topic, paper, approved, bound, desk, shown, deals>> /\ topic = "rule"
      /\ hour \in Nat /\ hour' = hour + 1 /\ hour' \in Nat
 BY DEF HourPasses, PubInv, PubTypes
<1>2. \A e \in Papers : paper[e].at \in Nat BY DEF PubInv, PubTypes, PaperRows
<1> DEFINE past == {e \in Papers : paper[e].status = "active" /\ paper[e].at <= hour}
           late == {e \in past : \A x \in past : paper[x].at <= paper[e].at}
           due  == {e \in Papers : paper[e].status = "active" /\ paper[e].at = hour + 1}
<1>3. /\ EffectiveRules = IF past = {} THEN 0 ELSE Max(late)
      /\ EffectiveRules' = IF past' = {} THEN 0 ELSE Max(late')
 BY DEF EffectiveRules
<1>4. force' = IF due = {} THEN force ELSE Max(due) BY DEF HourPasses
<1>5. past' = past \cup due BY <1>1, <1>2 DEF Papers
<1>6. RulesInForce'
 <2>1. CASE due = {}
  <3>1. past' = past BY <1>5, <2>1
  <3>2. late' = late BY <1>1, <3>1
  <3> HIDE DEF past, late, due
  <3> QED BY <1>1, <1>3, <1>4, <2>1, <3>1, <3>2 DEF PubInv, RulesInForce
 <2>2. CASE due # {}
  <3>1. late' = due
   <4>1. PICK f \in due : TRUE BY <2>2
   <4>2. \A e \in past' : paper[e].at <= hour + 1 BY <1>1, <1>2, <1>5
   <4>3. \A e \in due : e \in late' BY <1>1, <1>5, <4>2
   <4>4. ASSUME NEW e \in late' PROVE e \in due
    <5>1. e \in past' /\ paper[f].at <= paper[e].at BY <1>1, <1>5, <4>1
    <5>2. paper[e].at = hour + 1 BY <1>1, <1>2, <1>5, <4>1, <4>2, <5>1
    <5> QED BY <1>1, <1>2, <1>5, <5>1, <5>2
   <4> QED BY <4>3, <4>4
  <3>2. past' # {} BY <1>5, <2>2
  <3> HIDE DEF past, late, due
  <3> QED BY <1>3, <1>4, <2>2, <3>1, <3>2 DEF RulesInForce
 <2> QED BY <2>1, <2>2
<1>7. /\ desk' \in [Admins -> Sights] /\ shown' \in Sights
      /\ \A a \in Admins, s \in Sights : desk'[a] = s => SightOK(s)
      /\ \A s \in Sights : shown' = s => ShownOK(s)
      /\ \A s \in deals' : s.seen = s.charged
 BY <1>1 DEF PubInv, PubTypes
<1> QED BY <1>1, <1>6, <1>7, RowsRest

\* Nothing happens to the papers, or only to what they refer to.
LEMMA PubRests ==
    ASSUME PubInv, UNCHANGED <<topic, paper, desk, approved, hour, bound, force, shown, deals>>
    PROVE  PubInv'
<1>1. RulesInForce'
 <2>1. EffectiveRules' = EffectiveRules BY RulesSame
 <2> QED BY <2>1 DEF PubInv, RulesInForce
<1>2. /\ desk' \in [Admins -> Sights] /\ shown' \in Sights /\ hour' \in Nat
      /\ \A a \in Admins, s \in Sights : desk'[a] = s => SightOK(s)
      /\ \A s \in Sights : shown' = s => ShownOK(s)
      /\ \A s \in deals' : s.seen = s.charged
 BY DEF PubInv, PubTypes
<1> QED BY <1>1, <1>2, RowsRest

LEMMA PubKept == ASSUME PubInv, [PubNext]_pubVars PROVE PubInv'
<1>1. ASSUME NEW a \in Admins, NEW d \in Papers, ReadPaper(a, d) PROVE PubInv' BY <1>1, ReadPaperStep
\* The drafts are written well-formed.
<1>2. ASSUME NEW a \in Admins, NEW c \in Contents,
             \/ CreateAdminPackage(a, c) \/ CreatePolicy(a, c) \/ CreateAdminPolicy(a, c)
             \/ CreateAdminCity(a, c) \/ CreateHomeSlot(a, c)
      PROVE  PubInv'
 <2>1. /\ c \in {"a", "b"} /\ InsertPaper(a, c, 0)
  BY <1>2 DEF Contents, CreateAdminPackage, CreatePolicy, CreateAdminPolicy, CreateAdminCity, CreateHomeSlot,
              NormalizePackageWrite, ValidatePolicySnapshot, ValidatePolicyWrite, ValidateCityWrite, ValidateWrite
 <2> QED BY <2>1, InsertStep
<1>3. ASSUME NEW a \in Admins, NEW c \in Contents, NEW at \in Hours, CreateRuleSet(a, c, at) PROVE PubInv'
 <2>1. c \in {"a", "b"} /\ InsertPaper(a, c, at) /\ at \in Nat
  BY <1>3, PubAssumption DEF Contents, CreateRuleSet, Hours
 <2> QED BY <2>1, InsertStep
<1>4. ASSUME NEW a \in Admins, NEW c \in Contents,
             \/ UpdateAdminPackage(a, c) \/ UpdateAdminPolicy(a, c) \/ UpdateAdminCity(a, c) \/ UpdateHomeSlot(a, c)
      PROVE  PubInv'
 BY <1>4, EditSteps, PromiseSteps
<1>5. ASSUME NEW a \in Admins,
             \/ PublishAdminPackage(a) \/ UnpublishAdminPackage(a) \/ ValidatePolicy(a) \/ RetirePolicy(a)
             \/ \E to \in {"published", "disabled"} : SetAdminCityStatus(a, to)
             \/ \E to \in {"draft", "published", "disabled"} : SetSlotStatus(a, to)
      PROVE  PubInv'
 BY <1>5, StatusSteps, Zenon
<1>6. ASSUME NEW a \in Admins, PublishPolicy(a) \/ PublishPromise(a) \/ RetirePromise(a) \/ ActivateRuleSet(a)
      PROVE  PubInv'
 <2>1. "a" \in Contents BY DEF Contents
 <2> QED BY <1>6, <2>1, ReplaceSteps, PromiseSteps, ActivateStep
<1>7. ASSUME NEW d \in Papers, PublicPackageByNo(d) PROVE PubInv' BY <1>7, CustomerSteps
<1>8. CASE BuyPackage
 <2>1. PICK d \in Papers : TRUE
  <3>1. PICK s \in Sights : s = shown /\ s.id # 0 BY <1>8 DEF BuyPackage, PubInv, PubTypes
  <3> QED BY <3>1 DEF Sights
 <2> QED BY <1>8, <2>1, CustomerSteps
<1>9. CASE HourPasses
 BY <1>9, HourStep
<1>10. CASE LinkChanges \/ UNCHANGED pubVars
 BY <1>10, PubRests DEF LinkChanges, pubVars
<1>11. CASE PubNext
 BY <1>11, <1>1, <1>2, <1>3, <1>4, <1>5, <1>6, <1>7, <1>8, <1>9, <1>10, Zenon DEF PubNext
<1> QED BY <1>10, <1>11

----------------------------------------
(* The cart.  While a request holds the cart nobody else selects, and the *)
(* rows it read for update keep their quantity: what it checked, unless in *)
(* a stale snapshot, still holds when it writes. *)
Quantities  == 0..CartLimit
CartRows    == [qty : Quantities, sel : BOOLEAN]
Orderable   == 1..CartLimit
AllRequests == Requests \cup [op : {"rebuy"}, shop : Outlets, replace : BOOLEAN,
                              wants : UNION {[gs -> Orderable] : gs \in SUBSET Goods}]

\* Rows as the table can hold them.
CartOK(cart) ==
    /\ cart \in [Offers -> CartRows]
    /\ \A o \in Offers : cart[o].sel => cart[o].qty > 0

\* What a request checked, and still holds.
StillTrue(r, target, stale) ==
    /\ r.op = "add" => items[r.offer].qty + r.n <= CartLimit /\ (stale \/ ~HasSelectedOtherShop(items, r.offer[1]))
    /\ r.op = "select" => items[r.offer].qty > 0 /\ (r.on => stale \/ ~HasSelectedOtherShop(items, r.offer[1]))
    /\ r.op = "shop" => (r.on => stale \/ ~HasSelectedOtherShop(items, r.shop))
    /\ r.op = "rebuy" =>
          /\ DOMAIN target \subseteq DOMAIN r.wants
          /\ \A g \in DOMAIN target : target[g] = Max({items[<<r.shop, g>>].qty, r.wants[g]})
          /\ DOMAIN target = {} \/ r.replace \/ stale \/ ~HasSelectedOtherShop(items, r.shop)

Holds(d) == tx[d].step = "holding"
HeldTrue(d) == StillTrue(asked[tx[d].key], tx[d].target, tx[d].stale)

CartInv ==
    /\ CartOK(items) /\ (OneShop(items) \/ mixed) /\ serial = items /\ saleable \in [Offers -> Nat]
    /\ asked \in Seq(AllRequests) /\ answered \subseteq DOMAIN asked /\ DOMAIN tx = Handsets
    /\ \A d, e \in Handsets : /\ Holds(d) /\ Holds(e) => d = e
                              /\ tx[d] # NoTx /\ tx[e] # NoTx /\ tx[d].key = tx[e].key => d = e
    /\ \A d \in Handsets : /\ tx[d] # NoTx => tx[d].key \in DOMAIN asked \ answered
                           /\ Holds(d) => HeldTrue(d)

LEMMA NoTxFits == NoTx.step = "none" /\ NoTx.key = 0
BY DEF NoTx

LEMMA SmallerOfTwo == ASSUME NEW m \in Nat, NEW n \in Nat PROVE Min({m, n}) = IF m <= n THEN m ELSE n
BY DEF Min

LEMMA LargerOfTwo == ASSUME NEW m \in Nat, NEW n \in Nat PROVE Max({m, n}) = IF m >= n THEN m ELSE n
BY DEF Max

\* What is proposed to a customer can be ordered.
LEMMA ProposedIsOrderable ==
    ASSUME NEW last \in 1..CartLimit + 1, NEW left \in Nat PROVE Recommended(last, left) \in Orderable
<1>1. last \in Nat /\ last > 0 /\ CartLimit \in Nat /\ CartLimit > 0 BY CartAssumption
<1>2. PICK n \in Nat : n = Min({last, CartLimit}) /\ 0 < n /\ n <= CartLimit BY <1>1, SmallerOfTwo
<1>3. Recommended(last, left) = IF left > 0 THEN Min({n, left}) ELSE n BY <1>2 DEF Recommended
<1>4. CASE left > 0
 BY <1>1, <1>2, <1>3, <1>4, SmallerOfTwo DEF Orderable
<1>5. CASE ~(left > 0)
 BY <1>1, <1>2, <1>3, <1>5 DEF Orderable
<1> QED BY <1>4, <1>5

LEMMA RequestsFit == ASSUME saleable \in [Offers -> Nat] PROVE Requests \cup Rebuys \subseteq AllRequests
<1>1. ASSUME NEW s \in Outlets, NEW w \in Wishes(s) PROVE w \in UNION {[gs -> Orderable] : gs \in SUBSET Goods}
 <2>0. PICK gs \in (SUBSET Goods) \ {{}} :
         w \in {[g \in gs |-> Recommended(last[g], saleable[<<s, g>>])] : last \in [gs -> 1..CartLimit + 1]}
  BY <1>1 DEF Wishes
 <2>1. PICK last \in [gs -> 1..CartLimit + 1] : w = [g \in gs |-> Recommended(last[g], saleable[<<s, g>>])]
  BY <2>0
 <2>2. ASSUME NEW g \in gs PROVE Recommended(last[g], saleable[<<s, g>>]) \in Orderable
  <3>1. last[g] \in 1..CartLimit + 1 BY <2>1, <2>2
  <3>2. saleable[<<s, g>>] \in Nat BY <2>0, <2>2, <1>1 DEF Offers
  <3> QED BY <3>1, <3>2, ProposedIsOrderable
 <2>3. w \in [gs -> Orderable] BY <2>1, <2>2
 <2> QED BY <2>0, <2>3
<1>2. ASSUME NEW r \in Rebuys PROVE r \in AllRequests
 <2>1. PICK s \in Outlets : r \in [op : {"rebuy"}, shop : {s}, wants : Wishes(s), replace : BOOLEAN]
  BY <1>2 DEF Rebuys
 <2>2. r.wants \in Wishes(s) /\ r.shop = s BY <2>1
 <2>3. r.wants \in UNION {[gs -> Orderable] : gs \in SUBSET Goods} BY <1>1, <2>1, <2>2
 <2>4. r = [op |-> "rebuy", shop |-> r.shop, wants |-> r.wants, replace |-> r.replace] /\ r.replace \in BOOLEAN
  BY <2>1
 <2> QED BY <2>1, <2>2, <2>3, <2>4 DEF AllRequests
<1> QED BY <1>2 DEF AllRequests

\* The fields of a request.
LEMMA RequestFields ==
    ASSUME NEW r \in AllRequests
    PROVE  /\ r.op \in {"add", "select", "shop", "clear", "rebuy"}
           /\ r.op = "add" => r.offer \in Offers /\ r.n \in Nat /\ r.n > 0
           /\ r.op = "select" => r.offer \in Offers /\ r.on \in BOOLEAN
           /\ r.op = "shop" => r.shop \in Outlets /\ r.on \in BOOLEAN
           /\ r.op = "rebuy" => /\ r.shop \in Outlets /\ DOMAIN r.wants \subseteq Goods
                                /\ \A g \in DOMAIN r.wants : r.wants[g] \in Orderable
<1>1. CASE r \in [op : {"add"}, offer : Offers, n : 1..CartLimit]
 BY <1>1, CartAssumption
<1>2. CASE r \in [op : {"select"}, offer : Offers, on : BOOLEAN]
 BY <1>2
<1>3. CASE r \in [op : {"shop"}, shop : Outlets, on : BOOLEAN]
 BY <1>3
<1>4. CASE r \in [op : {"clear"}, shops : {{s} : s \in Outlets} \cup {Outlets}]
 BY <1>4
<1>5. CASE r \in [op : {"rebuy"}, shop : Outlets, replace : BOOLEAN,
                  wants : UNION {[gs -> Orderable] : gs \in SUBSET Goods}]
 <2>1. r.op = "rebuy" /\ r.shop \in Outlets BY <1>5
 <2>2. PICK gs \in SUBSET Goods : r.wants \in [gs -> Orderable] BY <1>5
 <2> QED BY <2>1, <2>2
<1> QED BY <1>1, <1>2, <1>3, <1>4, <1>5 DEF AllRequests, Requests

LEMMA NoItemFits == NoItem \in CartRows /\ NoItem.qty = 0 /\ NoItem.sel = FALSE
BY CartAssumption DEF NoItem, CartRows, Quantities

LEMMA CartInitially == CartInit => CartInv
<1> SUFFICES ASSUME CartInit PROVE CartInv
 OBVIOUS
<1>1. items \in [Offers -> CartRows] /\ \A o \in Offers : items[o] = NoItem BY NoItemFits DEF CartInit
<1>2. CartOK(items) /\ OneShop(items) BY <1>1, NoItemFits DEF CartOK, OneShop, SelectedOf
<1>3. saleable \in [Offers -> Nat] BY CartAssumption DEF CartInit
<1>4. asked \in Seq(AllRequests) /\ answered \subseteq DOMAIN asked BY DEF CartInit
<1>5. DOMAIN tx = Handsets /\ \A d \in Handsets : tx[d] = NoTx BY DEF CartInit
<1> QED BY <1>2, <1>3, <1>4, <1>5, NoTxFits DEF CartInv, CartInit, Holds

LEMMA CartInvImplies == CartInv => CartIsSerial
<1> SUFFICES ASSUME CartInv PROVE CartIsSerial
 OBVIOUS
<1>1. \A o \in Offers : items[o].qty <= CartLimit /\ (items[o].sel => items[o].qty > 0)
 BY CartAssumption DEF CartInv, CartOK, CartRows, Quantities
<1>2. ASSUME NEW k \in DOMAIN asked, asked[k].op = "rebuy", NEW g \in DOMAIN asked[k].wants
      PROVE  asked[k].wants[g] \in 1..CartLimit
 <2>1. asked[k] \in AllRequests BY <1>2 DEF CartInv
 <2> QED BY <1>2, <2>1, RequestFields DEF Orderable
<1> QED BY <1>1, <1>2 DEF CartInv, CartOK, CartIsSerial

\* What a request finds when it has the cart.
LEMMA ChecksHold ==
    ASSUME CartInv, NEW r \in AllRequests, NEW v, MayMutate(r, v), NEW stale \in BOOLEAN,
           stale = (Selects(r) /\ SelectedOf(v.items) # SelectedOf(items))
    PROVE  StillTrue(r, IF r.op = "rebuy" THEN TargetQuantity(r, v) ELSE <<>>, stale)
<1>0. ASSUME NEW s, Selects(r), ~HasSelectedOtherShop(v.items, s) PROVE stale \/ ~HasSelectedOtherShop(items, s)
 BY <1>0 DEF HasSelectedOtherShop
<1>1. CASE r.op = "add"
 BY <1>0, <1>1 DEF StillTrue, MayMutate, Selects
<1>2. CASE r.op = "select"
 BY <1>0, <1>2 DEF StillTrue, MayMutate, InCart, Selects
<1>3. CASE r.op = "shop"
 BY <1>0, <1>3 DEF StillTrue, MayMutate, Selects
<1>4. CASE r.op = "clear"
 BY <1>4 DEF StillTrue
<1>5. CASE r.op = "rebuy"
 <2>1. PICK t : t = TargetQuantity(r, v) OBVIOUS
 <2>2. /\ DOMAIN t = Candidates(r, v) /\ DOMAIN t \subseteq DOMAIN r.wants
       /\ \A g \in DOMAIN t : t[g] = Max({items[<<r.shop, g>>].qty, r.wants[g]})
  BY <2>1 DEF TargetQuantity, Candidates
 <2>3. Candidates(r, v) = {} \/ r.replace \/ ~HasSelectedOtherShop(v.items, r.shop) BY <1>5 DEF MayMutate
 <2>4. Candidates(r, v) = {} \/ r.replace \/ stale \/ ~HasSelectedOtherShop(items, r.shop)
  BY <1>0, <1>5, <2>3 DEF Selects
 <2> QED BY <1>5, <2>1, <2>2, <2>4 DEF StillTrue
<1> QED BY <1>1, <1>2, <1>3, <1>4, <1>5, RequestFields

LEMMA BeginStep ==
    ASSUME CartInv, NEW d \in Handsets, NEW k, BeginMutation(d, k),
           asked' \in Seq(AllRequests), DOMAIN asked \subseteq DOMAIN asked',
           \A j \in DOMAIN asked : asked'[j] = asked[j], k \in DOMAIN asked' \ answered
    PROVE  CartInv'
<1>1. UNCHANGED <<items, saleable, answered, serial, mixed>> /\ \A e \in Handsets : tx[e].key # k
 BY DEF BeginMutation
<1>3. PICK n : n = [NoTx EXCEPT !.key = k, !.step = "started", !.view = [items |-> items, saleable |-> saleable]]
 OBVIOUS
<1>4. n.key = k /\ n.step = "started" BY <1>3 DEF NoTx
<1>5. tx' = [tx EXCEPT ![d] = n] /\ DOMAIN tx = Handsets BY <1>3 DEF BeginMutation, CartInv
<1>6. DOMAIN tx' = Handsets /\ tx'[d] = n /\ \A e \in Handsets \ {d} : tx'[e] = tx[e] BY <1>5
<1>7. \A e \in Handsets : Holds(e)' => Holds(e) /\ e # d /\ HeldTrue(e) BY <1>4, <1>6 DEF Holds, CartInv
<1>8. ASSUME NEW e \in Handsets, Holds(e)' PROVE HeldTrue(e)'
 <2>1. HeldTrue(e) /\ tx'[e] = tx[e] /\ tx[e] # NoTx BY <1>6, <1>7, <1>8, NoTxFits DEF Holds
 <2>2. asked'[tx[e].key] = asked[tx[e].key] BY <2>1 DEF CartInv
 <2> QED BY <1>1, <2>1, <2>2 DEF HeldTrue, StillTrue, HasSelectedOtherShop, SelectedOf
<1>9. \A e \in Handsets : tx'[e] # NoTx => tx'[e].key \in DOMAIN asked' \ answered'
 BY <1>1, <1>4, <1>6 DEF CartInv
<1>10. \A x, e \in Handsets : tx'[x] # NoTx /\ tx'[e] # NoTx /\ tx'[x].key = tx'[e].key => x = e
 BY <1>1, <1>4, <1>6 DEF CartInv
<1>11. \A x, e \in Handsets : Holds(x)' /\ Holds(e)' => x = e BY <1>7 DEF CartInv
<1>12. CartOK(items)' /\ (OneShop(items)' \/ mixed') BY <1>1 DEF CartInv, CartOK, OneShop, SelectedOf
<1> QED BY <1>1, <1>6, <1>8, <1>9, <1>10, <1>11, <1>12 DEF CartInv

LEMMA AskSteps == ASSUME CartInv, NEW d \in Handsets, Ask(d) \/ AskAgain(d) PROVE CartInv'
<1>0. asked \in Seq(AllRequests) /\ answered \subseteq DOMAIN asked /\ saleable \in [Offers -> Nat]
 BY DEF CartInv
<1>1. CASE Ask(d)
 <2>1. PICK r \in AllRequests : asked' = Append(asked, r) /\ BeginMutation(d, Len(asked) + 1)
  BY <1>0, <1>1, RequestsFit DEF Ask
 <2>2. PICK k \in Nat : k = Len(asked) + 1 BY <1>0
 <2>3. /\ asked' \in Seq(AllRequests) /\ DOMAIN asked \subseteq DOMAIN asked' /\ k \in DOMAIN asked'
       /\ k \notin DOMAIN asked /\ \A j \in DOMAIN asked : asked'[j] = asked[j]
  BY <1>0, <2>1, <2>2
 <2> QED BY <1>0, <2>1, <2>2, <2>3, BeginStep
<1>2. CASE AskAgain(d)
 <2>1. PICK k \in DOMAIN asked : k \notin answered /\ BeginMutation(d, k) /\ asked' = asked
  BY <1>2 DEF AskAgain, Known
 <2> QED BY <1>0, <2>1, BeginStep
<1> QED BY <1>1, <1>2

LEMMA LockCartStep == ASSUME CartInv, NEW d \in Handsets, LockCart(d) PROVE CartInv'
<1>1. UNCHANGED <<items, saleable, asked, answered, serial, mixed>> /\ \A e \in Handsets : ~Holds(e)
 BY DEF LockCart, CartFree, Holds
<1>2. tx[d] # NoTx /\ tx[d].key \in DOMAIN asked \ answered BY NoTxFits DEF LockCart, CartInv
<1>3. PICK r \in AllRequests : r = asked[tx[d].key] BY <1>2 DEF CartInv
<1>4. PICK v, t : v = tx[d].view /\ t = IF r.op = "rebuy" THEN TargetQuantity(r, v) ELSE <<>> OBVIOUS
<1>5. PICK stale \in BOOLEAN : stale = (Selects(r) /\ SelectedOf(v.items) # SelectedOf(items)) OBVIOUS
<1>6. PICK n : n = [NoTx EXCEPT !.key = tx[d].key, !.step = "holding", !.target = t, !.stale = stale] OBVIOUS
<1>7. MayMutate(r, v) /\ tx' = [tx EXCEPT ![d] = n] BY <1>3, <1>4, <1>5, <1>6 DEF LockCart
<1>8. /\ DOMAIN tx' = Handsets /\ tx'[d] = n /\ \A e \in Handsets \ {d} : tx'[e] = tx[e]
      /\ n.key = tx[d].key /\ n.target = t /\ n.stale = stale
 BY <1>6, <1>7 DEF CartInv, NoTx
<1>9. StillTrue(r, t, stale) BY <1>4, <1>5, <1>7, ChecksHold
<1>10. ASSUME NEW e \in Handsets, Holds(e)' PROVE e = d /\ HeldTrue(e)'
 <2>1. e = d BY <1>1, <1>8, <1>10 DEF Holds
 <2>2. StillTrue(r, t, stale)' BY <1>1, <1>9 DEF StillTrue, HasSelectedOtherShop, SelectedOf
 <2>3. tx'[e].target = t /\ tx'[e].stale = stale /\ asked'[tx'[e].key] = r BY <1>1, <1>3, <1>8, <2>1
 <2> QED BY <2>1, <2>2, <2>3 DEF HeldTrue, StillTrue
<1>11. \A e \in Handsets : tx'[e] # NoTx => tx[e] # NoTx /\ tx'[e].key = tx[e].key BY <1>2, <1>8
<1>12. CartOK(items)' /\ (OneShop(items)' \/ mixed') BY <1>1 DEF CartInv, CartOK, OneShop, SelectedOf
<1> QED BY <1>1, <1>8, <1>10, <1>11, <1>12 DEF CartInv

LEMMA LostStep == ASSUME CartInv, NEW d \in Handsets, Lost(d) PROVE CartInv'
<1>1. UNCHANGED <<items, saleable, asked, answered, serial, mixed>> BY DEF Lost
<1>2. DOMAIN tx' = Handsets /\ tx'[d] = NoTx /\ \A e \in Handsets \ {d} : tx'[e] = tx[e] BY DEF Lost, CartInv
<1>3. CartOK(items)' /\ (OneShop(items)' \/ mixed') BY <1>1 DEF CartInv, CartOK, OneShop, SelectedOf
<1>4. ASSUME NEW e \in Handsets, Holds(e)' PROVE tx'[e] = tx[e] /\ HeldTrue(e)'
 <2>1. tx'[e] = tx[e] /\ Holds(e) BY <1>2, <1>4, NoTxFits DEF Holds
 <2>2. HeldTrue(e) BY <2>1 DEF CartInv
 <2> QED BY <1>1, <2>1, <2>2 DEF HeldTrue, StillTrue, HasSelectedOtherShop, SelectedOf
<1>5. \A e \in Handsets : tx'[e] # NoTx => tx'[e] = tx[e] BY <1>2
<1>6. \A x, e \in Handsets : Holds(x)' /\ Holds(e)' => x = e BY <1>4 DEF Holds, CartInv
<1> QED BY <1>1, <1>2, <1>3, <1>4, <1>5, <1>6 DEF CartInv

\* Rows nobody holds are changed, none newly selected.
LEMMA RowsChange ==
    ASSUME CartInv, items' \in [Offers -> CartRows], serial' = items', saleable' \in [Offers -> Nat],
           UNCHANGED <<asked, answered, tx, mixed>>,
           \A o \in Offers : items'[o] # items[o] => RowFree(o),
           \A o \in Offers : items'[o].sel => items[o].sel /\ items'[o].qty > 0
    PROVE  CartInv'
<1>1. CartOK(items)' /\ (OneShop(items)' \/ mixed')
 <2>1. SelectedOf(items') \subseteq SelectedOf(items) BY DEF SelectedOf
 <2> QED BY <2>1 DEF CartInv, CartOK, OneShop
<1>2. \A x : HasSelectedOtherShop(items', x) => HasSelectedOtherShop(items, x)
 BY DEF HasSelectedOtherShop, SelectedOf
<1>3. ASSUME NEW e \in Handsets, Holds(e) PROVE HeldTrue(e)'
 <2>0. PICK t, z : t = tx[e].target /\ z = tx[e].stale OBVIOUS
 <2>1. PICK r \in AllRequests : r = asked[tx[e].key] BY <1>3, NoTxFits DEF CartInv, Holds
 <2>2. StillTrue(r, t, z) BY <1>3, <2>0, <2>1 DEF CartInv, HeldTrue
 <2>3. ASSUME NEW o \in Offers, o \in LockedRows(e) PROVE items'[o] = items[o] BY <2>3 DEF RowFree
 <2>4. LockedRows(e) = CASE r.op \in {"add", "select"} -> {r.offer}
                         [] r.op = "rebuy" -> {<<r.shop, g>> : g \in DOMAIN t}
                         [] OTHER -> {}
  BY <1>3, <2>0, <2>1 DEF LockedRows, Holds
 <2>5. ASSUME r.op \in {"add", "select"} PROVE items'[r.offer] = items[r.offer]
  <3>1. LockedRows(e) = {r.offer} BY <2>4, <2>5
  <3> QED BY <2>3, <2>5, <3>1, RequestFields
 <2>6. ASSUME r.op = "rebuy", NEW g \in DOMAIN t PROVE items'[<<r.shop, g>>] = items[<<r.shop, g>>]
  <3>1. LockedRows(e) = {<<r.shop, x>> : x \in DOMAIN t} BY <2>4, <2>6
  <3>2. r.shop \in Outlets /\ g \in Goods BY <2>2, <2>6, RequestFields DEF StillTrue
  <3> QED BY <2>3, <2>6, <3>1, <3>2 DEF Offers
 <2>7. StillTrue(r, t, z)' BY <1>2, <2>2, <2>5, <2>6 DEF StillTrue
 <2> QED BY <2>0, <2>1, <2>7 DEF HeldTrue, StillTrue
<1> QED BY <1>1, <1>3 DEF CartInv, Holds

LEMMA RowSteps == ASSUME CartInv, NEW o \in Offers, UpdateItem(o) \/ DeleteItem(o) PROVE CartInv'
<1>0. items \in [Offers -> CartRows] /\ serial = items /\ saleable \in [Offers -> Nat] /\ RowFree(o)
      /\ UNCHANGED <<saleable, asked, answered, tx, mixed>>
 BY DEF CartInv, CartOK, UpdateItem, DeleteItem
<1>1. PICK n \in CartRows : /\ items' = [items EXCEPT ![o] = n] /\ serial' = items'
                            /\ n.sel => items[o].sel /\ n.qty > 0
 <2>1. CASE UpdateItem(o)
  <3>1. PICK q \in 1..CartLimit : items' = [items EXCEPT ![o].qty = q] /\ serial' = [serial EXCEPT ![o].qty = q]
   BY <2>1 DEF UpdateItem
  <3>2. PICK n : n = [items[o] EXCEPT !.qty = q] OBVIOUS
  <3>3. n \in CartRows /\ n.sel = items[o].sel /\ n.qty > 0
   BY <1>0, <3>1, <3>2, CartAssumption DEF CartRows, Quantities
  <3> QED BY <1>0, <3>1, <3>2, <3>3
 <2>2. CASE DeleteItem(o)
  BY <1>0, <2>2, NoItemFits DEF DeleteItem
 <2> QED BY <2>1, <2>2
<1>2. /\ items' \in [Offers -> CartRows] /\ \A p \in Offers : items'[p] # items[p] => p = o
      /\ items'[o] = n
 BY <1>0, <1>1
<1>3. \A p \in Offers : items[p].sel => items[p].qty > 0 BY DEF CartInv, CartOK
<1>4. \A p \in Offers : items'[p].sel => items[p].sel /\ items'[p].qty > 0 BY <1>1, <1>2, <1>3
<1> QED BY <1>0, <1>1, <1>2, <1>4, RowsChange

LEMMA OrderStep == ASSUME CartInv, DeletePurchasedCartItems PROVE CartInv'
<1>0. items \in [Offers -> CartRows] /\ serial = items /\ saleable \in [Offers -> Nat]
      /\ UNCHANGED <<asked, answered, tx, mixed>> /\ \A p \in Offers : items[p].sel => items[p].qty > 0
 BY DEF CartInv, CartOK, DeletePurchasedCartItems
<1>1. PICK s \in Outlets, gs \in (SUBSET Goods) \ {{}} :
           /\ \A o \in {s} \X gs : RowFree(o) /\ saleable[o] > 0
           /\ items' = [o \in Offers |-> IF o \in {s} \X gs THEN NoItem ELSE items[o]]
           /\ serial' = [o \in Offers |-> IF o \in {s} \X gs THEN NoItem ELSE serial[o]]
           /\ saleable' = [o \in Offers |-> IF o \in {s} \X gs THEN saleable[o] - 1 ELSE saleable[o]]
 BY DEF DeletePurchasedCartItems
<1>2. PICK bought : bought = {s} \X gs OBVIOUS
<1>3. /\ items' \in [Offers -> CartRows] /\ serial' = items'
      /\ \A o \in Offers : items'[o] # items[o] => RowFree(o)
      /\ \A o \in Offers : items'[o].sel => items[o].sel /\ items'[o].qty > 0
 BY <1>0, <1>1, <1>2, NoItemFits
<1>4. saleable' \in [Offers -> Nat] BY <1>0, <1>1, <1>2
<1> QED BY <1>0, <1>3, <1>4, RowsChange

LEMMA SaleableStep == ASSUME CartInv, NEW o \in Offers, SaleableChanges(o) PROVE CartInv'
<1>0. items \in [Offers -> CartRows] /\ serial = items /\ saleable \in [Offers -> Nat]
      /\ UNCHANGED <<items, asked, answered, tx, serial, mixed>> /\ \A p \in Offers : items[p].sel => items[p].qty > 0
 BY DEF CartInv, CartOK, SaleableChanges
<1>1. saleable' \in [Offers -> Nat] BY <1>0, CartAssumption DEF SaleableChanges
<1> QED BY <1>0, <1>1, RowsChange

\* What is written is what was promised, and leaves one shop selected if one was.
Kept(r, t, z) == /\ Written(r, t) = Promised(r, items, DOMAIN t) /\ CartOK(Written(r, t))
                 /\ z \/ ~OneShop(items) \/ OneShop(Written(r, t))

\* Two carts are the same when they agree on every offer.
LEMMA SameCart ==
    ASSUME NEW f, NEW g, f = [o \in Offers |-> f[o]], g = [o \in Offers |-> g[o]], \A o \in Offers : f[o] = g[o]
    PROVE  f = g
OBVIOUS

LEMMA PromisedIsCart == \A r, cart, goods : Promised(r, cart, goods) = [o \in Offers |-> Promised(r, cart, goods)[o]]
BY DEF Promised

\* Nothing else is selected: a selection in one shop keeps the cart of one shop.
LEMMA SelectOne ==
    ASSUME NEW s, NEW cart, \A o \in Offers : cart[o].sel => o[1] = s \/ items[o].sel, ~HasSelectedOtherShop(items, s)
    PROVE  OneShop(cart)
<1>1. \A o \in SelectedOf(cart) : o[1] = s BY DEF SelectedOf, HasSelectedOtherShop, OfShop
<1> QED BY <1>1 DEF OneShop

\* Only fewer are selected.
LEMMA SelectFewer ==
    ASSUME NEW cart, \A o \in Offers : cart[o].sel => items[o].sel PROVE ~OneShop(items) \/ OneShop(cart)
BY DEF OneShop, SelectedOf

LEMMA AddKept ==
    ASSUME CartInv, NEW r \in AllRequests, NEW t, NEW z, r.op = "add", StillTrue(r, t, z)
    PROVE  Kept(r, t, z)
<1>0. items \in [Offers -> CartRows] /\ CartOK(items) /\ r.offer \in Offers /\ r.n \in Nat /\ r.n > 0 /\ CartLimit \in Nat
 BY RequestFields, CartAssumption DEF CartInv, CartOK
<1>1. PICK q \in Nat : q = items[r.offer].qty BY <1>0, CartAssumption DEF CartRows, Quantities
<1>2. PICK m \in Nat : m = q + r.n /\ m > 0 /\ m <= CartLimit BY <1>0, <1>1 DEF StillTrue
<1>3. PICK item : item = [qty |-> m, sel |-> TRUE] OBVIOUS
<1>4. item \in CartRows /\ item.qty = m /\ item.sel = TRUE BY <1>0, <1>2, <1>3 DEF CartRows, Quantities
<1>5. Written(r, t) = [items EXCEPT ![r.offer] = item]
 <2>1. Min({m, CartLimit}) = m BY <1>0, <1>2, SmallerOfTwo
 <2>2. Written(r, t) = [items EXCEPT ![r.offer] = [qty |-> Min({items[r.offer].qty + r.n, CartLimit}), sel |-> TRUE]]
  BY DEF Written, AddItem
 <2> QED BY <1>1, <1>2, <1>3, <2>1, <2>2
<1>6. \A o \in Offers : Promised(r, items, DOMAIN t)[o] = IF o = r.offer THEN item ELSE items[o]
 BY <1>1, <1>2, <1>3 DEF Promised
<1>7. PICK w : w = Written(r, t) OBVIOUS
<1>8. w \in [Offers -> CartRows] /\ \A o \in Offers : w[o] = IF o = r.offer THEN item ELSE items[o]
 BY <1>0, <1>4, <1>5, <1>7
<1>9. w = Promised(r, items, DOMAIN t) BY <1>6, <1>8, PromisedIsCart, SameCart
<1>10. CartOK(w) /\ (z \/ OneShop(w))
 <2>1. \A o \in Offers : w[o].sel => w[o].qty > 0 /\ (o[1] = r.offer[1] \/ items[o].sel)
  BY <1>0, <1>2, <1>4, <1>8 DEF CartOK
 <2>2. z \/ ~HasSelectedOtherShop(items, r.offer[1]) BY DEF StillTrue
 <2> QED BY <1>8, <2>1, <2>2, SelectOne DEF CartOK
<1> QED BY <1>7, <1>9, <1>10 DEF Kept

LEMMA SelectKept ==
    ASSUME CartInv, NEW r \in AllRequests, NEW t, NEW z, r.op = "select", StillTrue(r, t, z)
    PROVE  Kept(r, t, z)
<1>0. items \in [Offers -> CartRows] /\ CartOK(items) /\ r.offer \in Offers /\ r.on \in BOOLEAN
 BY RequestFields DEF CartInv, CartOK
<1>1. PICK item : item = [items[r.offer] EXCEPT !.sel = r.on] OBVIOUS
<1>2. item \in CartRows /\ item.qty = items[r.offer].qty /\ item.sel = r.on /\ item.qty > 0
 BY <1>0, <1>1 DEF CartRows, StillTrue
<1>3. Written(r, t) = [items EXCEPT ![r.offer] = item]
 <2>1. Written(r, t) = [items EXCEPT ![r.offer].sel = r.on] BY DEF Written, SetItemSelection
 <2> QED BY <1>1, <2>1
<1>4. \A o \in Offers : Promised(r, items, DOMAIN t)[o] = IF o = r.offer THEN item ELSE items[o]
 BY <1>1 DEF Promised
<1>5. PICK w : w = Written(r, t) OBVIOUS
<1>6. w \in [Offers -> CartRows] /\ \A o \in Offers : w[o] = IF o = r.offer THEN item ELSE items[o]
 BY <1>0, <1>2, <1>3, <1>5
<1>7. w = Promised(r, items, DOMAIN t) BY <1>4, <1>6, PromisedIsCart, SameCart
<1>8. CartOK(w) /\ (z \/ ~OneShop(items) \/ OneShop(w))
 <2>1. CASE r.on
  <3>1. \A o \in Offers : w[o].sel => w[o].qty > 0 /\ (o[1] = r.offer[1] \/ items[o].sel)
   BY <1>0, <1>2, <1>6 DEF CartOK
  <3>2. z \/ ~HasSelectedOtherShop(items, r.offer[1]) BY <2>1 DEF StillTrue
  <3> QED BY <1>6, <3>1, <3>2, SelectOne DEF CartOK
 <2>2. CASE ~r.on
  <3>1. \A o \in Offers : w[o].sel => w[o].qty > 0 /\ items[o].sel BY <1>0, <1>2, <1>6, <2>2 DEF CartOK
  <3> QED BY <1>6, <3>1, SelectFewer DEF CartOK
 <2> QED BY <2>1, <2>2
<1> QED BY <1>5, <1>7, <1>8 DEF Kept

LEMMA ShopKept ==
    ASSUME CartInv, NEW r \in AllRequests, NEW t, NEW z, r.op = "shop", StillTrue(r, t, z)
    PROVE  Kept(r, t, z)
<1>0. items \in [Offers -> CartRows] /\ CartOK(items) /\ r.on \in BOOLEAN BY RequestFields DEF CartInv, CartOK
<1>1. PICK w : w = Written(r, t) OBVIOUS
<1>2. w = [o \in Offers |-> IF o[1] = r.shop /\ items[o].qty > 0 THEN [items[o] EXCEPT !.sel = r.on] ELSE items[o]]
 <2>1. w = [o \in Offers |-> IF o \in OfShop(r.shop) \cap InCart(items)
                             THEN [items[o] EXCEPT !.sel = r.on] ELSE items[o]]
  BY <1>1 DEF Written, SetShopSelection
 <2>2. \A o \in Offers : o \in OfShop(r.shop) \cap InCart(items) <=> o[1] = r.shop /\ items[o].qty > 0
  BY DEF OfShop, InCart
 <2> QED BY <2>1, <2>2
<1>3. ASSUME NEW o \in Offers
      PROVE  /\ w[o] \in CartRows /\ w[o].qty = items[o].qty
             /\ w[o].sel = IF o[1] = r.shop /\ items[o].qty > 0 THEN r.on ELSE items[o].sel
 <2>1. PICK n : n = [items[o] EXCEPT !.sel = r.on] OBVIOUS
 <2>2. n \in CartRows /\ n.qty = items[o].qty /\ n.sel = r.on BY <1>0, <2>1 DEF CartRows
 <2>3. w[o] = IF o[1] = r.shop /\ items[o].qty > 0 THEN n ELSE items[o] BY <1>2, <2>1
 <2> QED BY <1>0, <2>2, <2>3
<1>4. \A o \in Offers : Promised(r, items, DOMAIN t)[o] = w[o] BY <1>2 DEF Promised
<1>6. w \in [Offers -> CartRows] /\ w = [o \in Offers |-> w[o]] BY <1>2, <1>3
<1>5. w = Promised(r, items, DOMAIN t) BY <1>4, <1>6, PromisedIsCart, SameCart
<1>7. CartOK(w) /\ (z \/ ~OneShop(items) \/ OneShop(w))
 <2>1. CASE r.on
  <3>1. \A o \in Offers : w[o].sel => w[o].qty > 0 /\ (o[1] = r.shop \/ items[o].sel)
   BY <1>0, <1>3 DEF CartOK
  <3>2. z \/ ~HasSelectedOtherShop(items, r.shop) BY <2>1 DEF StillTrue
  <3> QED BY <1>6, <3>1, <3>2, SelectOne DEF CartOK
 <2>2. CASE ~r.on
  <3>1. \A o \in Offers : w[o].sel => w[o].qty > 0 /\ items[o].sel BY <1>0, <1>3, <2>2 DEF CartOK
  <3> QED BY <1>6, <3>1, SelectFewer DEF CartOK
 <2> QED BY <2>1, <2>2
<1> QED BY <1>1, <1>5, <1>7 DEF Kept

LEMMA ClearKept ==
    ASSUME CartInv, NEW r \in AllRequests, NEW t, NEW z, r.op = "clear"
    PROVE  Kept(r, t, z)
<1>0. items \in [Offers -> CartRows] /\ CartOK(items) BY DEF CartInv, CartOK
<1>1. PICK w : w = Written(r, t) OBVIOUS
<1>2. w = [o \in Offers |-> IF o[1] \in r.shops THEN NoItem ELSE items[o]] BY <1>1 DEF Written, ClearItems
<1>3. w \in [Offers -> CartRows] /\ \A o \in Offers : w[o].sel => w[o].qty > 0 /\ items[o].sel
 BY <1>0, <1>2, NoItemFits DEF CartOK
<1>4. \A o \in Offers : Promised(r, items, DOMAIN t)[o] = w[o] BY <1>2 DEF Promised
<1>f. w = [o \in Offers |-> w[o]]
 BY <1>3
<1>5. w = Promised(r, items, DOMAIN t) BY <1>f, <1>4, PromisedIsCart, SameCart
<1> QED BY <1>1, <1>3, <1>5, SelectFewer DEF Kept, CartOK

LEMMA RebuyKept ==
    ASSUME CartInv, NEW r \in AllRequests, NEW t, NEW z, r.op = "rebuy", StillTrue(r, t, z)
    PROVE  Kept(r, t, z)
<1>0. items \in [Offers -> CartRows] /\ CartOK(items) /\ r.shop \in Outlets /\ CartLimit \in Nat
 BY RequestFields, CartAssumption DEF CartInv, CartOK
<1>1. PICK w : w = Written(r, t) OBVIOUS
<1>2. w = Repurchase(r, t) BY <1>1 DEF Written
<1>3. CASE DOMAIN t = {}
 <2>1. w = items BY <1>2, <1>3 DEF Repurchase
 <2>2. \A o \in Offers : Promised(r, items, DOMAIN t)[o] = items[o] BY <1>3 DEF Promised
 <2>3. items = [o \in Offers |-> items[o]] BY <1>0
 <2>4. items = Promised(r, items, DOMAIN t) BY <2>2, <2>3, PromisedIsCart, SameCart
 <2> QED BY <1>0, <1>1, <2>1, <2>4 DEF Kept
<1>4. CASE DOMAIN t # {}
 <2>1. PICK base : base = IF r.replace THEN DeselectOtherShops(items, r.shop) ELSE items OBVIOUS
 <2>2. w = [o \in Offers |-> IF o[1] = r.shop /\ o[2] \in DOMAIN t THEN [qty |-> t[o[2]], sel |-> TRUE] ELSE base[o]]
  BY <1>2, <1>4, <2>1 DEF Repurchase, SetTargetItemQuantity
 <2>3. ASSUME NEW o \in Offers
       PROVE  base[o] = IF o[1] = r.shop \/ ~r.replace THEN items[o] ELSE [items[o] EXCEPT !.sel = FALSE]
  <3>1. CASE r.replace
   BY <2>1, <3>1 DEF DeselectOtherShops
  <3>2. CASE ~r.replace
   BY <2>1, <3>2
  <3> QED BY <3>1, <3>2
 <2>4. ASSUME NEW o \in Offers, o[1] = r.shop, o[2] \in DOMAIN t
       PROVE  /\ t[o[2]] = IF items[o].qty > r.wants[o[2]] THEN items[o].qty ELSE r.wants[o[2]]
              /\ t[o[2]] \in Orderable
  <3>1. o[2] \in DOMAIN r.wants /\ <<r.shop, o[2]>> = o BY <2>4 DEF StillTrue, Offers
  <3>2. PICK m \in Nat : m = items[o].qty /\ m <= CartLimit BY <1>0 DEF CartRows, Quantities
  <3>3. PICK n \in Nat : n = r.wants[o[2]] /\ n > 0 /\ n <= CartLimit
   BY <1>0, <3>1, RequestFields DEF Orderable
  <3>4. t[o[2]] = Max({m, n}) BY <2>4, <3>1, <3>2, <3>3 DEF StillTrue
  <3>5. t[o[2]] = IF m > n THEN m ELSE n BY <3>2, <3>3, <3>4, LargerOfTwo
  <3> QED BY <1>0, <3>2, <3>3, <3>5 DEF Orderable
 <2>5. \A o \in Offers : Promised(r, items, DOMAIN t)[o] = w[o]
  <3>1. SUFFICES ASSUME NEW o \in Offers PROVE Promised(r, items, DOMAIN t)[o] = w[o] OBVIOUS
  <3>2. CASE o[1] = r.shop /\ o[2] \in DOMAIN t
   <4>1. w[o] = [qty |-> t[o[2]], sel |-> TRUE] BY <2>2, <3>2
   <4>2. Promised(r, items, DOMAIN t)[o] =
           [qty |-> IF items[o].qty > r.wants[o[2]] THEN items[o].qty ELSE r.wants[o[2]], sel |-> TRUE]
    BY <3>2, Zenon DEF Promised
   <4> QED BY <2>4, <3>2, <4>1, <4>2
  <3>3. CASE o[1] = r.shop /\ o[2] \notin DOMAIN t
   <4>1. w[o] = items[o] BY <2>2, <2>3, <3>3
   <4>2. Promised(r, items, DOMAIN t)[o] = items[o] BY <3>3 DEF Promised
   <4> QED BY <4>1, <4>2
  <3>4. CASE o[1] # r.shop
   <4>1. w[o] = IF r.replace THEN [items[o] EXCEPT !.sel = FALSE] ELSE items[o] BY <2>2, <2>3, <3>4
   <4>2. Promised(r, items, DOMAIN t)[o] = IF r.replace THEN [items[o] EXCEPT !.sel = FALSE] ELSE items[o]
    BY <1>4, <3>4 DEF Promised
   <4> QED BY <4>1, <4>2
  <3> QED BY <3>2, <3>3, <3>4
 <2>6. w = Promised(r, items, DOMAIN t)
  <3>1. w = [o \in Offers |-> w[o]] BY <2>2
  <3> QED BY <2>5, <3>1, PromisedIsCart, SameCart
 <2>7. ASSUME NEW o \in Offers
       PROVE  w[o] \in CartRows /\ (w[o].sel => w[o].qty > 0 /\ (o[1] = r.shop \/ (~r.replace /\ items[o].sel)))
  <3>0. items[o] \in CartRows /\ (items[o].sel => items[o].qty > 0) BY <1>0 DEF CartOK
  <3>1. CASE o[1] = r.shop /\ o[2] \in DOMAIN t
   <4>1. PICK q \in Quantities : q = t[o[2]] /\ q > 0 BY <1>0, <2>4, <3>1 DEF Orderable, Quantities
   <4>2. w[o] = [qty |-> q, sel |-> TRUE] BY <2>2, <3>1, <4>1
   <4> QED BY <3>1, <4>1, <4>2 DEF CartRows
  <3>2. CASE o[1] = r.shop /\ o[2] \notin DOMAIN t
   BY <2>2, <2>3, <3>0, <3>2
  <3>3. CASE o[1] # r.shop
   <4>1. w[o] = IF r.replace THEN [items[o] EXCEPT !.sel = FALSE] ELSE items[o] BY <2>2, <2>3, <3>3
   <4> QED BY <3>0, <3>3, <4>1 DEF CartRows
  <3> QED BY <3>1, <3>2, <3>3
 <2>8. CartOK(w)
  <3>1. w \in [Offers -> CartRows] BY <2>2, <2>7
  <3> QED BY <2>7, <3>1 DEF CartOK
 <2>9. z \/ OneShop(w)
  <3>1. CASE r.replace
   BY <2>7, <3>1 DEF OneShop, SelectedOf
  <3>2. CASE ~r.replace
   <4>1. z \/ ~HasSelectedOtherShop(items, r.shop) BY <1>4, <3>2 DEF StillTrue
   <4>2. \A o \in Offers : w[o].sel => o[1] = r.shop \/ items[o].sel BY <2>7
   <4> QED BY <4>1, <4>2, SelectOne
  <3> QED BY <3>1, <3>2
 <2> QED BY <1>1, <2>6, <2>8, <2>9 DEF Kept
<1> QED BY <1>3, <1>4

LEMMA CommitMutationStep == ASSUME CartInv, NEW d \in Handsets, CommitMutation(d) PROVE CartInv'
<1>1. /\ Holds(d) /\ tx[d] # NoTx /\ tx[d].key \in DOMAIN asked \ answered /\ HeldTrue(d)
      /\ \A e \in Handsets \ {d} : ~Holds(e)
 BY NoTxFits DEF CommitMutation, CartInv, Holds
<1>2. PICK k, r, t, z : k = tx[d].key /\ r = asked[k] /\ t = tx[d].target /\ z = tx[d].stale OBVIOUS
<1>3. r \in AllRequests /\ StillTrue(r, t, z) /\ k \in DOMAIN asked /\ k \notin answered
 BY <1>1, <1>2 DEF CartInv, HeldTrue
<1>4. /\ items' = Written(r, t) /\ serial' = Promised(r, serial, DOMAIN t) /\ serial = items
      /\ mixed' = (~OneShop(Written(r, t)) /\ (mixed \/ z)) /\ (OneShop(items) \/ mixed)
      /\ answered' = answered \cup {k} /\ tx' = [tx EXCEPT ![d] = NoTx] /\ UNCHANGED <<saleable, asked>>
 BY <1>2, <1>3 DEF CommitMutation, CartInv
<1>5. Kept(r, t, z) BY <1>3, RequestFields, AddKept, SelectKept, ShopKept, ClearKept, RebuyKept
<1>6. serial' = items' /\ CartOK(items)' /\ (OneShop(items)' \/ mixed')
 <2>1. PICK w : w = Written(r, t) OBVIOUS
 <2>2. serial' = items' /\ items' = w /\ CartOK(w) /\ (OneShop(w) \/ mixed') BY <1>4, <1>5, <2>1 DEF Kept
 <2> QED BY <2>2 DEF CartOK, OneShop, SelectedOf
<1>7. DOMAIN tx' = Handsets /\ tx'[d] = NoTx /\ \A e \in Handsets \ {d} : tx'[e] = tx[e] BY <1>4 DEF CartInv
<1>8. \A e \in Handsets : ~Holds(e)' BY <1>1, <1>7, NoTxFits DEF Holds
<1>9. \A e \in Handsets : tx'[e] # NoTx => tx'[e] = tx[e] /\ tx'[e].key \in DOMAIN asked' \ answered'
 BY <1>1, <1>2, <1>4, <1>7 DEF CartInv
<1> QED BY <1>3, <1>4, <1>6, <1>7, <1>8, <1>9 DEF CartInv

LEMMA CartRests == ASSUME CartInv, UNCHANGED cartVars PROVE CartInv'
<1>1. /\ items' \in [Offers -> CartRows] /\ serial' = items' /\ saleable' \in [Offers -> Nat]
      /\ UNCHANGED <<items, asked, answered, tx, mixed>> /\ \A p \in Offers : items[p].sel => items[p].qty > 0
 BY DEF CartInv, CartOK, cartVars
<1> QED BY <1>1, RowsChange

LEMMA CartKept == ASSUME CartInv, [CartNext]_cartVars PROVE CartInv'
<1>1. ASSUME NEW d \in Handsets, Ask(d) \/ AskAgain(d) \/ LockCart(d) \/ Lost(d) \/ CommitMutation(d) PROVE CartInv'
 BY <1>1, AskSteps, LockCartStep, LostStep, CommitMutationStep
<1>2. ASSUME NEW o \in Offers, UpdateItem(o) \/ DeleteItem(o) \/ SaleableChanges(o) PROVE CartInv'
 BY <1>2, RowSteps, SaleableStep
<1>3. CASE DeletePurchasedCartItems
 BY <1>3, OrderStep
<1>4. CASE UNCHANGED cartVars
 BY <1>4, CartRests
<1> QED BY <1>1, <1>2, <1>3, <1>4 DEF CartNext

----------------------------------------
(* The three together, as the retail side runs them. *)

\* What customers are shown of the catalogue was approved with its content before somebody's
\* eyes, and an old page or product is in Redis only for a reason (catalogue, policies, promises,
\* cities, rule sets, slots; product and home caches).
THEOREM CatalogueIsHonestAlways == RetailSpec => []CatalogueIsHonest
<1>1. RetailInit => PubInv /\ ShelfInv BY PubInitially, ShelfInitially DEF RetailInit
<1>2. PubInv /\ ShelfInv /\ [RetailNext]_retailVars => (PubInv /\ ShelfInv)'
 <2>1. SUFFICES ASSUME PubInv, ShelfInv, [RetailNext]_retailVars PROVE PubInv' /\ ShelfInv' OBVIOUS
 <2>2. [ShelfNext]_shelfVars /\ [PubNext]_pubVars
  BY <2>1 DEF RetailNext, OrdersPart, CartPart, ShelfPart, PublishedPart, retailVars
 <2> QED BY <2>1, <2>2, PubKept, ShelfKept
<1>3. PubInv /\ ShelfInv => CatalogueIsHonest BY PubInvImplies, ShelfInvImplies DEF CatalogueIsHonest
<1> QED BY <1>1, <1>2, <1>3, PTL DEF RetailSpec

\* The cart is the sum of the answered requests, each once, and of the row updates, whatever
\* interleaves; its items are within the limit, and the selected ones of one shop unless a request
\* selected by the selection it had seen before another changed it (cart.Service).
THEOREM CartIsSerialAlways == RetailSpec => []CartIsSerial
<1>1. RetailInit => CartInv BY CartInitially DEF RetailInit
<1>2. CartInv /\ [RetailNext]_retailVars => CartInv'
 <2>1. SUFFICES ASSUME CartInv, [RetailNext]_retailVars PROVE CartInv' OBVIOUS
 <2>2. [CartNext]_cartVars BY <2>1 DEF RetailNext, OrdersPart, CartPart, ShelfPart, PublishedPart, retailVars
 <2> QED BY <2>1, <2>2, CartKept
<1> QED BY <1>1, <1>2, CartInvImplies, PTL DEF RetailSpec

----------------------------------------
(* The Idempotency-Key store, for any number of attempts, keys and *)
(* payloads. *)
\* A claimed row carries its owner's payload hash.
ProcessingRow ==
    \A k \in Keys : row[k].status = "processing" =>
        /\ row[k].id \in Attempts /\ row[k].hash = HashOf[row[k].id]

\* A stored response was computed by an attempt under this key that sent the
\* payload the row is bound to.
SucceededRow ==
    \A k \in Keys : row[k].status = "succeeded" =>
        /\ row[k].body \in Attempts /\ KeyOf[row[k].body] = k /\ row[k].hash = HashOf[row[k].body]

\* What an attempt holds or was given is what its key's row says.
AttemptState ==
    \A a \in Attempts :
        LET rec == row[KeyOf[a]] IN
        /\ pc[a] = "committed" => rec.status = "succeeded" /\ rec.body = a
        /\ served[a] # None =>
              rec.status = "succeeded" /\ rec.body = served[a] /\ rec.hash = HashOf[a]

\* A handler whose lease never ran out still owns the row, and only a live lease
\* belongs to an attempt.
LeaseState ==
    /\ \A k \in Keys : row[k].lease = "live" =>
            row[k].status = "processing" /\ row[k].id \in Attempts
    /\ \A a \in Attempts : pc[a] \in Working /\ a \notin lapsed =>
            /\ row[KeyOf[a]].id = a /\ row[KeyOf[a]].lease = "live"
    /\ \A a \in Attempts : pc[a] \in Working => KeyOf[a] \in External

\* The inductive invariant.
IInv ==
    /\ TypeOK /\ ProcessingRow /\ SucceededRow /\ AttemptState /\ LeaseState /\ TxEffectOnce

USE DEF Statuses, Leases, Working, Ended, PCs

\* What Save leaves in the rows.
LEMMA SaveFacts ==
    ASSUME TypeOK, NEW a \in Attempts, NEW status \in Statuses, NEW lease \in Leases,
           NEW body \in Attempts \cup {None}, Save(a, status, lease, body)
    PROVE  /\ row' \in [Keys -> Record]
           /\ row'[KeyOf[a]] = [status |-> status, id |-> a, hash |-> HashOf[a],
                                lease |-> lease, body |-> body]
           /\ \A k \in Keys : k # KeyOf[a] => row'[k] = row[k]
<1>1. KeyOf[a] \in Keys /\ HashOf[a] \in Hashes BY ConstantsAssumption
<1>2. [status |-> status, id |-> a, hash |-> HashOf[a], lease |-> lease, body |-> body] \in Record
 BY <1>1 DEF Record
<1>3. QED BY <1>1, <1>2 DEF Save, TypeOK

\* What Goto leaves in the program counters.
LEMMA GotoFacts ==
    ASSUME TypeOK, NEW a \in Attempts, NEW label \in PCs, Goto(a, label)
    PROVE  /\ pc' \in [Attempts -> PCs] /\ pc'[a] = label
           /\ \A b \in Attempts : b # a => pc'[b] = pc[b]
  BY DEF Goto, TypeOK

\* Every field of a row has its type.
LEMMA RowType ==
    ASSUME TypeOK, NEW k \in Keys
    PROVE  /\ row[k].status \in Statuses /\ row[k].id \in Attempts \cup {None} /\ row[k].lease \in Leases
           /\ row[k].body \in Attempts \cup {None}
  BY DEF TypeOK, Record

\* An attempt refused the claim ends or waits; it is served only a stored
\* response made for its own payload.
LEMMA ExistingFacts ==
    ASSUME IInv, NEW a \in Attempts, ExistingClaimResult(a)
    PROVE  /\ pc' \in [Attempts -> PCs] /\ served' \in [Attempts -> Attempts \cup {None}]
           /\ pc'[a] \notin Working \cup {"committed"}
           /\ \A b \in Attempts : b # a => pc'[b] = pc[b] /\ served'[b] = served[b]
           /\ \/ served'[a] = served[a]
              \/ /\ row[KeyOf[a]].status = "succeeded" /\ row[KeyOf[a]].hash = HashOf[a]
                 /\ served'[a] = row[KeyOf[a]].body
<1>. KeyOf[a] \in Keys
 BY ConstantsAssumption
<1>1. CASE Goto(a, "reused") /\ UNCHANGED served
 BY <1>1, GotoFacts DEF IInv, TypeOK
<1>2. CASE Goto(a, "inProgress") /\ UNCHANGED served
 BY <1>2, GotoFacts DEF IInv, TypeOK
<1>3. CASE /\ row[KeyOf[a]].hash = HashOf[a] /\ row[KeyOf[a]].status = "succeeded" /\ Goto(a, "answered")
           /\ served' = [served EXCEPT ![a] = row[KeyOf[a]].body]
 <2>1. row[KeyOf[a]].body \in Attempts \cup {None} BY RowType DEF IInv
 <2>2. QED BY <1>3, <2>1, GotoFacts DEF IInv, TypeOK
<1>4. QED BY <1>1, <1>2, <1>3 DEF ExistingClaimResult

\* A handler's step that leaves the rows alone keeps the invariant when it does
\* not begin work, and is served only what its key's row holds.
LEMMA RowsUnchanged ==
    ASSUME IInv, NEW a \in Attempts,
           UNCHANGED <<row, lapsed, effects>>,
           pc' \in [Attempts -> PCs],
           served' \in [Attempts -> Attempts \cup {None}],
           pc'[a] \notin Working \cup {"committed"},
           \A b \in Attempts : b # a => pc'[b] = pc[b] /\ served'[b] = served[b],
           \/ served'[a] = served[a]
           \/ /\ row[KeyOf[a]].status = "succeeded" /\ row[KeyOf[a]].hash = HashOf[a]
              /\ served'[a] = row[KeyOf[a]].body
    PROVE  IInv'
<1>1. TypeOK' /\ ProcessingRow' /\ SucceededRow' /\ TxEffectOnce'
 BY DEF IInv, TypeOK, ProcessingRow, SucceededRow, TxEffectOnce
<1>2. AttemptState'
 <2>. SUFFICES ASSUME NEW b \in Attempts
               PROVE  /\ pc'[b] = "committed" =>
                           row[KeyOf[b]].status = "succeeded" /\ row[KeyOf[b]].body = b
                      /\ served'[b] # None =>
                           /\ row[KeyOf[b]].status = "succeeded" /\ row[KeyOf[b]].body = served'[b]
                           /\ row[KeyOf[b]].hash = HashOf[b]
  BY DEF AttemptState
 <2>1. QED BY DEF IInv, AttemptState
<1>3. LeaseState'
 <2>1. \A b \in Attempts : pc'[b] \in Working => pc[b] \in Working OBVIOUS
 <2>2. QED BY <2>1 DEF IInv, LeaseState
<1>4. QED BY <1>1, <1>2, <1>3 DEF IInv

\* A step that writes the row of its key keeps the invariant when the row had
\* not succeeded and no other attempt's lease on it was live.
LEMMA RowSaved ==
    ASSUME IInv, NEW a \in Attempts, NEW status \in Statuses, NEW lease \in Leases,
           NEW body \in Attempts \cup {None}, NEW label \in PCs,
           Save(a, status, lease, body), Goto(a, label), UNCHANGED <<served, lapsed>>,
           row[KeyOf[a]].status # "succeeded",
           row[KeyOf[a]].lease = "live" => row[KeyOf[a]].id = a,
           status = "succeeded" => body = a,
           lease = "live" => status = "processing",
           label = "committed" => status = "succeeded",
           label \in Working => lease = "live" /\ KeyOf[a] \in External,
           effects' \in [Keys -> SUBSET Attempts],
           \A k \in Keys : k # KeyOf[a] => effects'[k] = effects[k],
           KeyOf[a] \notin External =>
               effects'[KeyOf[a]] = IF status = "succeeded" THEN {a} ELSE {}
    PROVE  IInv'
<1>. KeyOf[a] \in Keys /\ HashOf[a] \in Hashes /\ a # None
 BY ConstantsAssumption
<1>. DEFINE rec == [status |-> status, id |-> a, hash |-> HashOf[a],
                    lease |-> lease, body |-> body]
<1>0. /\ row' \in [Keys -> Record] /\ row'[KeyOf[a]] = rec
      /\ \A k \in Keys : k # KeyOf[a] => row'[k] = row[k]
      /\ pc' \in [Attempts -> PCs] /\ pc'[a] = label
      /\ \A b \in Attempts : b # a => pc'[b] = pc[b]
 BY SaveFacts, GotoFacts DEF IInv
<1>1. TypeOK' BY <1>0 DEF IInv, TypeOK
<1>2. ProcessingRow' BY <1>0 DEF IInv, ProcessingRow
<1>3. SucceededRow' BY <1>0 DEF IInv, SucceededRow
<1>4. AttemptState'
 <2>. SUFFICES ASSUME NEW b \in Attempts
               PROVE  /\ pc'[b] = "committed" =>
                           row'[KeyOf[b]].status = "succeeded" /\ row'[KeyOf[b]].body = b
                      /\ served[b] # None =>
                           /\ row'[KeyOf[b]].status = "succeeded" /\ row'[KeyOf[b]].body = served[b]
                           /\ row'[KeyOf[b]].hash = HashOf[b]
  BY DEF AttemptState
 <2>1. CASE KeyOf[b] # KeyOf[a]
  <3>1. KeyOf[b] \in Keys /\ b # a BY <2>1, ConstantsAssumption
  <3>2. row'[KeyOf[b]] = row[KeyOf[b]] /\ pc'[b] = pc[b] BY <1>0, <2>1, <3>1
  <3>3. QED BY <3>2 DEF IInv, AttemptState
 <2>2. CASE KeyOf[b] = KeyOf[a]
  <3>1. served[b] = None /\ pc[b] # "committed" BY <2>2 DEF IInv, AttemptState
  <3>2. QED BY <1>0, <2>2, <3>1
 <2>3. QED BY <2>1, <2>2
<1>5. LeaseState'
 <2>1. ASSUME NEW k \in Keys, row'[k].lease = "live"
       PROVE  row'[k].status = "processing" /\ row'[k].id \in Attempts
  BY <1>0, <2>1 DEF IInv, LeaseState
 <2>2. ASSUME NEW b \in Attempts, pc'[b] \in Working, b \notin lapsed
       PROVE  row'[KeyOf[b]].id = b /\ row'[KeyOf[b]].lease = "live"
  <3>1. CASE b = a
   BY <1>0, <2>2, <3>1
  <3>2. CASE b # a
   <4>1. row[KeyOf[b]].id = b /\ row[KeyOf[b]].lease = "live" /\ KeyOf[b] \in Keys
    BY <1>0, <2>2, <3>2, ConstantsAssumption DEF IInv, LeaseState
   <4>2. KeyOf[b] # KeyOf[a] BY <3>2, <4>1
   <4>3. QED BY <1>0, <4>1, <4>2
  <3>3. QED BY <3>1, <3>2
 <2>3. \A b \in Attempts : pc'[b] \in Working => KeyOf[b] \in External BY <1>0 DEF IInv, LeaseState
 <2>4. QED BY <2>1, <2>2, <2>3 DEF LeaseState
<1>6. TxEffectOnce'
 <2>. SUFFICES ASSUME NEW k \in Keys \ External
               PROVE  effects'[k] = IF row'[k].status = "succeeded" THEN {row'[k].body} ELSE {}
  BY DEF TxEffectOnce
 <2>1. CASE k = KeyOf[a]
  <3>1. row'[k].status = status /\ row'[k].body = body BY <1>0, <2>1
  <3>2. QED BY <2>1, <3>1
 <2>2. CASE k # KeyOf[a]
  BY <1>0, <2>2 DEF IInv, TxEffectOnce
 <2>3. QED BY <2>1, <2>2
<1>7. QED BY <1>1, <1>2, <1>3, <1>4, <1>5, <1>6 DEF IInv

\* An attempt that may claim a key finds neither a response nor a live lease.
LEMMA ClaimableFacts ==
    ASSUME IInv, NEW a \in Attempts, Claimable(a)
    PROVE  row[KeyOf[a]].status # "succeeded" /\ row[KeyOf[a]].lease # "live"
<1>. KeyOf[a] \in Keys
 BY ConstantsAssumption
<1>1. QED BY DEF Claimable, IInv, LeaseState

\* The inductive invariant holds initially.
LEMMA InitInv == Init => IInv
<1>. SUFFICES ASSUME Init PROVE IInv
 OBVIOUS
<1>1. \A a \in Attempts : KeyOf[a] \in Keys BY ConstantsAssumption
<1>2. NoRow \in Record BY DEF NoRow, Record
<1>3. TypeOK BY <1>2 DEF Init, TypeOK
<1>4. ProcessingRow /\ SucceededRow /\ AttemptState /\ LeaseState /\ TxEffectOnce
 BY <1>1 DEF Init, NoRow, ProcessingRow, SucceededRow, AttemptState, LeaseState, TxEffectOnce
<1>5. QED BY <1>3, <1>4 DEF IInv

\* Every step of a handler, a client or the clock keeps the inductive invariant.
LEMMA NextInv == IInv /\ [Next]_vars => IInv'
<1>. SUFFICES ASSUME IInv, [Next]_vars PROVE IInv'
 OBVIOUS
<1>. \A a \in Attempts : KeyOf[a] \in Keys /\ HashOf[a] \in Hashes /\ a # None
 BY ConstantsAssumption
<1>1. CASE UNCHANGED vars
 BY <1>1 DEF vars, IInv, TypeOK, ProcessingRow, SucceededRow, AttemptState, LeaseState, TxEffectOnce
<1>2. ASSUME NEW a \in Attempts, StartAt(a) PROVE IInv'
 <2>1. CASE Claimable(a) /\ Save(a, "processing", "live", row[KeyOf[a]].body) /\ Goto(a, "claimed")
            /\ UNCHANGED served
  <3>1. row[KeyOf[a]].body \in Attempts \cup {None} BY RowType DEF IInv
  <3>2. UNCHANGED <<served, lapsed, effects>> /\ KeyOf[a] \in External BY <1>2, <2>1 DEF StartAt
  <3>3. QED BY <2>1, <3>1, <3>2, ClaimableFacts, RowSaved DEF IInv, TypeOK
 <2>2. CASE ExistingClaimResult(a) /\ UNCHANGED row
  BY <1>2, <2>2, ExistingFacts, RowsUnchanged DEF StartAt
 <2>3. QED BY <1>2, <2>1, <2>2 DEF StartAt
<1>3. ASSUME NEW a \in Attempts, CallProvider(a) PROVE IInv'
 <2>1. /\ pc' \in [Attempts -> PCs] /\ pc[a] \in Working /\ pc'[a] = "called"
       /\ \A b \in Attempts : b # a => pc'[b] = pc[b]
  BY <1>3, GotoFacts DEF CallProvider, IInv
 <2>2. /\ effects' \in [Keys -> SUBSET Attempts]
       /\ \A k \in Keys : k # KeyOf[a] => effects'[k] = effects[k]
  BY <1>3 DEF CallProvider, IInv, TypeOK
 <2>3. UNCHANGED <<row, served, lapsed>> BY <1>3 DEF CallProvider
 <2>4. TypeOK' /\ ProcessingRow' /\ SucceededRow'
  BY <2>1, <2>2, <2>3 DEF IInv, TypeOK, ProcessingRow, SucceededRow
 <2>5. AttemptState' BY <2>1, <2>3 DEF IInv, AttemptState
 <2>6. LeaseState' BY <2>1, <2>3 DEF IInv, LeaseState
 <2>7. TxEffectOnce'
  <3>1. KeyOf[a] \in External BY <2>1 DEF IInv, LeaseState
  <3>2. QED BY <2>2, <2>3, <3>1 DEF IInv, TxEffectOnce
 <2>8. QED BY <2>4, <2>5, <2>6, <2>7 DEF IInv
<1>4. ASSUME NEW a \in Attempts, SucceedOwned(a) PROVE IInv'
 <2>1. CASE Owns(a) /\ Save(a, "succeeded", "null", a) /\ Goto(a, "committed")
  <3>1. KeyOf[a] \in External BY <1>4 DEF SucceedOwned, IInv, LeaseState
  <3>2. UNCHANGED <<served, lapsed, effects>> BY <1>4 DEF SucceedOwned
  <3>3. QED BY <2>1, <3>1, <3>2, RowSaved DEF Owns, IInv, TypeOK
 <2>2. CASE Goto(a, "claimLost") /\ UNCHANGED row
  BY <1>4, <2>2, GotoFacts, RowsUnchanged DEF SucceedOwned, IInv, TypeOK
 <2>3. QED BY <1>4, <2>1, <2>2 DEF SucceedOwned
<1>5. ASSUME NEW a \in Attempts, FailOwned(a) PROVE IInv'
 <2>1. CASE Owns(a) /\ Save(a, "failed", "null", row[KeyOf[a]].body) /\ Goto(a, "failed")
  <3>1. KeyOf[a] \in External /\ row[KeyOf[a]].body \in Attempts \cup {None}
   BY <1>5, RowType DEF FailOwned, IInv, LeaseState
  <3>2. UNCHANGED <<served, lapsed, effects>> BY <1>5 DEF FailOwned
  <3>3. QED BY <2>1, <3>1, <3>2, RowSaved DEF Owns, IInv, TypeOK
 <2>2. CASE Goto(a, "claimLost") /\ UNCHANGED row
  BY <1>5, <2>2, GotoFacts, RowsUnchanged DEF FailOwned, IInv, TypeOK
 <2>3. QED BY <1>5, <2>1, <2>2 DEF FailOwned
<1>6. ASSUME NEW a \in Attempts, Succeed(a) PROVE IInv'
 <2>1. KeyOf[a] \notin External /\ Claimable(a) BY <1>6 DEF Succeed, TxBegin
 <2>2. row[KeyOf[a]].status # "succeeded" /\ row[KeyOf[a]].lease # "live" BY <2>1, ClaimableFacts
 <2>3. effects[KeyOf[a]] = {} BY <2>1, <2>2 DEF IInv, TxEffectOnce
 <2>4. /\ effects' \in [Keys -> SUBSET Attempts]
       /\ \A k \in Keys : k # KeyOf[a] => effects'[k] = effects[k]
       /\ effects'[KeyOf[a]] = {a}
  BY <1>6, <2>3 DEF Succeed, IInv, TypeOK
 <2>5. Save(a, "succeeded", "null", a) /\ Goto(a, "committed") /\ UNCHANGED <<served, lapsed>>
  BY <1>6 DEF Succeed
 <2>6. QED BY <2>1, <2>2, <2>4, <2>5, RowSaved
<1>7. ASSUME NEW a \in Attempts, Fail(a) PROVE IInv'
 <2>1. KeyOf[a] \notin External /\ Claimable(a) BY <1>7 DEF Fail, TxBegin
 <2>2. row[KeyOf[a]].status # "succeeded" /\ row[KeyOf[a]].lease # "live" BY <2>1, ClaimableFacts
 <2>3. effects[KeyOf[a]] = {} /\ row[KeyOf[a]].body \in Attempts \cup {None}
  BY <2>1, <2>2, RowType DEF IInv, TxEffectOnce
 <2>4. /\ Save(a, "failed", "null", row[KeyOf[a]].body)
       /\ Goto(a, "failed") /\ UNCHANGED <<served, lapsed, effects>>
  BY <1>7 DEF Fail
 <2>5. QED BY <2>1, <2>2, <2>3, <2>4, RowSaved DEF IInv, TypeOK
<1>8. ASSUME NEW a \in Attempts, TxRollback(a) \/ Crash(a) \/ Retry(a) PROVE IInv'
 <2>1. \E label \in {"rejected", "dead", "new"} : Goto(a, label) BY <1>8 DEF TxRollback, Crash, Retry
 <2>2. UNCHANGED <<row, served, lapsed, effects>> BY <1>8 DEF TxRollback, Crash, Retry
 <2>3. QED BY <2>1, <2>2, GotoFacts, RowsUnchanged DEF IInv, TypeOK
<1>9. ASSUME NEW a \in Attempts, TxExisting(a) PROVE IInv'
 BY <1>9, ExistingFacts, RowsUnchanged DEF TxExisting
<1>10. ASSUME NEW a \in Attempts, Respond(a) PROVE IInv'
 <2>1. row[KeyOf[a]].status = "succeeded" /\ row[KeyOf[a]].body = a BY <1>10 DEF Respond, IInv, AttemptState
 <2>2. row[KeyOf[a]].hash = HashOf[a] BY <2>1 DEF IInv, SucceededRow
 <2>3. /\ served' \in [Attempts -> Attempts \cup {None}] /\ served'[a] = a
       /\ \A b \in Attempts : b # a => served'[b] = served[b]
  BY <1>10 DEF Respond, IInv, TypeOK
 <2>4. QED BY <1>10, <2>1, <2>2, <2>3, GotoFacts, RowsUnchanged DEF Respond, IInv
<1>11. ASSUME NEW a \in Attempts, ReplayCompleted(a) PROVE IInv'
 <2>1. CASE ExistingClaimResult(a)
  BY <1>11, <2>1, ExistingFacts, RowsUnchanged DEF ReplayCompleted
 <2>2. CASE Goto(a, "checked") /\ UNCHANGED served
  BY <1>11, <2>2, GotoFacts, RowsUnchanged DEF ReplayCompleted, IInv, TypeOK
 <2>3. QED BY <1>11, <2>1, <2>2 DEF ReplayCompleted
<1>12. ASSUME NEW k \in Keys, LeaseExpires(k) PROVE IInv'
 <2>1. row[k].id \in Attempts /\ row[k].status = "processing" BY <1>12 DEF LeaseExpires, IInv, LeaseState
 <2>2. /\ row' \in [Keys -> Record] /\ row'[k].status = row[k].status /\ row'[k].id = row[k].id
       /\ row'[k].hash = row[k].hash /\ row'[k].body = row[k].body /\ row'[k].lease = "lapsed"
       /\ \A j \in Keys : j # k => row'[j] = row[j]
  BY <1>12 DEF LeaseExpires, IInv, TypeOK, Record
 <2>3. UNCHANGED <<pc, served, effects>> /\ lapsed' = lapsed \cup {row[k].id} BY <1>12 DEF LeaseExpires
 <2>4. TypeOK' BY <2>1, <2>2, <2>3 DEF IInv, TypeOK
 <2>5. ProcessingRow' BY <2>2 DEF IInv, ProcessingRow
 <2>6. SucceededRow' BY <2>2 DEF IInv, SucceededRow
 <2>7. AttemptState' BY <2>1, <2>2, <2>3 DEF IInv, AttemptState
 <2>8. LeaseState'
  <3>1. \A j \in Keys : row'[j].lease = "live" => row'[j].status = "processing" /\ row'[j].id \in Attempts
   BY <2>2 DEF IInv, LeaseState
  <3>2. ASSUME NEW b \in Attempts, pc'[b] \in Working, b \notin lapsed'
        PROVE  row'[KeyOf[b]].id = b /\ row'[KeyOf[b]].lease = "live"
   <4>1. row[KeyOf[b]].id = b /\ row[KeyOf[b]].lease = "live" /\ b # row[k].id
    BY <2>3, <3>2 DEF IInv, LeaseState
   <4>2. QED BY <2>2, <4>1
  <3>3. \A b \in Attempts : pc'[b] \in Working => KeyOf[b] \in External BY <2>3 DEF IInv, LeaseState
  <3>4. QED BY <3>1, <3>2, <3>3 DEF LeaseState
 <2>9. TxEffectOnce' BY <2>2, <2>3 DEF IInv, TxEffectOnce
 <2>10. QED BY <2>4, <2>5, <2>6, <2>7, <2>8, <2>9 DEF IInv
<1>13. QED
 BY <1>1, <1>2, <1>3, <1>4, <1>5, <1>6, <1>7, <1>8, <1>9, <1>10, <1>11, <1>12
 DEF Next, Handle

\* The inductive invariant holds in every reachable state.
THEOREM Invariance == Spec => []IInv
  BY InitInv, NextInv, PTL DEF Spec

\* Rows and handler states keep their types.
THEOREM TypeCorrect == Spec => []TypeOK
<1>1. IInv => TypeOK BY DEF IInv
<1>2. QED BY <1>1, Invariance, PTL

\* All answered attempts of a key got one response, made for their payload.
THEOREM AnswersAgreeAlways == Spec => []AnswersAgree
<1>1. IInv => AnswersAgree BY ConstantsAssumption DEF IInv, AnswersAgree, AttemptState, SucceededRow
<1>2. QED BY <1>1, Invariance, PTL

\* A live claim excludes every other handler of the key.
THEOREM LiveClaimExcludesAlways == Spec => []LiveClaimExcludes
<1>1. IInv => LiveClaimExcludes BY DEF IInv, LiveClaimExcludes, LeaseState
<1>2. QED BY <1>1, Invariance, PTL

\* A transactional endpoint's write takes effect once, when the key succeeds.
THEOREM TxEffectOnceAlways == Spec => []TxEffectOnce
<1>1. IInv => TxEffectOnce BY DEF IInv
<1>2. QED BY <1>1, Invariance, PTL

\* The three things a step can do to the rows and the answers: nothing a client
\* can see, commit the first response of a key, or serve a stored response.
StepShape ==
    \/ /\ \A k \in Keys : row[k].status = "succeeded" => row'[k] = row[k]
       /\ \A k \in Keys : row'[k].status = "succeeded" => row'[k] = row[k]
       /\ served' = served
    \/ \E a \in Attempts :
         /\ row[KeyOf[a]].status # "succeeded" /\ row'[KeyOf[a]].status = "succeeded" /\ row'[KeyOf[a]].body = a
         /\ \A k \in Keys : k # KeyOf[a] => row'[k] = row[k]
         /\ served' = served
    \/ \E a \in Attempts :
         /\ row' = row /\ row[KeyOf[a]].status = "succeeded" /\ row[KeyOf[a]].hash = HashOf[a]
         /\ served' = [served EXCEPT ![a] = row[KeyOf[a]].body]

\* Every step has one of the three shapes.
LEMMA NextShape == ASSUME IInv, [Next]_vars PROVE StepShape
<1>. \A a \in Attempts : KeyOf[a] \in Keys /\ HashOf[a] \in Hashes /\ a # None
 BY ConstantsAssumption
<1>1. ASSUME UNCHANGED <<row, served>> PROVE StepShape BY <1>1 DEF StepShape
<1>2. ASSUME NEW a \in Attempts, ExistingClaimResult(a), UNCHANGED row PROVE StepShape
 BY <1>2 DEF ExistingClaimResult, StepShape
<1>3. ASSUME NEW a \in Attempts, NEW status \in {"processing", "failed"}, NEW lease \in Leases,
             Save(a, status, lease, row[KeyOf[a]].body), UNCHANGED served,
             row[KeyOf[a]].status # "succeeded"
      PROVE  StepShape
 <2>1. row'[KeyOf[a]].status = status /\ \A k \in Keys : k # KeyOf[a] => row'[k] = row[k]
  BY <1>3 DEF Save, IInv, TypeOK
 <2>2. QED BY <1>3, <2>1 DEF StepShape
<1>4. ASSUME NEW a \in Attempts, Save(a, "succeeded", "null", a), UNCHANGED served,
             row[KeyOf[a]].status # "succeeded"
      PROVE  StepShape
 <2>1. /\ row'[KeyOf[a]].status = "succeeded" /\ row'[KeyOf[a]].body = a
       /\ \A k \in Keys : k # KeyOf[a] => row'[k] = row[k]
  BY <1>4 DEF Save, IInv, TypeOK
 <2>2. QED BY <1>4, <2>1 DEF StepShape
<1>5. ASSUME NEW a \in Attempts, Handle(a) PROVE StepShape
 <2>1. CASE StartAt(a)
  BY <1>2, <1>3, <2>1, ClaimableFacts DEF StartAt
 <2>2. CASE SucceedOwned(a)
  BY <1>1, <1>4, <2>2 DEF SucceedOwned, Owns
 <2>3. CASE FailOwned(a)
  BY <1>1, <1>3, <2>3 DEF FailOwned, Owns
 <2>4. CASE Succeed(a)
  BY <1>4, <2>4, ClaimableFacts DEF Succeed
 <2>5. CASE Fail(a)
  BY <1>3, <2>5, ClaimableFacts DEF Fail
 <2>6. CASE TxExisting(a)
  BY <1>2, <2>6 DEF TxExisting
 <2>7. CASE Respond(a)
  <3>1. row[KeyOf[a]].status = "succeeded" /\ row[KeyOf[a]].body = a BY <2>7 DEF Respond, IInv, AttemptState
  <3>2. row[KeyOf[a]].hash = HashOf[a] BY <3>1 DEF IInv, SucceededRow
  <3>3. QED BY <2>7, <3>1, <3>2 DEF Respond, StepShape
 <2>8. CASE CallProvider(a) \/ TxRollback(a)
  BY <1>1, <2>8 DEF CallProvider, TxRollback
 <2>9. QED BY <1>5, <2>1, <2>2, <2>3, <2>4, <2>5, <2>6, <2>7, <2>8 DEF Handle
<1>6. ASSUME NEW a \in Attempts, ReplayCompleted(a) PROVE StepShape BY <1>1, <1>2, <1>6 DEF ReplayCompleted
<1>7. ASSUME NEW a \in Attempts, Crash(a) \/ Retry(a) PROVE StepShape BY <1>1, <1>7 DEF Crash, Retry
<1>8. ASSUME NEW k \in Keys, LeaseExpires(k) PROVE StepShape
 <2>1. row[k].status = "processing" BY <1>8 DEF LeaseExpires, IInv, LeaseState
 <2>2. /\ row'[k].status = row[k].status
       /\ \A j \in Keys : j # k => row'[j] = row[j]
       /\ served' = served
  BY <1>8 DEF LeaseExpires, IInv, TypeOK, Record
 <2>3. QED BY <2>1, <2>2 DEF StepShape
<1>9. CASE UNCHANGED vars
 BY <1>1, <1>9 DEF vars
<1>10. QED BY <1>5, <1>6, <1>7, <1>8, <1>9 DEF Next

\* No step of any handler, fenced or not, changes a succeeded row.
THEOREM SucceededIsFinalAlways == Spec => SucceededIsFinal
<1>1. ASSUME IInv, [Next]_vars
      PROVE  [\A k \in Keys : row[k].status = "succeeded" => row'[k] = row[k]]_vars
 BY <1>1, NextShape DEF StepShape
<1>2. QED BY <1>1, Invariance, PTL DEF Spec, SucceededIsFinal

\* The store implements the abstract write-once answer.
THEOREM Refinement == Spec => ImplementsAnswerOnce
<1>1. Init => Abstract!Init BY DEF Init, NoRow, Abstract!Init, Response
<1>2. ASSUME IInv, [Next]_vars PROVE [Abstract!Next]_(Abstract!vars)
 <2>. \A a \in Attempts : KeyOf[a] \in Keys /\ a # None
  BY ConstantsAssumption
 <2>0. StepShape BY <1>2, NextShape
 <2>1. ASSUME \A k \in Keys : row[k].status = "succeeded" => row'[k] = row[k],
              \A k \in Keys : row'[k].status = "succeeded" => row'[k] = row[k],
              served' = served
       PROVE  UNCHANGED Abstract!vars
  <3>1. \A k \in Keys : Response'[k] = Response[k] BY <2>1 DEF Response
  <3>2. Response' = Response BY <3>1 DEF Response
  <3>3. QED BY <2>1, <3>2 DEF Abstract!vars
 <2>2. ASSUME NEW a \in Attempts,
              row[KeyOf[a]].status # "succeeded",
              row'[KeyOf[a]].status = "succeeded", row'[KeyOf[a]].body = a,
              \A k \in Keys : k # KeyOf[a] => row'[k] = row[k],
              served' = served
       PROVE  Abstract!Commit(a)
  <3>1. Response[KeyOf[a]] = None BY <2>2 DEF Response
  <3>2. Response' = [Response EXCEPT ![KeyOf[a]] = a] BY <2>2 DEF Response
  <3>3. QED BY <2>2, <3>1, <3>2 DEF Abstract!Commit
 <2>3. ASSUME NEW a \in Attempts, row' = row,
              row[KeyOf[a]].status = "succeeded", row[KeyOf[a]].hash = HashOf[a],
              served' = [served EXCEPT ![a] = row[KeyOf[a]].body]
       PROVE  Abstract!Serve(a)
  <3>1. Response[KeyOf[a]] = row[KeyOf[a]].body /\ Response' = Response BY <2>3 DEF Response
  <3>2. row[KeyOf[a]].body \in Attempts /\ HashOf[row[KeyOf[a]].body] = HashOf[a]
   BY <1>2, <2>3 DEF IInv, SucceededRow
  <3>3. QED BY <2>3, <3>1, <3>2 DEF Abstract!Serve
 <2>4. QED BY <2>0, <2>1, <2>2, <2>3 DEF StepShape, Abstract!Next
<1>3. QED BY <1>1, <1>2, Invariance, PTL DEF Spec, ImplementsAnswerOnce, Abstract!Spec
=============================================================================

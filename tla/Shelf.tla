------------------------------- MODULE Shelf -------------------------------
(***************************************************************************)
(* What customers read through Redis while it is being changed: the list   *)
(* of categories (product.Service.ListCategories, keyed by a digest of the *)
(* rows and confirmed), product details (GetPublicProduct, deleted by the  *)
(* writers and by cache.invalidate events) and home pages (publicBase,     *)
(* keyed by version counters the writers increment after they commit).     *)
(* A product detail also shows the stock, and most of those who change the *)
(* stock (orders, returns, redemptions) know nothing of the cache.         *)
(* A behaviour is about one of the three. Contents are numbered; a writer  *)
(* always leaves a new one.                                                *)
(***************************************************************************)
EXTENDS Integers, FiniteSets

CONSTANTS Shoppers,   \* reading requests
          Writers,    \* writing requests
          Cities,     \* the home pages
          WriteBound, \* bound: committed changes
          DeathBound, \* bound: requests cut off after their commit
          ReadAttempts    \* categoryCacheReadAttempts

VARIABLES cache,   \* which of the three
          committed,    \* the committed content of each page
          version, \* home_version of each city and "global"
          entries, \* what Redis holds
          shopper, \* reading requests under way
          writer,  \* writing requests that have committed and not yet invalidated
          queue,   \* cache.invalidate events not handled
          missed,  \* history: pages whose last change was not followed by its invalidation
          silent,  \* history: such a change had no event either
          onHand,  \* available_qty
          writes, deaths

shelfVars == <<cache, committed, version, entries, shopper, writer, queue, missed, silent, onHand, writes, deaths>>

Caches == {"category", "product", "home"}
Pages  == IF cache = "home" THEN Cities ELSE {"all"}
NoRead == [step |-> "idle", page |-> "all", version |-> <<0, 0>>, got |-> 0, passed |-> FALSE, tries |-> 0, during |-> {},
           qty |-> 0, moved |-> FALSE]
NoWrite == [pages |-> {}, bump |-> "none", event |-> FALSE]

ShelfInit ==
    /\ cache \in Caches
    /\ committed = [p \in Pages |-> IF cache = "product" THEN 0 ELSE 1] \* 0: no such product in the shop
    /\ version = [p \in Cities \cup {"global"} |-> 0]
    /\ entries = {} /\ queue = 0
    /\ shopper = [s \in Shoppers |-> NoRead]
    /\ writer = [w \in Writers |-> NoWrite]
    /\ missed = {} /\ silent = FALSE /\ onHand = 0 /\ writes = 0 /\ deaths = 0

----------------------------------------
(* The readers. A request for the categories remembers what was committed  *)
(* since it asked Redis, until the next one; of the others nothing is kept.*)

Step(s, r) == shopper' = [shopper EXCEPT ![s] = IF r.step = "done" /\ cache # "category" THEN NoRead ELSE r]
Reads == UNCHANGED <<cache, committed, version, queue, writer, missed, silent, onHand, writes, deaths>>

OpenPage(s, p) ==
    /\ shopper[s].step \in {"idle", "done"} /\ p \in Pages
    /\ Step(s, [NoRead EXCEPT !.page = p,
                              !.step = CASE cache = "home" -> "city" [] cache = "product" -> "get" [] OTHER -> "revision"])
    /\ UNCHANGED entries /\ Reads

\* publicBase reads the two counters one after the other.
CityVersion(s) ==
    /\ shopper[s].step = "city"
    /\ Step(s, [shopper[s] EXCEPT !.version[1] = version[shopper[s].page], !.step = "global"])
    /\ UNCHANGED entries /\ Reads

GlobalVersion(s) ==
    /\ shopper[s].step = "global"
    /\ Step(s, [shopper[s] EXCEPT !.version[2] = version["global"], !.step = "get"])
    /\ UNCHANGED entries /\ Reads

\* CategoryCatalogRevision: a digest of every row.
Revision == <<committed["all"], 0>>

ReadRevision(s) ==
    /\ shopper[s].step = "revision"
    /\ Step(s, [shopper[s] EXCEPT !.version = Revision, !.step = "get"])
    /\ UNCHANGED entries /\ Reads

Entry(r) == {e \in entries : e.page = r.page /\ e.version = r.version}

\* The list of categories that was found is confirmed before it is returned.
Get(s) ==
    /\ shopper[s].step = "get"
    /\ LET r == [shopper[s] EXCEPT !.during = IF cache = "category" THEN {committed["all"]} ELSE {}] IN
       IF Entry(r) = {} THEN Step(s, [r EXCEPT !.step = "db"])
       ELSE \E e \in Entry(r) :
              Step(s, [r EXCEPT !.got = e.content, !.step = IF cache = "category" THEN "confirmHit" ELSE "done"])
    /\ UNCHANGED entries /\ Reads

ReadDb(s) ==
    /\ shopper[s].step = "db"
    /\ LET r == shopper[s] IN
       Step(s, [r EXCEPT !.got = committed[r.page], !.qty = onHand,
                         !.step = IF cache # "category" THEN "fill" ELSE IF r.tries = ReadAttempts THEN "done" ELSE "confirm"])
    /\ UNCHANGED entries /\ Reads

Confirmed(r) == Revision = r.version

\* After the last attempt the rows are read once more and not cached.
Confirm(s) ==
    /\ shopper[s].step \in {"confirm", "confirmHit"}
    /\ LET r == shopper[s] IN
       Step(s, IF Confirmed(r) THEN [r EXCEPT !.step = IF r.step = "confirm" THEN "fill" ELSE "done"]
               ELSE [r EXCEPT !.tries = @ + 1, !.step = IF r.tries + 1 = ReadAttempts THEN "db" ELSE "revision"])
    /\ UNCHANGED entries /\ Reads

FillVersion(r) == r.version

\* setJSONCache: written over what is there. A product that was not found is cached too.
Fill(s) ==
    /\ shopper[s].step = "fill"
    /\ LET r == [shopper[s] EXCEPT !.version = FillVersion(shopper[s])] IN
       /\ entries' = (entries \ Entry(r)) \cup
                       {[page |-> r.page, version |-> r.version, content |-> r.got, late |-> r.passed,
                        qty |-> r.qty, moved |-> r.moved]}
       /\ Step(s, [r EXCEPT !.step = "done"])
    /\ Reads

EntryExpires(e) ==
    /\ entries' = entries \ {e}
    /\ UNCHANGED shopper /\ Reads

----------------------------------------
(* The writers: a transaction that changes the rows of some pages and      *)
(* writes its event, then the invalidation of the request itself.          *)

Commit(P, w, bump, event) ==
    /\ writes < WriteBound /\ writes' = writes + 1
    /\ writer[w] = NoWrite
    /\ committed' = [p \in Pages |-> IF p \in P THEN writes + 2 ELSE committed[p]]
    /\ writer' = [writer EXCEPT ![w] = [pages |-> P, bump |-> bump, event |-> event]]
    /\ queue' = queue + (IF event THEN 1 ELSE 0)
    /\ UNCHANGED <<cache, version, entries, shopper, missed, silent, deaths>>

Stocked(d) == onHand + d >= 0 /\ onHand' = onHand + d

\* store.Service: the shop takes the product up, changes it, corrects its stock, opens or closes.
CreateShopProduct(w) == cache = "product" /\ committed["all"] = 0 /\ Commit({"all"}, w, "global", TRUE) /\ Stocked(1)
UpdateShopProduct(w) == cache = "product" /\ committed["all"] # 0 /\ Commit({"all"}, w, "global", TRUE) /\ UNCHANGED onHand
StoreAdjustStock(w, d) == cache = "product" /\ committed["all"] # 0 /\ Stocked(d) /\ Commit({"all"}, w, "global", TRUE)
UpdateBusinessStatus(w) == cache = "product" /\ committed["all"] # 0 /\ Commit({"all"}, w, "city", FALSE) /\ UNCHANGED onHand

\* admin.Service
UpdateProduct(w) == cache = "product" /\ committed["all"] # 0 /\ Commit({"all"}, w, "global", TRUE) /\ UNCHANGED onHand
AdminAdjustStock(w, d) == cache = "product" /\ committed["all"] # 0 /\ Stocked(d) /\ Commit({"all"}, w, "global", TRUE)

\* The stock moves with no invalidation and no event: pages that show it, or that a request is
\* about to store, show what it was until they expire (setJSONCache: five minutes).
StockMoves(d) ==
    /\ cache = "product" /\ committed["all"] # 0 /\ Stocked(d)
    /\ writes < WriteBound /\ writes' = writes + 1
    /\ entries' = {[e EXCEPT !.moved = TRUE] : e \in entries}
    /\ shopper' = [s \in Shoppers |-> IF shopper[s].step = "fill" THEN [shopper[s] EXCEPT !.moved = TRUE] ELSE shopper[s]]
    /\ UNCHANGED <<cache, committed, version, writer, queue, missed, silent, deaths>>

\* order.Repository; aftersale.Repository; deliveryreturn.Repository; the redemption's repository.
OrderReserves == StockMoves(-1)
OrderReleases == StockMoves(1)
ReplacementReserved == StockMoves(-1)
CaseRestocks == StockMoves(1)
ReturnRestocks == StockMoves(1)
RedemptionMovesStock == StockMoves(-1) \/ StockMoves(1)

\* home.Service: a slot is of one city, or of all (c = "global"). An update may move it, and the
\* request bumps the city it has now.
SlotPages(c) == IF c = "global" THEN Cities ELSE {c}
WriteSlot(w, c) == cache = "home" /\ Commit(SlotPages(c), w, c, TRUE) /\ UNCHANGED onHand
MoveSlot(w, from, c) == cache = "home" /\ Commit(SlotPages(from) \cup SlotPages(c), w, c, TRUE) /\ UNCHANGED onHand

\* Categories are changed by operators, who know nothing of the cache.
CategoriesChange(w) ==
    /\ cache = "category" /\ writes < WriteBound /\ writes' = writes + 1
    /\ committed' = [committed EXCEPT !["all"] = writes + 2]
    /\ shopper' = [s \in Shoppers |-> IF shopper[s].step \in {"db", "confirm", "confirmHit", "fill"}
                                      THEN [shopper[s] EXCEPT !.during = @ \cup {writes + 2}] ELSE shopper[s]]
    /\ UNCHANGED <<cache, version, entries, writer, queue, missed, silent, onHand, deaths>>

\* A delete of the keys; a request that has read the rows may still write them back.
Dropped(P) ==
    /\ entries' = {e \in entries : e.page \notin P}
    /\ shopper' = [s \in Shoppers |-> IF shopper[s].page \in P /\ shopper[s].step = "fill"
                                      THEN [shopper[s] EXCEPT !.passed = TRUE] ELSE shopper[s]]

\* invalidateProductCache after the commit: the keys of the product, then the global home counter.
InvalidateProductCache(w) ==
    /\ cache = "product" /\ writer[w] # NoWrite
    /\ Dropped({"all"})
    /\ writer' = [writer EXCEPT ![w] = NoWrite]
    /\ missed' = {} /\ silent' = FALSE
    /\ UNCHANGED <<cache, committed, version, queue, onHand, writes, deaths>>

\* bump
Bump(w) ==
    /\ cache = "home" /\ writer[w] # NoWrite
    /\ version' = [version EXCEPT ![writer[w].bump] = @ + 1]
    /\ LET covered == SlotPages(writer[w].bump) IN
       missed' = (missed \ covered) \cup (writer[w].pages \ covered)
    /\ writer' = [writer EXCEPT ![w] = NoWrite]
    /\ UNCHANGED <<cache, committed, entries, shopper, queue, silent, onHand, writes, deaths>>

\* The process dies, or Redis refuses, after the commit.
WriterDies(w) ==
    /\ deaths < DeathBound /\ deaths' = deaths + 1
    /\ writer[w] # NoWrite
    /\ missed' = missed \cup writer[w].pages
    /\ silent' = (silent \/ ~writer[w].event)
    /\ writer' = [writer EXCEPT ![w] = NoWrite]
    /\ UNCHANGED <<cache, committed, version, entries, shopper, queue, onHand, writes>>

\* The patterns of the event: product:detail:<id>*, or home:*, every page and version.
EventTargets == Pages

\* CacheInvalidationHandler.Handle, or CacheFallbackWorker for an event without a receipt.
HandleInvalidation ==
    /\ queue > 0 /\ queue' = queue - 1
    /\ Dropped(EventTargets)
    /\ silent' = FALSE
    /\ UNCHANGED <<cache, committed, version, writer, missed, onHand, writes, deaths>>

----------------------------------------
ShelfNext ==
    \/ \E s \in Shoppers :
         \/ \E p \in Pages : OpenPage(s, p)
         \/ CityVersion(s) \/ GlobalVersion(s) \/ ReadRevision(s)
         \/ Get(s) \/ ReadDb(s) \/ Confirm(s) \/ Fill(s)
    \/ \E e \in entries : EntryExpires(e)
    \/ \E w \in Writers :
         \/ CreateShopProduct(w) \/ UpdateShopProduct(w) \/ UpdateBusinessStatus(w) \/ UpdateProduct(w)
         \/ \E d \in {-1, 1} : StoreAdjustStock(w, d) \/ AdminAdjustStock(w, d)
         \/ \E c \in Cities \cup {"global"} : \/ WriteSlot(w, c)
                                              \/ \E from \in (Cities \cup {"global"}) \ {c} : MoveSlot(w, from, c)
         \/ CategoriesChange(w)
         \/ InvalidateProductCache(w) \/ Bump(w) \/ WriterDies(w)
    \/ HandleInvalidation
    \/ OrderReserves \/ OrderReleases \/ ReplacementReserved \/ CaseRestocks \/ ReturnRestocks
    \/ RedemptionMovesStock

----------------------------------------
Served(e)  == e.version = <<version[e.page], version["global"]>>
Pending(p) == \E w \in Writers : p \in writer[w].pages

\* A customer is not left with an old page for no reason. The categories that are returned were
\* the categories at some moment after Redis was asked. An old product detail is in Redis only while
\* its writer has not yet deleted it, while its event is not yet handled, after a request that
\* read the rows before the deletion and wrote them back after it, or after a shop's change of
\* status, which has no event, was cut off. The stock it shows is old only for these reasons, or
\* because orders, returns or redemptions moved the stock since the page was read, and then for
\* as long as the entry lives. An old home page is served only between a commit
\* and its bump, or when the bump was lost or was that of another city; and then only until the
\* event has been handled, but for a late write-back.
ShelfIsHonest ==
    /\ \A s \in Shoppers : (cache = "category" /\ shopper[s].step = "done" => shopper[s].got \in shopper[s].during)
    /\ \A e \in entries : (cache = "product" /\ e.content # committed["all"]
                             => e.late \/ Pending("all") \/ queue > 0 \/ silent)
    /\ \A e \in entries : (cache = "product" /\ e.qty # onHand /\ ~e.moved
                             => e.late \/ Pending("all") \/ queue > 0 \/ silent)
    /\ \A e \in entries : (cache = "home" /\ e.content # committed[e.page] /\ Served(e)
                             => Pending(e.page) \/ (e.page \in missed /\ (queue > 0 \/ e.late)))
=============================================================================

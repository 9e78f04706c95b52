-------------------------------- MODULE Cart --------------------------------
(***************************************************************************)
(* One customer's cart (internal/modules/cart) used from several devices   *)
(* at once.  A selection-changing request claims its idempotency key, which*)
(* fixes the snapshot of all its plain reads, then waits for the cart row, *)
(* then checks and writes; UpdateItem, DeleteItem and the order that takes *)
(* the goods away lock only item rows.  A request may be sent again.       *)
(*                                                                         *)
(* An offer (shop_products row) is a shop and a product; what the checks   *)
(* see of its shop, category, status and stock is the number that may be   *)
(* sold, 0 when nothing may.  Prices, names and pictures are left out.     *)
(***************************************************************************)
EXTENDS Naturals, Sequences, FiniteSets, FiniteSetsExt

CONSTANTS
    Outlets,        \* shops
    Goods,          \* products
    Handsets,       \* devices of the customer
    CartLimit,      \* the 99 of one item
    AskBound,       \* requests with keys of their own
    TradeBound      \* steps of others: item-row requests, orders, offers

ASSUME CartAssumption ==
    /\ Outlets # {} /\ Goods # {} /\ Handsets # {}
    /\ CartLimit \in Nat \ {0} /\ AskBound \in Nat /\ TradeBound \in Nat

VARIABLES
    items,      \* cart_items: quantity (0: no row) and selected
    saleable,   \* the number of each offer validateCartProduct would accept
    asked,      \* the requests made, in the order of their keys
    answered,   \* keys whose idempotency row holds an answer
    tx,         \* the transaction each device has open
    serial,     \* history: the cart the answered requests add up to, each once
    mixed,      \* history: a request that selects went by an old selection
    trades

cartVars == <<items, saleable, asked, answered, tx, serial, mixed, trades>>

Offers == Outlets \X Goods
NoItem == [qty |-> 0, sel |-> FALSE]
NoView == [items |-> [o \in Offers |-> NoItem], saleable |-> [o \in Offers |-> 0]]
NoTx == [key |-> 0, step |-> "none", view |-> NoView, target |-> <<>>, stale |-> FALSE]

InCart(cart) == {o \in Offers : cart[o].qty > 0}
SelectedOf(cart) == {o \in Offers : cart[o].sel}
OneShop(cart) == \A o, p \in SelectedOf(cart) : o[1] = p[1]

CartInit ==
    /\ items = [o \in Offers |-> NoItem]
    /\ serial = items
    /\ saleable = [o \in Offers |-> CartLimit]
    /\ asked = <<>>
    /\ answered = {}
    /\ tx = [d \in Handsets |-> NoTx]
    /\ mixed = FALSE
    /\ trades = 0

----------------------------------------
(* Requests.                                                               *)

\* The quantity the list of frequent purchases proposes.
Recommended(last, available) ==
    LET proposed == Min({last, CartLimit})
    IN IF available > 0 THEN Min({proposed, available}) ELSE proposed

Requests ==
    [op : {"add"}, offer : Offers, n : 1..CartLimit]
        \cup [op : {"select"}, offer : Offers, on : BOOLEAN]
        \cup [op : {"shop"}, shop : Outlets, on : BOOLEAN]
        \cup [op : {"clear"}, shops : {{s} : s \in Outlets} \cup {Outlets}]

Wishes(s) ==
    UNION {{[g \in gs |-> Recommended(last[g], saleable[<<s, g>>])] :
                last \in [gs -> 1..CartLimit + 1]} : gs \in (SUBSET Goods) \ {{}}}

Rebuys ==
    UNION {[op : {"rebuy"}, shop : {s}, wants : Wishes(s), replace : BOOLEAN] :
                s \in Outlets}

----------------------------------------
(* What each request checks and writes.  The item rows it locks are current; *)
(* the other rows, and what of an offer may be sold, are those of its view.*)

OfShop(s) == {o \in Offers : o[1] = s}

HasSelectedOtherShop(cart, s) == SelectedOf(cart) \ OfShop(s) # {}

\* cartAvailability and validateCartProduct give the same verdict.
Available(v, o, n) == v.saleable[o] >= n

Candidates(r, v) ==
    {g \in DOMAIN r.wants :
        /\ Available(v, <<r.shop, g>>, 1)
        /\ Available(v, <<r.shop, g>>, Max({items[<<r.shop, g>>].qty, r.wants[g]}))}

TargetQuantity(r, v) ==
    [g \in Candidates(r, v) |-> Max({items[<<r.shop, g>>].qty, r.wants[g]})]

MayMutate(r, v) ==
    CASE r.op = "add" ->
            /\ items[r.offer].qty + r.n <= CartLimit
            /\ Available(v, r.offer, items[r.offer].qty + r.n)
            /\ ~HasSelectedOtherShop(v.items, r.offer[1])
      [] r.op = "select" ->
            /\ r.offer \in InCart(items)
            /\ (r.on => /\ Available(v, r.offer, items[r.offer].qty)
                        /\ ~HasSelectedOtherShop(v.items, r.offer[1]))
      [] r.op = "shop" ->
            r.on => /\ ~HasSelectedOtherShop(v.items, r.shop)
                    /\ \A o \in OfShop(r.shop) \cap InCart(v.items) :
                            Available(v, o, v.items[o].qty)
      [] r.op = "clear" -> TRUE
      [] r.op = "rebuy" ->
            \/ Candidates(r, v) = {}
            \/ r.replace
            \/ ~HasSelectedOtherShop(v.items, r.shop)

\* idStore.Start: the row of the key is claimed, or waited for, and then read; the snapshot of
\* the transaction is taken here.
BeginMutation(d, k) ==
    /\ tx[d] = NoTx
    /\ \A e \in Handsets : tx[e].key # k
    /\ tx' = [tx EXCEPT ![d] = [NoTx EXCEPT !.key = k, !.step = "started",
                                           !.view = [items |-> items, saleable |-> saleable]]]
    /\ UNCHANGED <<items, saleable, answered, serial, mixed, trades>>

\* mutant: the cart row is read without a lock.
CartFreeAlways(d) == TRUE

\* The cart row is locked, or inserted: a second insert of it is refused.
CartFree(d) == \A e \in Handsets \ {d} : tx[e].step # "holding"

\* A request that selects items and leaves the others selected.
Selects(r) == \/ r.op = "add" \/ (r.op \in {"select", "shop"} /\ r.on)
              \/ (r.op = "rebuy" /\ ~r.replace)

\* EnsureCart, the locking reads and the checks.  A refusal rolls everything
\* back, the idempotency row too, as Lost does.
LockCart(d) ==
    /\ tx[d].step = "started"
    /\ CartFree(d)
    /\ LET r == asked[tx[d].key]
           v == tx[d].view
       IN /\ MayMutate(r, v)
          /\ tx' = [tx EXCEPT ![d] =
                [NoTx EXCEPT !.key = tx[d].key, !.step = "holding",
                             !.target = IF r.op = "rebuy" THEN TargetQuantity(r, v) ELSE <<>>,
                             !.stale = Selects(r) /\ SelectedOf(v.items) # SelectedOf(items)]]
    /\ UNCHANGED <<items, saleable, asked, answered, serial, mixed, trades>>

Ask(d) ==
    /\ Len(asked) < AskBound
    /\ \E r \in Requests \cup Rebuys : asked' = Append(asked, r)
    /\ BeginMutation(d, Len(asked) + 1)

\* A key whose row holds an answer: the answer is returned, nothing is done.
Known(k) == k \in answered

\* The connection is lost before the commit: all is rolled back.
Lost(d) ==
    /\ tx[d] # NoTx
    /\ tx' = [tx EXCEPT ![d] = NoTx]
    /\ UNCHANGED <<items, saleable, asked, answered, serial, mixed, trades>>

\* The same key sent again, by the same or another device.
AskAgain(d) ==
    /\ \E k \in DOMAIN asked : ~Known(k) /\ BeginMutation(d, k)
    /\ UNCHANGED asked

AddItem(r) ==
    [items EXCEPT ![r.offer] = [qty |-> Min({@.qty + r.n, CartLimit}), sel |-> TRUE]]

SetItemSelection(r) == [items EXCEPT ![r.offer].sel = r.on]

SetShopSelection(r) ==
    [o \in Offers |-> IF o \in OfShop(r.shop) \cap InCart(items)
                      THEN [items[o] EXCEPT !.sel = r.on] ELSE items[o]]

ClearItems(r) == [o \in Offers |-> IF o[1] \in r.shops THEN NoItem ELSE items[o]]

DeselectOtherShops(cart, s) ==
    [o \in Offers |-> IF o[1] = s THEN cart[o] ELSE [cart[o] EXCEPT !.sel = FALSE]]

SetTargetItemQuantity(cart, s, target) ==
    [o \in Offers |-> IF o[1] = s /\ o[2] \in DOMAIN target
                      THEN [qty |-> target[o[2]], sel |-> TRUE] ELSE cart[o]]

Repurchase(r, target) ==
    IF DOMAIN target = {} THEN items
    ELSE SetTargetItemQuantity(
            IF r.replace THEN DeselectOtherShops(items, r.shop) ELSE items, r.shop, target)

Written(r, target) ==
    CASE r.op = "add" -> AddItem(r)
      [] r.op = "select" -> SetItemSelection(r)
      [] r.op = "shop" -> SetShopSelection(r)
      [] r.op = "clear" -> ClearItems(r)
      [] r.op = "rebuy" -> Repurchase(r, target)

\* What the customer was promised for one request, from the cart alone.
Promised(r, cart, goods) ==
    [o \in Offers |->
        CASE r.op = "add" /\ o = r.offer -> [qty |-> cart[o].qty + r.n, sel |-> TRUE]
          [] r.op = "select" /\ o = r.offer -> [cart[o] EXCEPT !.sel = r.on]
          [] r.op = "shop" /\ o[1] = r.shop /\ cart[o].qty > 0 -> [cart[o] EXCEPT !.sel = r.on]
          [] r.op = "clear" /\ o[1] \in r.shops -> NoItem
          [] r.op = "rebuy" /\ o[1] = r.shop /\ o[2] \in goods ->
                [qty |-> IF cart[o].qty > r.wants[o[2]] THEN cart[o].qty ELSE r.wants[o[2]],
                 sel |-> TRUE]
          [] r.op = "rebuy" /\ r.replace /\ o[1] # r.shop /\ goods # {} -> [cart[o] EXCEPT !.sel = FALSE]
          [] OTHER -> cart[o]]

\* The last statements, the stored answer and the commit.
CommitMutation(d) ==
    LET k == tx[d].key
        r == asked[k]
    IN /\ tx[d].step = "holding"
       /\ items' = Written(r, tx[d].target)
       /\ serial' = IF k \in answered THEN serial
                    ELSE Promised(r, serial, DOMAIN tx[d].target)
       /\ mixed' = (~OneShop(Written(r, tx[d].target)) /\ (mixed \/ tx[d].stale))
       /\ answered' = answered \cup {k}
       /\ tx' = [tx EXCEPT ![d] = NoTx]
       /\ UNCHANGED <<saleable, asked, trades>>

----------------------------------------
(* Requests that lock item rows only, and the world.                       *)

\* Item rows an open transaction has read for update or written.
LockedRows(d) ==
    IF tx[d].step # "holding" THEN {}
    ELSE LET r == asked[tx[d].key]
         IN CASE r.op \in {"add", "select"} -> {r.offer}
              [] r.op = "rebuy" -> {<<r.shop, g>> : g \in DOMAIN tx[d].target}
              [] OTHER -> {}

RowFree(o) == \A d \in Handsets : o \notin LockedRows(d)

\* The stock it asks for is that of a snapshot as well, taken before it waited for the row: what
\* may be sold now need not be so many.
UpdateItem(o) ==
    /\ trades < TradeBound
    /\ o \in InCart(items) /\ RowFree(o)
    /\ \E n \in 1..CartLimit :
        /\ items' = [items EXCEPT ![o].qty = n]
        /\ serial' = [serial EXCEPT ![o].qty = n]
    /\ trades' = trades + 1
    /\ UNCHANGED <<saleable, asked, answered, tx, mixed>>

DeleteItem(o) ==
    /\ trades < TradeBound
    /\ o \in InCart(items) /\ RowFree(o)
    /\ items' = [items EXCEPT ![o] = NoItem]
    /\ serial' = [serial EXCEPT ![o] = NoItem]
    /\ trades' = trades + 1
    /\ UNCHANGED <<saleable, asked, answered, tx, mixed>>

\* Order creation takes goods of one shop and deletes their item rows,
\* whatever quantity they hold.
DeletePurchasedCartItems ==
    /\ trades < TradeBound
    /\ \E s \in Outlets : \E gs \in (SUBSET Goods) \ {{}} :
        LET bought == {s} \X gs
        IN /\ \A o \in bought : RowFree(o) /\ saleable[o] > 0
           /\ items' = [o \in Offers |-> IF o \in bought THEN NoItem ELSE items[o]]
           /\ serial' = [o \in Offers |-> IF o \in bought THEN NoItem ELSE serial[o]]
           /\ saleable' = [o \in Offers |-> IF o \in bought THEN saleable[o] - 1 ELSE saleable[o]]
    /\ trades' = trades + 1
    /\ UNCHANGED <<asked, answered, tx, mixed>>

\* Shop, category, status or stock changes elsewhere.
SaleableChanges(o) ==
    /\ trades < TradeBound
    /\ \E n \in 0..CartLimit \ {saleable[o]} : saleable' = [saleable EXCEPT ![o] = n]
    /\ trades' = trades + 1
    /\ UNCHANGED <<items, asked, answered, tx, serial, mixed>>

CartNext ==
    \/ \E d \in Handsets : Ask(d) \/ AskAgain(d) \/ LockCart(d) \/ Lost(d) \/ CommitMutation(d)
    \/ \E o \in Offers : UpdateItem(o) \/ DeleteItem(o) \/ SaleableChanges(o)
    \/ DeletePurchasedCartItems

CartSpec == CartInit /\ [][CartNext]_cartVars

----------------------------------------
\* The cart is what the answered requests, each counted once however often it was sent, and the
\* row updates add up to when served one after the other, in the order of their commits: no
\* interleaving of a cart lock with the unlocked UpdateItem, DeleteItem and order, and no old
\* snapshot, loses or repeats a request.  No item exceeds the limit, and a wish taken from the
\* list of frequent purchases is one Repurchase can parse.  The selected items belong to one
\* shop, unless a request that selected waited for the cart while another changed the selection
\* (it checks the selection it saw before the wait), and then until a request leaves one shop.
CartIsSerial ==
    /\ OneShop(items) \/ mixed
    /\ \A o \in Offers : items[o].qty <= CartLimit /\ (items[o].sel => items[o].qty > 0)
    /\ \A k \in DOMAIN asked :
        asked[k].op = "rebuy" =>
            \A g \in DOMAIN asked[k].wants : asked[k].wants[g] \in 1..CartLimit
    /\ items = serial
=============================================================================

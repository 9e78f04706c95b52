--------------------------- MODULE MCRetailOrder ---------------------------
(***************************************************************************)
(* The retail side for TLC: two orders that hold three units of one        *)
(* product and one unit of another, under every sequence of order          *)
(* transactions and provider reports; the cart; the caches of the shelf;   *)
(* the content administrators publish.  These share no state, so a         *)
(* behaviour is one of one part, drawn at the start, while the others rest. *)
(***************************************************************************)
EXTENDS RetailOrder, Cart, Shelf, Publication, TLC

CONSTANTS o1, o2, p1, p2

VARIABLE part

MCQty     == o1 :> (p1 :> 2 @@ p2 :> 1) @@ o2 :> (p1 :> 1 @@ p2 :> 0)
MCInitial == p1 :> 3 @@ p2 :> 1

retailVars == <<part, rows, cartVars, shelfVars, pubVars>>

RetailInit ==
    /\ part \in {"orders", "cart", "shelf", "published"}
    /\ RowsInit /\ CartInit
    /\ ShelfInit /\ (part # "shelf" => cache = "home")
    /\ PubInit /\ (part # "published" => topic = "slot")

OrdersPart    == part = "orders" /\ RowsNext /\ UNCHANGED <<part, cartVars, shelfVars, pubVars>>
CartPart      == part = "cart" /\ CartNext /\ UNCHANGED <<part, rows, shelfVars, pubVars>>
ShelfPart     == part = "shelf" /\ ShelfNext /\ UNCHANGED <<part, rows, cartVars, pubVars>>
PublishedPart == part = "published" /\ PubNext /\ UNCHANGED <<part, rows, cartVars, shelfVars>>

RetailNext == OrdersPart \/ CartPart \/ ShelfPart \/ PublishedPart

RetailSpec == RetailInit /\ [][RetailNext]_retailVars

\* What customers are shown of the catalogue was approved by whoever published it
\* (PublishedIsApproved: SetStatus and its kin in six modules), and what a cache shows was
\* so when it was read, the stock of a product included, and is old only for the reasons
\* ShelfIsHonest names (product and home services).
CatalogueIsHonest == PublishedIsApproved /\ ShelfIsHonest
=============================================================================

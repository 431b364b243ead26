----------------------------- MODULE OrderBook -----------------------------
(***************************************************************************)
(* One market's order book as the order book server keeps it in Redis      *)
(* (src/backend/order-book-server), next to what the chain says of the     *)
(* same orders (CLOBSettlement's filled; a cancelled order counts as       *)
(* filled).                                                                *)
(*                                                                         *)
(* An accepted POST gets an id of its own, so one signed order may stand   *)
(* in the book twice; the chain knows it once.  An id is in the book while *)
(* its JSON exists: GET /orderbook skips a listed id without it.           *)
(***************************************************************************)
EXTENDS MarketDirectory, Sequences, FiniteSets, Functions

CONSTANTS
    Ids,        \* the POST requests ever made
    Signed,     \* by id: the signed order that was posted
    Withdrawn,  \* the ids whose makers ever send DELETE
    Lapsing     \* the signed orders that ever end on chain without a fill

(* bid: it buys tokens.  size: tokenQuantity.  price: the sort price. *)
ASSUME BookConstants ==
    /\ IsFiniteSet(Ids)
    /\ DOMAIN Signed = Ids
    /\ \A i \in Ids : /\ Signed[i].bid \in BOOLEAN
                      /\ Signed[i].size \in Nat \ {0}
                      /\ Signed[i].price \in Nat
    /\ Withdrawn \subseteq Ids
    /\ {"server", "engine"} \subseteq Services

SignedOrders == {Signed[i] : i \in Ids}

VARIABLES
    book,         \* by id in the book: "filled" as Redis has it
    posting,      \* the POSTs past the nonce check and not yet stored
    posted,       \* the ids stored so far, in the order of their timestamps
    deleted,      \* the ids whose DELETE has been answered
    filled        \* on chain, by signed order

serverVars == <<posting, posted, deleted>>
bookVars == <<book, serverVars, filled, directoryVars>>

BookInit ==
    /\ DirectoryInit
    /\ book = [i \in {} |-> 0]
    /\ posting = {}
    /\ posted = <<>>
    /\ deleted = {}
    /\ filled = [o \in SignedOrders |-> 0]

Size(i) == Signed[i].size
Closed(i) == filled[Signed[i]] >= Size(i)

(* A maker and nonce are marked used as the order is stored. *)
UsedNonces == {Signed[i] : i \in Range(posted)}

Without(i) == Restrict(book, DOMAIN book \ {i})

----------------------------------------------------------------------------
(* POST /order looks the market up by its token, and at the nonce, then     *)
(* awaits the signature check and the chain before it stores the order.     *)
PostChecks(i) ==
    /\ listed["server"] = "active"
    /\ i \notin posting \union Range(posted)
    /\ Signed[i] \notin UsedNonces
    /\ posting' = posting \union {i}
    /\ UNCHANGED <<book, posted, deleted, filled, directoryVars>>

(* The signature is wrong, the maker is flagged, or the price does not cover *)
(* its carry debt; the request may come again.                              *)
PostRefused(i) ==
    /\ i \in posting
    /\ posting' = posting \ {i}
    /\ UNCHANGED <<book, posted, deleted, filled, directoryVars>>

(* It stores the order, marks the nonce and lists the id; nobody sees the   *)
(* order before the last of the three.                                      *)
PostLists(i) ==
    /\ i \in posting
    /\ posting' = posting \ {i}
    /\ posted' = Append(posted, i)
    /\ book' = [j \in DOMAIN book \union {i} |-> IF j = i THEN 0 ELSE book[j]]
    /\ UNCHANGED <<deleted, filled, directoryVars>>

(* DELETE /order/:id, signed by the maker. *)
Delete(i) ==
    /\ listed["server"] # "none"
    /\ i \in DOMAIN book
    /\ book' = Without(i)
    /\ deleted' = deleted \union {i}
    /\ UNCHANGED <<posting, posted, filled, directoryVars>>

(* POST /orders/sync drops an order the chain will never fill again. *)
Sync(i) ==
    /\ listed["server"] # "none"
    /\ i \in DOMAIN book
    /\ Closed(i)
    /\ book' = Without(i)
    /\ UNCHANGED <<serverVars, filled, directoryVars>>

(* The order is finished on chain without a fill: cancelOrders, setMinNonce *)
(* or its expiry.                                                           *)
ClosesOnChain(o) ==
    /\ filled[o] < o.size
    /\ filled' = [filled EXCEPT ![o] = o.size]
    /\ UNCHANGED <<book, serverVars, directoryVars>>

ServerStep ==
    \/ \E i \in Ids : PostChecks(i) \/ PostRefused(i) \/ PostLists(i) \/ Sync(i)
    \/ \E i \in Withdrawn : Delete(i)

Refreshes(s) == Refresh(s) /\ UNCHANGED <<book, serverVars, filled>>

DirectoryStep ==
    \/ \E s \in Services : Refreshes(s)
    \/ (Register \/ SetActive) /\ UNCHANGED <<book, serverVars, filled>>

MakerStep == \E o \in SignedOrders \intersect Lapsing : ClosesOnChain(o)

----------------------------------------------------------------------------
(* What of each order is filled, for the orders of a book. *)
Snapshot(f) == DOMAIN f \subseteq Ids /\ f \in [DOMAIN f -> Nat]

BookTypeOK ==
    /\ DirectoryTypeOK
    /\ Snapshot(book)
    /\ posting \subseteq Ids
    /\ posted \in Seq(Ids)
    /\ deleted \subseteq Ids
    /\ filled \in [SignedOrders -> Nat]
============================================================================

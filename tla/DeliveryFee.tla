----------------------------- MODULE DeliveryFee -----------------------------
(***************************************************************************)
(* What it takes to price the delivery of an order.  prepareNewOrder       *)
(* (OrderService) reads the customer and the merchant, then asks the       *)
(* delivery service for the fee, which reads the customer and the merchant *)
(* once more; meanwhile customers create, change and delete addresses in   *)
(* CustomerService.  GetCustomer is two SELECTs outside any transaction,   *)
(* so every one of them is a step of its own.                              *)
(***************************************************************************)
EXTENDS Integers, FiniteSets

CONSTANTS
    Orders,         \* calls of CreatePlaceOrder
    Creates,        \* calls of CreateAddress that run at a time, each until its
                    \* last statement is over
    Customers,
    AddressIds,     \* uuids, each drawn once
    Contents,       \* what an address may say
    Offsets,        \* hundredths of a degree that fake_geocode draws from
    MaxAddresses,   \* maxAddr, 5
    None            \* no customer, no address

ASSUME LimitAssumption == MaxAddresses \in Nat \ {0}
ASSUME OffsetsAssumption == Offsets \subseteq -10..10
ASSUME NoneAssumption == None \notin Customers \cup Contents
ASSUME SizesAssumption ==
    IsFiniteSet(AddressIds) /\ IsFiniteSet(Creates) /\ Creates # {}

VARIABLES
    customers,      \* rows of the table customers
    owner, content, \* rows of addresses: whose, and what it says
    issued,         \* ids that have been drawn
    creating, counted,  \* where a CreateAddress stands, for whom
    pc, customer, wanted,   \* where an order stands, its customer and address id
    located,        \* has its merchant an address?
    carried,        \* the address the order will carry
    quoted,         \* the address its fee is for
    fee,
    moved           \* history: orders whose address was changed under way

tables == <<customers, owner, content, issued>>
createVars == <<creating, counted>>
orderVars == <<pc, customer, wanted, located, carried, quoted, fee>>
vars == <<tables, createVars, orderVars, moved>>

Owned(c) == {a \in AddressIds : owner[a] = c}

Init ==
    /\ customers \in SUBSET Customers
    /\ owner \in [AddressIds -> customers \cup {None}]
    /\ content \in [AddressIds -> Contents]
    /\ issued = {a \in AddressIds : owner[a] # None}
    /\ \A c \in Customers : Cardinality(Owned(c)) <= MaxAddresses
    /\ creating = [k \in Creates |-> "idle"]
    /\ counted \in [Creates -> Customers]
    /\ pc = [o \in Orders |-> "idle"]
    /\ customer \in [Orders -> Customers]
    /\ wanted \in [Orders -> AddressIds]
    /\ located \in [Orders -> BOOLEAN]
    /\ carried = [o \in Orders |-> None]
    /\ quoted = [o \in Orders |-> None]
    /\ fee = [o \in Orders |-> 0]
    /\ moved = {}

-----------------------------------------------------------------------------
\* Mutant: the limit is noticed one address too late.
FullTooLate(n) == n > MaxAddresses

Full(n) == n >= MaxAddresses

\* CreateAddress: getCustomer selects the row, then the addresses, for their number.
CreateBegins(k, c) ==
    /\ creating[k] = "idle"
    /\ c \in customers
    /\ creating' = [creating EXCEPT ![k] = "row"]
    /\ counted' = [counted EXCEPT ![k] = c]
    /\ UNCHANGED <<tables, orderVars, moved>>

Count(k) ==
    /\ creating[k] = "row"
    /\ creating' = [creating EXCEPT
            ![k] = IF Full(Cardinality(Owned(counted[k]))) THEN "idle" ELSE "insert"]
    /\ UNCHANGED <<tables, counted, orderVars, moved>>

\* The INSERT; the foreign key wants the customer to be there still.  (The
\* address is then read back for the reply, which changes nothing.)
Insert(k) ==
    /\ creating[k] = "insert"
    /\ counted[k] \in customers
    /\ \E a \in AddressIds \ issued, text \in Contents :
          /\ owner' = [owner EXCEPT ![a] = counted[k]]
          /\ content' = [content EXCEPT ![a] = text]
          /\ issued' = issued \cup {a}
    /\ creating' = [creating EXCEPT ![k] = "idle"]
    /\ UNCHANGED <<customers, counted, orderVars, moved>>

\* A statement fails, or the call ends before it.
CreateFails(k) ==
    /\ creating[k] # "idle"
    /\ creating' = [creating EXCEPT ![k] = "idle"]
    /\ UNCHANGED <<tables, counted, orderVars, moved>>

\* Between its reading of the customer and the delivery service's.
UnderWay(o) == pc[o] \in {"merchant", "fee_row", "fee_addresses"}

\* One UPDATE, of an address of the caller's.
UpdateCustomerAddress(a, text) ==
    /\ owner[a] # None
    /\ content' = [content EXCEPT ![a] = text]
    /\ moved' = moved \cup {o \in Orders : wanted[o] = a /\ UnderWay(o)}
    /\ UNCHANGED <<customers, owner, issued, createVars, orderVars>>

DeleteCustomerAddress(a) ==
    /\ owner[a] # None
    /\ owner' = [owner EXCEPT ![a] = None]
    /\ UNCHANGED <<customers, content, issued, createVars, orderVars, moved>>

\* Mutant: the addresses stay.
DeleteCustomerAlone(c) ==
    /\ c \in customers
    /\ customers' = customers \ {c}
    /\ UNCHANGED <<owner, content, issued, createVars, orderVars, moved>>

\* ON DELETE CASCADE.
DeleteCustomer(c) ==
    /\ c \in customers
    /\ customers' = customers \ {c}
    /\ owner' = [a \in AddressIds |-> IF owner[a] = c THEN None ELSE owner[a]]
    /\ UNCHANGED <<content, issued, createVars, orderVars, moved>>

-----------------------------------------------------------------------------
(***************************************************************************)
(* calc_delivery_fee: 10 + 1.6 per kilometre, rounded, and not below 10 or *)
(* above 50; farther than 25 km there is none.                             *)
(***************************************************************************)
MaxDistance == 25000
Rounded(m) == (105000 + 16 * m) \div 10000
Clamp(n) == IF n < 10 THEN 10 ELSE IF n > 50 THEN 50 ELSE n
Fee(m) == Clamp(Rounded(m))

(***************************************************************************)
(* fake_geocode looks at no address: it draws a point near (0, 0), where a *)
(* hundredth of a degree is 1112 metres both ways and haversine_distance   *)
(* is the plane one, in whole metres.                                      *)
(***************************************************************************)
FakeGeocode == [latitude : Offsets, longitude : Offsets]

HaversineDistance(p, q, m) ==
    LET dlat == p.latitude - q.latitude
        dlon == p.longitude - q.longitude
        square == 1112 * 1112 * (dlat * dlat + dlon * dlon)
    IN  m * m <= square /\ square < (m + 1) * (m + 1)

Distances == {m \in 0..32000 : \E p, q \in FakeGeocode : HaversineDistance(p, q, m)}

Goto(o, label) == pc' = [pc EXCEPT ![o] = label]

\* prepareNewOrder: GetCustomer, for an address the caller has been told of.
OrderReadsRow(o) ==
    /\ pc[o] = "idle"
    /\ wanted[o] \in issued
    /\ Goto(o, IF customer[o] \in customers THEN "addresses" ELSE "failed")
    /\ UNCHANGED <<tables, createVars, customer, wanted, located, carried, quoted, fee, moved>>

OrderReadsAddresses(o) ==
    /\ pc[o] = "addresses"
    /\ carried' = [carried EXCEPT
            ![o] = IF owner[wanted[o]] = customer[o] THEN content[wanted[o]] ELSE None]
    /\ Goto(o, "merchant")
    /\ UNCHANGED <<tables, createVars, customer, wanted, located, quoted, fee, moved>>

\* GetMerchant; an order is not stopped here by a merchant without an address.
OrderReadsMerchant(o) ==
    /\ pc[o] = "merchant"
    /\ Goto(o, "fee_row")
    /\ UNCHANGED <<tables, createVars, customer, wanted, located, carried, quoted, fee, moved>>

\* get_delivery_fee: get_customer ...
FeeReadsRow(o) ==
    /\ pc[o] = "fee_row"
    /\ Goto(o, IF customer[o] \in customers THEN "fee_addresses" ELSE "failed")
    /\ UNCHANGED <<tables, createVars, customer, wanted, located, carried, quoted, fee, moved>>

\* Mutants: whoever has the address; the id is looked for, and any address taken.
FindById(o) == {wanted[o]}
FindAnyIfThere(o) == {a \in Owned(customer[o]) : wanted[o] \in Owned(customer[o])}

\* ... find, among the customer's addresses, the one with the id ...
Find(o) == {a \in Owned(customer[o]) : a = wanted[o]}

FeeReadsAddresses(o) ==
    /\ pc[o] = "fee_addresses"
    /\ \/ /\ \E a \in Find(o) : quoted' = [quoted EXCEPT ![o] = content[a]]
          /\ Goto(o, "fee_merchant")
       \/ /\ Find(o) = {}
          /\ Goto(o, "failed")
          /\ UNCHANGED quoted
    /\ UNCHANGED <<tables, createVars, customer, wanted, located, carried, fee, moved>>

\* ... get_merchant, and the distance of two random points.
FeeIsPriced(o) ==
    /\ pc[o] = "fee_merchant"
    /\ located[o]
    /\ \E m \in Distances :
          /\ m <= MaxDistance
          /\ fee' = [fee EXCEPT ![o] = Fee(m)]
    /\ Goto(o, "priced")
    /\ UNCHANGED <<tables, createVars, customer, wanted, located, carried, quoted, moved>>

\* A service does not answer, the merchant has no address, the way is too far.
OrderFails(o) ==
    /\ pc[o] \notin {"idle", "priced", "failed"}
    /\ Goto(o, "failed")
    /\ UNCHANGED <<tables, createVars, customer, wanted, located, carried, quoted, fee, moved>>

-----------------------------------------------------------------------------
CreateStep(k) == (\E c \in Customers : CreateBegins(k, c)) \/ Count(k) \/ Insert(k)
                 \/ CreateFails(k)
AddressStep(a) == (\E text \in Contents : UpdateCustomerAddress(a, text))
                  \/ DeleteCustomerAddress(a)
OrderStep(o) == OrderReadsRow(o) \/ OrderReadsAddresses(o) \/ OrderReadsMerchant(o)
                \/ FeeReadsRow(o) \/ FeeReadsAddresses(o) \/ FeeIsPriced(o) \/ OrderFails(o)

Next ==
    \/ \E k \in Creates : CreateStep(k)
    \/ \E a \in AddressIds : AddressStep(a)
    \/ \E c \in Customers : DeleteCustomer(c)
    \/ \E o \in Orders : OrderStep(o)

Spec == Init /\ [][Next]_vars
-----------------------------------------------------------------------------
\* Types, the foreign key of addresses, and the range of a fee.
TypeOK ==
    /\ customers \subseteq Customers
    /\ owner \in [AddressIds -> customers \cup {None}]
    /\ content \in [AddressIds -> Contents]
    /\ issued \subseteq AddressIds
    /\ creating \in [Creates -> {"idle", "row", "insert"}]
    /\ counted \in [Creates -> Customers]
    /\ pc \in [Orders -> {"idle", "addresses", "merchant", "fee_row", "fee_addresses",
                          "fee_merchant", "priced", "failed"}]
    /\ customer \in [Orders -> Customers]
    /\ wanted \in [Orders -> AddressIds]
    /\ located \in [Orders -> BOOLEAN]
    /\ carried \in [Orders -> Contents \cup {None}]
    /\ quoted \in [Orders -> Contents \cup {None}]
    /\ fee \in [Orders -> {0} \cup 10..50]
    /\ moved \subseteq Orders

(***************************************************************************)
(* An order that gets its fee carries an address and has a merchant with   *)
(* one, although prepareNewOrder checks neither (toDbAddress(nil) is nil,  *)
(* and prepare_order_delivery would end the delivery service's consumer):  *)
(* the address the delivery service finds later was already there before.  *)
(***************************************************************************)
PricedHasAddresses ==
    \A o \in Orders : pc[o] = "priced" => carried[o] # None /\ located[o]

(***************************************************************************)
(* The fee is for the address the order carries, unless that address was   *)
(* changed between the two readings of the customer.                       *)
(***************************************************************************)
MisquoteNeedsUpdate ==
    \A o \in Orders : pc[o] = "priced" /\ quoted[o] # carried[o] => o \in moved

(***************************************************************************)
(* The limit of addresses is exceeded by concurrent calls of CreateAddress *)
(* only, and by no more than one address for each further call, however    *)
(* long this goes on (customer.go:78 counts, then inserts).                *)
(***************************************************************************)
LimitIsNearlyKept ==
    \A c \in Customers :
        Cardinality(Owned(c)) <= MaxAddresses - 1 + Cardinality(Creates)
=============================================================================

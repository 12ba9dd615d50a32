-------------------------- MODULE DeliveryFeeProofs --------------------------
(***************************************************************************)
(* Proofs about module DeliveryFee, for any customers, orders and number   *)
(* of concurrent calls.                                                    *)
(*                                                                         *)
(* What the delivery service finds was there before, because an id that is *)
(* issued never changes hands and a deleted one never comes back: WayInv.  *)
(* The limit is kept nearly, because addresses and the inserts that have   *)
(* passed the check are bounded together: RoomInv.                         *)
(***************************************************************************)
EXTENDS DeliveryFee, FiniteSetTheorems, TLAPS

\* Rows belong to issued ids.
IssuedInv == \A a \in AddressIds : owner[a] # None => a \in issued

Wants(o) == owner[wanted[o]] = customer[o]
Priceable == {"fee_merchant", "priced"}

\* What an order between its two readings knows of its address.
Way(o) ==
    /\ pc[o] \notin {"idle", "failed"} => wanted[o] \in issued
    /\ UnderWay(o) /\ Wants(o) =>
          carried[o] # None /\ (carried[o] = content[wanted[o]] \/ o \in moved)
    /\ pc[o] \in Priceable =>
          carried[o] # None /\ (carried[o] = quoted[o] \/ o \in moved)
    /\ pc[o] = "priced" => located[o]

WayInv == \A o \in Orders : Way(o)

Pending(c) == {k \in Creates : creating[k] = "insert" /\ counted[k] = c}
Room == MaxAddresses - 1 + Cardinality(Creates)

\* Every insert that may still come has its place.
RoomInv ==
    \A c \in Customers : Cardinality(Owned(c)) + Cardinality(Pending(c)) <= Room

IInv == TypeOK /\ IssuedInv /\ WayInv

-----------------------------------------------------------------------------
LEMMA FeeType == ASSUME NEW m \in Nat PROVE Fee(m) \in 10..50
<1>1. Rounded(m) \in Int
  BY DEF Rounded
<1> QED
  BY <1>1 DEF Fee, Clamp

(***************************************************************************)
(* calc_delivery_fee: within 25 km the formula stays between 10 and 50 by  *)
(* itself; clamp never changes a fee.                                      *)
(***************************************************************************)
THEOREM ClampIsIdle == \A m \in 0..MaxDistance : Fee(m) = Rounded(m)
<1> SUFFICES ASSUME NEW m \in 0..MaxDistance PROVE Fee(m) = Rounded(m)
  OBVIOUS
<1>1. Rounded(m) \in 10..50
  BY DEF Rounded, MaxDistance
<1> QED
  BY <1>1 DEF Fee, Clamp

LEMMA InitIInv == Init => IInv
<1> SUFFICES ASSUME Init PROVE IInv
  OBVIOUS
<1>1. TypeOK
  BY DEF Init, TypeOK
<1>2. IssuedInv /\ WayInv
  BY DEF Init, IssuedInv, WayInv, Way, UnderWay, Priceable
<1> QED
  BY <1>1, <1>2 DEF IInv

LEMMA TypeStep == TypeOK /\ [Next]_vars => TypeOK'
<1> SUFFICES ASSUME TypeOK, [Next]_vars PROVE TypeOK'
  OBVIOUS
<1> USE NoneAssumption DEF TypeOK, tables, createVars, orderVars
<1>1. ASSUME NEW k \in Creates, CreateStep(k) PROVE TypeOK'
  <2>1. ASSUME NEW c \in Customers, CreateBegins(k, c) PROVE TypeOK'
    BY <2>1 DEF CreateBegins
  <2>2. CASE Count(k) \/ CreateFails(k)
    BY <2>2 DEF Count, CreateFails
  <2>3. CASE Insert(k)
    <3>1. PICK a \in AddressIds \ issued, text \in Contents :
             /\ owner' = [owner EXCEPT ![a] = counted[k]]
             /\ content' = [content EXCEPT ![a] = text]
             /\ issued' = issued \cup {a}
      BY <2>3 DEF Insert
    <3>2. counted[k] \in customers /\ customers' = customers
      BY <2>3 DEF Insert
    <3>3. owner' \in [AddressIds -> customers' \cup {None}]
      BY <3>1, <3>2
    <3>4. content' \in [AddressIds -> Contents] /\ issued' \subseteq AddressIds
      BY <3>1
    <3> QED
      BY <2>3, <3>3, <3>4 DEF Insert
  <2> QED
    BY <1>1, <2>1, <2>2, <2>3 DEF CreateStep
<1>2. ASSUME NEW a \in AddressIds, AddressStep(a) PROVE TypeOK'
  <2>1. ASSUME NEW text \in Contents, UpdateCustomerAddress(a, text) PROVE TypeOK'
    BY <2>1 DEF UpdateCustomerAddress
  <2>2. CASE DeleteCustomerAddress(a)
    BY <2>2 DEF DeleteCustomerAddress
  <2> QED
    BY <1>2, <2>1, <2>2 DEF AddressStep
<1>3. ASSUME NEW c \in Customers, DeleteCustomer(c) PROVE TypeOK'
  <2>1. owner' \in [AddressIds -> customers' \cup {None}]
    BY <1>3 DEF DeleteCustomer
  <2> QED
    BY <1>3, <2>1 DEF DeleteCustomer
<1>4. ASSUME NEW o \in Orders, OrderStep(o) PROVE TypeOK'
  <2>1. CASE OrderReadsRow(o) \/ OrderReadsMerchant(o) \/ FeeReadsRow(o) \/ OrderFails(o)
    BY <2>1 DEF OrderReadsRow, OrderReadsMerchant, FeeReadsRow, OrderFails, Goto
  <2>2. CASE OrderReadsAddresses(o)
    BY <2>2 DEF OrderReadsAddresses, Goto
  <2>3. CASE FeeReadsAddresses(o)
    <3>1. quoted' \in [Orders -> Contents \cup {None}]
      BY <2>3 DEF FeeReadsAddresses, Find, Owned
    <3> QED
      BY <2>3, <3>1 DEF FeeReadsAddresses, Goto
  <2>4. CASE FeeIsPriced(o)
    <3>1. PICK m \in Distances : fee' = [fee EXCEPT ![o] = Fee(m)]
      BY <2>4 DEF FeeIsPriced
    <3>2. Fee(m) \in 10..50
      <4>1. m \in Nat
        BY DEF Distances
      <4> QED
        BY <4>1, FeeType
    <3>3. fee' \in [Orders -> {0} \cup 10..50]
      BY <3>1, <3>2
    <3> QED
      BY <2>4, <3>3 DEF FeeIsPriced, Goto
  <2> QED
    BY <1>4, <2>1, <2>2, <2>3, <2>4 DEF OrderStep
<1>5. CASE UNCHANGED vars
  BY <1>5 DEF vars
<1> QED
  BY <1>1, <1>2, <1>3, <1>4, <1>5 DEF Next

\* Rows only appear under ids just issued, and issued ids stay issued.
LEMMA IssuedStep == TypeOK /\ IssuedInv /\ [Next]_vars => IssuedInv' /\ issued \subseteq issued'
<1> SUFFICES ASSUME TypeOK, IssuedInv, [Next]_vars
             PROVE  IssuedInv' /\ issued \subseteq issued'
  OBVIOUS
<1> USE DEF TypeOK, IssuedInv, tables, createVars, orderVars
<1>1. CASE UNCHANGED <<owner, issued>>
  BY <1>1
<1>2. ASSUME NEW k \in Creates, Insert(k) PROVE IssuedInv' /\ issued \subseteq issued'
  BY <1>2 DEF Insert
<1>3. ASSUME NEW a \in AddressIds, DeleteCustomerAddress(a)
      PROVE  IssuedInv' /\ issued \subseteq issued'
  BY <1>3 DEF DeleteCustomerAddress
<1>4. ASSUME NEW c \in Customers, DeleteCustomer(c) PROVE IssuedInv' /\ issued \subseteq issued'
  BY <1>4 DEF DeleteCustomer
<1>5. \/ UNCHANGED <<owner, issued>>
      \/ \E k \in Creates : Insert(k)
      \/ \E a \in AddressIds : DeleteCustomerAddress(a)
      \/ \E c \in Customers : DeleteCustomer(c)
  BY DEF Next, vars, CreateStep, CreateBegins, Count, CreateFails, AddressStep,
         UpdateCustomerAddress, OrderStep, OrderReadsRow, OrderReadsAddresses,
         OrderReadsMerchant, FeeReadsRow, FeeReadsAddresses, FeeIsPriced, OrderFails
<1> QED
  BY <1>1, <1>2, <1>3, <1>4, <1>5

\* What is written under an id that is out already changes in three ways.
LEMMA RowsStep ==
    ASSUME TypeOK, IssuedInv, [Next]_vars, NEW a \in issued
    PROVE  /\ owner'[a] = owner[a] \/ owner'[a] = None
           /\ content'[a] = content[a]
              \/ moved' = moved \cup {o \in Orders : wanted[o] = a /\ UnderWay(o)}
<1> USE DEF TypeOK, tables, createVars, orderVars
<1>1. CASE UNCHANGED <<owner, content>>
  BY <1>1
<1>2. ASSUME NEW k \in Creates, Insert(k) PROVE owner'[a] = owner[a] /\ content'[a] = content[a]
  BY <1>2 DEF Insert
<1>3. ASSUME NEW b \in AddressIds, NEW text \in Contents, UpdateCustomerAddress(b, text)
      PROVE  /\ owner'[a] = owner[a]
             /\ content'[a] = content[a]
                \/ moved' = moved \cup {o \in Orders : wanted[o] = a /\ UnderWay(o)}
  BY <1>3 DEF UpdateCustomerAddress
<1>4. ASSUME NEW b \in AddressIds, DeleteCustomerAddress(b)
      PROVE  (owner'[a] = owner[a] \/ owner'[a] = None) /\ content'[a] = content[a]
  BY <1>4 DEF DeleteCustomerAddress
<1>5. ASSUME NEW c \in Customers, DeleteCustomer(c)
      PROVE  (owner'[a] = owner[a] \/ owner'[a] = None) /\ content'[a] = content[a]
  BY <1>5 DEF DeleteCustomer
<1>6. \/ UNCHANGED <<owner, content>>
      \/ \E k \in Creates : Insert(k)
      \/ \E b \in AddressIds, text \in Contents : UpdateCustomerAddress(b, text)
      \/ \E b \in AddressIds : DeleteCustomerAddress(b)
      \/ \E c \in Customers : DeleteCustomer(c)
  BY DEF Next, vars, CreateStep, CreateBegins, Count, CreateFails, AddressStep,
         OrderStep, OrderReadsRow, OrderReadsAddresses,
         OrderReadsMerchant, FeeReadsRow, FeeReadsAddresses, FeeIsPriced, OrderFails
<1> QED
  BY <1>1, <1>2, <1>3, <1>4, <1>5, <1>6

\* Who asks for what never changes, and what has moved stays moved.
LEMMA InputsStep ==
    TypeOK /\ [Next]_vars =>
        /\ UNCHANGED <<customer, wanted, located>>
        /\ moved \subseteq moved'
BY DEF Next, vars, CreateStep, CreateBegins, Count, Insert, CreateFails, AddressStep,
       UpdateCustomerAddress, DeleteCustomerAddress, DeleteCustomer, tables, createVars,
       orderVars, OrderStep, OrderReadsRow, OrderReadsAddresses, OrderReadsMerchant,
       FeeReadsRow, FeeReadsAddresses, FeeIsPriced, OrderFails

\* An order's own step.
LEMMA OwnWay ==
    ASSUME TypeOK, IssuedInv, NEW o \in Orders, Way(o), OrderStep(o)
    PROVE  Way(o)'
<1> USE NoneAssumption DEF TypeOK, tables, createVars, orderVars
<1>1. CASE OrderReadsRow(o)
  BY <1>1 DEF OrderReadsRow, Goto, Way, UnderWay, Wants, Priceable
<1>2. CASE OrderReadsAddresses(o)
  BY <1>2 DEF OrderReadsAddresses, Goto, Way, UnderWay, Wants, Priceable
<1>3. CASE OrderReadsMerchant(o) \/ FeeReadsRow(o) \/ OrderFails(o)
  BY <1>3 DEF OrderReadsMerchant, FeeReadsRow, OrderFails, Goto, Way, UnderWay, Wants, Priceable
<1>4. CASE FeeReadsAddresses(o)
  <2>1. CASE Find(o) = {}
    BY <1>4, <2>1 DEF FeeReadsAddresses, Goto, Way, UnderWay, Wants, Priceable
  <2>2. ASSUME NEW a \in Find(o), quoted' = [quoted EXCEPT ![o] = content[a]],
               Goto(o, "fee_merchant")
        PROVE  Way(o)'
    <3>1. a = wanted[o] /\ Wants(o)
      BY DEF Find, Owned, Wants
    <3>2. quoted'[o] = content[wanted[o]] /\ pc'[o] = "fee_merchant"
      BY <2>2, <3>1 DEF Goto
    <3> QED
      BY <1>4, <3>1, <3>2 DEF FeeReadsAddresses, Way, UnderWay, Wants, Priceable
  <2> QED
    BY <1>4, <2>1, <2>2 DEF FeeReadsAddresses
<1>5. CASE FeeIsPriced(o)
  BY <1>5 DEF FeeIsPriced, Goto, Way, UnderWay, Wants, Priceable
<1> QED
  BY <1>1, <1>2, <1>3, <1>4, <1>5 DEF OrderStep

LEMMA WayStep == IInv /\ [Next]_vars => WayInv'
<1> SUFFICES ASSUME IInv, [Next]_vars, NEW o \in Orders PROVE Way(o)'
  BY DEF WayInv
<1>1. TypeOK /\ IssuedInv /\ Way(o)
  BY DEF IInv, WayInv
<1>2. CASE OrderStep(o)
  BY <1>1, <1>2, OwnWay
<1>3. CASE UNCHANGED <<pc[o], carried[o], quoted[o]>>
  <2>1. UNCHANGED <<customer, wanted, located>> /\ moved \subseteq moved' /\ issued \subseteq issued'
    BY <1>1, InputsStep, IssuedStep
  <2>2. CASE pc[o] \in {"idle", "failed"}
    BY <1>3, <2>2 DEF Way, UnderWay, Priceable
  <2>3. CASE pc[o] \notin {"idle", "failed"}
    <3>1. wanted[o] \in issued
      BY <1>1, <2>3 DEF Way
    <3>2. /\ owner'[wanted[o]] = owner[wanted[o]] \/ owner'[wanted[o]] = None
          /\ content'[wanted[o]] = content[wanted[o]]
             \/ moved' = moved \cup {p \in Orders : wanted[p] = wanted[o] /\ UnderWay(p)}
      BY <1>1, <3>1, RowsStep
    <3>3. Wants(o)' => Wants(o)
      BY <1>1, <2>1, <3>2, NoneAssumption DEF Wants, TypeOK
    <3>4. UnderWay(o)' => UnderWay(o)
      BY <1>3 DEF UnderWay
    <3> QED
      BY <1>1, <1>3, <2>1, <3>1, <3>2, <3>3, <3>4 DEF Way, Priceable
  <2> QED
    BY <2>2, <2>3
<1>4. OrderStep(o) \/ UNCHANGED <<pc[o], carried[o], quoted[o]>>
  <2>1. ASSUME NEW p \in Orders, p # o, OrderStep(p)
        PROVE  UNCHANGED <<pc[o], carried[o], quoted[o]>>
    BY <1>1, <2>1 DEF TypeOK, OrderStep, OrderReadsRow, OrderReadsAddresses,
       OrderReadsMerchant, FeeReadsRow, FeeReadsAddresses, FeeIsPriced, OrderFails, Goto
  <2>2. CASE UNCHANGED orderVars
    BY <2>2 DEF orderVars
  <2>3. UNCHANGED orderVars \/ \E p \in Orders : OrderStep(p)
    BY DEF Next, vars, CreateStep, CreateBegins, Count, Insert, CreateFails, AddressStep,
           UpdateCustomerAddress, DeleteCustomerAddress, DeleteCustomer
  <2> QED
    BY <2>1, <2>2, <2>3
<1> QED
  BY <1>2, <1>3, <1>4

LEMMA Inductive == Spec => []IInv
<1>1. IInv /\ [Next]_vars => IInv'
  BY TypeStep, IssuedStep, WayStep DEF IInv
<1> QED
  BY InitIInv, <1>1, PTL DEF Spec

\* The tables, the calls and the fee keep their types, and addresses their foreign key.
THEOREM TypeCorrect == Spec => []TypeOK
BY Inductive, PTL DEF IInv

(***************************************************************************)
(* Whoever gets a fee carries an address and has a merchant with one,      *)
(* whatever customers do to their addresses meanwhile (prepareNewOrder,    *)
(* get_delivery_fee).                                                      *)
(***************************************************************************)
THEOREM PricedHaveAddresses == Spec => []PricedHasAddresses
<1>1. IInv => PricedHasAddresses
  BY DEF IInv, WayInv, Way, Priceable, PricedHasAddresses
<1> QED
  BY Inductive, <1>1, PTL

(***************************************************************************)
(* A fee for another address than the carried one takes an update between  *)
(* the two readings; deleting and creating addresses does not do it.       *)
(***************************************************************************)
THEOREM MisquotesNeedUpdates == Spec => []MisquoteNeedsUpdate
<1>1. IInv => MisquoteNeedsUpdate
  BY DEF IInv, WayInv, Way, Priceable, MisquoteNeedsUpdate
<1> QED
  BY Inductive, <1>1, PTL

-----------------------------------------------------------------------------
\* The sets counted by RoomInv are finite, and their sizes numbers.
LEMMA Sizes ==
    ASSUME NEW c
    PROVE  /\ IsFiniteSet(Owned(c)) /\ Cardinality(Owned(c)) \in Nat
           /\ IsFiniteSet(Pending(c)) /\ Cardinality(Pending(c)) \in Nat
           /\ Cardinality(Pending(c)) <= Cardinality(Creates)
           /\ Cardinality(Creates) \in Nat
<1>1. Owned(c) \in SUBSET AddressIds /\ Pending(c) \in SUBSET Creates
  BY DEF Owned, Pending
<1>2. IsFiniteSet(Owned(c)) /\ IsFiniteSet(Pending(c))
      /\ Cardinality(Pending(c)) <= Cardinality(Creates)
  BY <1>1, SizesAssumption, FS_Subset
<1> QED
  BY <1>2, SizesAssumption, FS_CardinalityType

LEMMA RoomIsInt == Room \in Int
<1>1. Cardinality(Creates) \in Nat
  BY SizesAssumption, FS_CardinalityType
<1> QED
  BY <1>1, LimitAssumption DEF Room

\* What only shrinks for a customer leaves room.
LEMMA Shrinks ==
    ASSUME NEW c, NEW n \in Int,
           Cardinality(Owned(c)) + Cardinality(Pending(c)) <= n,
           Owned(c)' \subseteq Owned(c), Pending(c)' \subseteq Pending(c),
           IsFiniteSet(Owned(c)'), IsFiniteSet(Pending(c)')
    PROVE  Cardinality(Owned(c)') + Cardinality(Pending(c)') <= n
<1>1. Cardinality(Owned(c)') <= Cardinality(Owned(c))
      /\ Cardinality(Pending(c)') <= Cardinality(Pending(c))
  BY Sizes, FS_Subset
<1>2. Cardinality(Owned(c)') \in Nat /\ Cardinality(Pending(c)') \in Nat
  BY FS_CardinalityType
<1> QED
  BY <1>1, <1>2, Sizes

\* A call passes the check: it finds a place, and is one of Creates itself.
LEMMA CountRoom ==
    ASSUME TypeOK, RoomInv, NEW k \in Creates, Count(k), NEW c \in Customers
    PROVE  Cardinality(Owned(c)') + Cardinality(Pending(c)') <= Room
<1>1. Owned(c)' = Owned(c)
  BY DEF Count, tables, Owned
<1>2. IsFiniteSet(Pending(c)') /\ Pending(c)' \in SUBSET Creates
  <2>1. Pending(c)' \in SUBSET Creates
    BY DEF Pending
  <2> QED
    BY <2>1, SizesAssumption, FS_Subset
<1>3. CASE Cardinality(Owned(c)) <= MaxAddresses - 1
  <2>1. Cardinality(Pending(c)') <= Cardinality(Creates)
    BY <1>2, SizesAssumption, FS_Subset
  <2>2. Cardinality(Pending(c)') \in Nat
    BY <1>2, FS_CardinalityType
  <2> QED
    BY <1>1, <1>3, <2>1, <2>2, Sizes, LimitAssumption DEF Room
<1>4. CASE ~ (Cardinality(Owned(c)) <= MaxAddresses - 1)
  <2>1. Full(Cardinality(Owned(c)))
    BY <1>4, Sizes, LimitAssumption DEF Full
  <2>2. Pending(c)' \subseteq Pending(c)
    BY <2>1 DEF Count, Pending, TypeOK
  <2> QED
    BY <1>1, <1>2, <2>2, RoomIsInt, Shrinks, Sizes DEF RoomInv
<1> QED
  BY <1>3, <1>4

\* An insert takes the place that was kept for it.
LEMMA InsertRoom ==
    ASSUME TypeOK, RoomInv, NEW k \in Creates, Insert(k), NEW c \in Customers
    PROVE  Cardinality(Owned(c)') + Cardinality(Pending(c)') <= Room
<1>1. PICK a \in AddressIds \ issued : owner' = [owner EXCEPT ![a] = counted[k]]
  BY DEF Insert
<1>2. creating' = [creating EXCEPT ![k] = "idle"] /\ counted' = counted /\ creating[k] = "insert"
  BY DEF Insert
<1>3. CASE counted[k] = c
  <2>1. Owned(c)' = Owned(c) \cup {a}
    BY <1>1, <1>3 DEF Owned, TypeOK
  <2>2. Pending(c)' = Pending(c) \ {k} /\ k \in Pending(c)
    BY <1>2, <1>3 DEF Pending, TypeOK
  <2>3. /\ IsFiniteSet(Owned(c)) /\ Cardinality(Owned(c)) \in Nat
        /\ Cardinality(Owned(c) \cup {a}) <= Cardinality(Owned(c)) + 1
    <3>1. IsFiniteSet(Owned(c)) /\ Cardinality(Owned(c)) \in Nat
      BY Sizes
    <3>2. Cardinality(Owned(c) \cup {a}) =
             IF a \in Owned(c) THEN Cardinality(Owned(c)) ELSE Cardinality(Owned(c)) + 1
      BY <3>1, FS_AddElement
    <3> QED
      BY <3>1, <3>2
  <2>4. Cardinality(Pending(c)') = Cardinality(Pending(c)) - 1
    BY <2>2, Sizes, FS_RemoveElement
  <2>5. IsFiniteSet(Owned(c)')
    BY <2>1, <2>3, FS_AddElement
  <2>6. Cardinality(Owned(c)') \in Nat
    BY <2>5, FS_CardinalityType
  <2>7. Cardinality(Owned(c)) + Cardinality(Pending(c)) <= Room
    BY DEF RoomInv
  <2> QED
    BY RoomIsInt, <2>1, <2>3, <2>4, <2>6, <2>7, Sizes
<1>4. CASE counted[k] # c
  <2>1. Owned(c)' \subseteq Owned(c) /\ Pending(c)' \subseteq Pending(c)
    BY <1>1, <1>2, <1>4 DEF Owned, Pending, TypeOK
  <2>2. IsFiniteSet(Owned(c)') /\ IsFiniteSet(Pending(c)')
    BY <2>1, Sizes, FS_Subset
  <2> QED
    BY RoomIsInt, <2>1, <2>2, Shrinks DEF RoomInv
<1> QED
  BY <1>3, <1>4

LEMMA RoomStep == TypeOK /\ RoomInv /\ [Next]_vars => RoomInv'
<1> SUFFICES ASSUME TypeOK, RoomInv, [Next]_vars, NEW c \in Customers
             PROVE  Cardinality(Owned(c)') + Cardinality(Pending(c)') <= Room
  BY DEF RoomInv, Room
<1>1. ASSUME NEW k \in Creates, Count(k) PROVE Cardinality(Owned(c)') + Cardinality(Pending(c)') <= Room
  BY <1>1, CountRoom
<1>2. ASSUME NEW k \in Creates, Insert(k) PROVE Cardinality(Owned(c)') + Cardinality(Pending(c)') <= Room
  BY <1>2, InsertRoom
<1>3. CASE Owned(c)' \subseteq Owned(c) /\ Pending(c)' \subseteq Pending(c)
  <2>1. IsFiniteSet(Owned(c)') /\ IsFiniteSet(Pending(c)')
    BY <1>3, Sizes, FS_Subset
  <2> QED
    BY <1>3, <2>1, RoomIsInt, Shrinks DEF RoomInv
<1>4. \/ \E k \in Creates : Count(k) \/ Insert(k)
      \/ Owned(c)' \subseteq Owned(c) /\ Pending(c)' \subseteq Pending(c)
  <2> USE DEF TypeOK, tables, createVars, orderVars, Owned, Pending
  <2>1. ASSUME NEW k \in Creates, CreateStep(k)
        PROVE  \/ Count(k) \/ Insert(k)
               \/ Owned(c)' \subseteq Owned(c) /\ Pending(c)' \subseteq Pending(c)
    BY <2>1 DEF CreateStep, CreateBegins, CreateFails
  <2>2. ASSUME NEW a \in AddressIds, AddressStep(a)
        PROVE  Owned(c)' \subseteq Owned(c) /\ Pending(c)' \subseteq Pending(c)
    BY <2>2, NoneAssumption DEF AddressStep, UpdateCustomerAddress, DeleteCustomerAddress
  <2>3. ASSUME NEW d \in Customers, DeleteCustomer(d)
        PROVE  Owned(c)' \subseteq Owned(c) /\ Pending(c)' \subseteq Pending(c)
    BY <2>3, NoneAssumption DEF DeleteCustomer
  <2>4. CASE UNCHANGED <<owner, creating, counted>>
    BY <2>4
  <2>5. ASSUME NEW o \in Orders, OrderStep(o) PROVE UNCHANGED <<owner, creating, counted>>
    BY <2>5 DEF OrderStep, OrderReadsRow, OrderReadsAddresses, OrderReadsMerchant,
                FeeReadsRow, FeeReadsAddresses, FeeIsPriced, OrderFails
  <2> QED
    BY <2>1, <2>2, <2>3, <2>4, <2>5 DEF Next, vars
<1> QED
  BY <1>1, <1>2, <1>3, <1>4

LEMMA InitRoom == Init => RoomInv
<1> SUFFICES ASSUME Init, NEW c \in Customers
             PROVE  Cardinality(Owned(c)) + Cardinality(Pending(c)) <= Room
  BY DEF RoomInv
<1>1. Pending(c) = {}
  BY DEF Init, Pending
<1>2. Cardinality(Pending(c)) = 0
  BY <1>1, FS_EmptySet
<1>3. Cardinality(Creates) >= 1
  BY SizesAssumption, FS_EmptySet, FS_CardinalityType
<1>4. Cardinality(Owned(c)) <= MaxAddresses
  BY DEF Init
<1> QED
  BY <1>2, <1>3, <1>4, Sizes, LimitAssumption DEF Room

(***************************************************************************)
(* Count and insert are two steps, so maxAddr is no bound; but whatever    *)
(* number of calls run at a time, one less than that many more addresses   *)
(* is, for ever (CreateAddress of the customer service).                   *)
(***************************************************************************)
THEOREM LimitNearlyKept == Spec => []LimitIsNearlyKept
<1>1. IInv /\ RoomInv /\ [Next]_vars => RoomInv'
  BY RoomStep DEF IInv
<1>2. RoomInv => LimitIsNearlyKept
  <2> SUFFICES ASSUME RoomInv, NEW c \in Customers
               PROVE  Cardinality(Owned(c)) <= MaxAddresses - 1 + Cardinality(Creates)
    BY DEF LimitIsNearlyKept
  <2> QED
    BY Sizes, LimitAssumption DEF RoomInv, Room
<1> QED
  BY Inductive, InitRoom, <1>1, <1>2, PTL DEF Spec

\* One CreateAddress after the other keeps the limit exactly: it takes two at
\* a time to exceed maxAddr.
THEOREM LimitKeptAlone ==
    ASSUME Cardinality(Creates) = 1
    PROVE  Spec => [](\A c \in Customers : Cardinality(Owned(c)) <= MaxAddresses)
<1>1. LimitIsNearlyKept => \A c \in Customers : Cardinality(Owned(c)) <= MaxAddresses
  BY LimitAssumption DEF LimitIsNearlyKept
<1> QED
  BY LimitNearlyKept, <1>1, PTL
=============================================================================

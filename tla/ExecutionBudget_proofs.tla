------------------------ MODULE ExecutionBudget_proofs ------------------------
(***************************************************************************)
(* Proofs about ExecutionBudget for any finite sets of runs and jobs, any  *)
(* policies and any usage.                                                 *)
(***************************************************************************)
EXTENDS ExecutionBudget, FiniteSetTheorems, TLAPS

-----------------------------------------------------------------------------
(* Arithmetic: rounding up is exact to less than a unit, and monotone.     *)

LEMMA Division ==
  ASSUME NEW a \in Nat, NEW u \in Nat \ {0}
  PROVE  /\ a \div u \in Nat
         /\ u * (a \div u) <= a
         /\ a < u * (a \div u) + u
OBVIOUS

LEMMA ProductMonotone ==
  ASSUME NEW a \in Nat, NEW b \in Nat, NEW c \in Nat, a <= b
  PROVE  a * c <= b * c /\ a * c \in Nat /\ b * c \in Nat
<1>1. PICK d \in Nat : b = a + d
  <2>1. b - a \in Nat /\ b = a + (b - a)
    OBVIOUS
  <2> QED
    BY <2>1
<1>2. b * c = a * c + d * c
  BY <1>1
<1>3. d * c \in Nat /\ a * c \in Nat
  OBVIOUS
<1> QED
  BY <1>2, <1>3

LEMMA DivisionMonotone ==
  ASSUME NEW a \in Nat, NEW b \in Nat, NEW u \in Nat \ {0}, a <= b
  PROVE  a \div u <= b \div u
<1> DEFINE p == a \div u
           q == b \div u
<1>1. p \in Nat /\ q \in Nat /\ u * p <= a /\ b < u * q + u
  BY Division
<1> HIDE DEF p, q
<1>2. SUFFICES ASSUME q + 1 <= p PROVE FALSE
  BY <1>1 DEF p, q
<1>3. (q + 1) * u <= p * u
  BY <1>1, <1>2, ProductMonotone
<1>4. (q + 1) * u = u * q + u /\ p * u = u * p
  BY <1>1
<1> QED
  BY <1>1, <1>3, <1>4

LEMMA CostType ==
  ASSUME NEW t \in Nat, NEW r \in Nat
  PROVE  /\ Cost(t, r) \in Nat
         /\ t * r <= Cost(t, r) * Unit
         /\ Cost(t, r) * Unit < t * r + Unit
<1> DEFINE price == t * r
<1>1. price \in Nat /\ Unit \in Nat \ {0}
  BY BudgetAssumption
<1> HIDE DEF price
<1>2. price + Unit - 1 \in Nat
  BY <1>1
<1> DEFINE c == (price + Unit - 1) \div Unit
<1>3. /\ c \in Nat
      /\ Unit * c <= price + Unit - 1
      /\ price + Unit - 1 < Unit * c + Unit
  BY <1>1, <1>2, Division
<1> HIDE DEF c
<1>4. c * Unit = Unit * c /\ Unit * c \in Nat
  BY <1>1, <1>3
<1>5. price <= c * Unit /\ c * Unit < price + Unit
  BY <1>1, <1>3, <1>4
<1> QED
  BY <1>3, <1>5 DEF Cost, c, price

LEMMA CostMonotone ==
  ASSUME NEW t \in Nat, NEW s \in Nat, NEW r \in Nat, t <= s
  PROVE  Cost(t, r) <= Cost(s, r)
<1>1. t * r <= s * r /\ t * r \in Nat /\ s * r \in Nat
  BY ProductMonotone
<1> DEFINE a == t * r + Unit - 1
           b == s * r + Unit - 1
<1>2. a \in Nat /\ b \in Nat /\ a <= b /\ Unit \in Nat \ {0}
  BY <1>1, BudgetAssumption
<1> HIDE DEF a, b
<1>3. a \div Unit <= b \div Unit
  BY <1>2, DivisionMonotone
<1> QED
  BY <1>3 DEF a, b, Cost

LEMMA CostOfNothing ==
  ASSUME NEW r \in Nat
  PROVE  Cost(0, r) = 0
<1>1. Cost(0, r) \in Nat /\ Cost(0, r) * Unit < 0 * r + Unit
  BY CostType
<1> DEFINE c == Cost(0, r)
<1>2. c \in Nat /\ c * Unit < Unit /\ Unit \in Nat \ {0}
  BY <1>1, BudgetAssumption
<1> HIDE DEF c
<1>3. SUFFICES ASSUME 1 <= c PROVE FALSE
  BY <1>2 DEF c
<1>4. 1 * Unit <= c * Unit
  BY <1>2, <1>3, ProductMonotone
<1> QED
  BY <1>2, <1>4

-----------------------------------------------------------------------------
(* Types *)

LEMMA AmountsType ==
  ASSUME NEW a \in Amounts, NEW d \in Dimensions, NEW n \in Nat
  PROVE  a[d] \in Nat /\ [a EXCEPT ![d] = n] \in Amounts
BY DEF Amounts

LEMMA PolicyType ==
  ASSUME NEW p \in Policies
  PROVE  /\ p.runs \in Nat /\ p.rate \in Nat
         /\ p.max \in Amounts /\ p.each \in Amounts
BY BudgetAssumption DEF Policy

LEMMA OwnersFinite == IsFiniteSet(Owners)
BY BudgetAssumption, FS_Union DEF Owners

LEMMA ZeroType == Zero \in Amounts
BY DEF Zero, Amounts

LEMMA RemainingType ==
  ASSUME NEW row \in Reservation, NEW d \in Dimensions
  PROVE  /\ Used(row, d) \in Nat
         /\ Remaining(row, d) \in Nat
         /\ Remaining(row, d) <= row.limit[d]
<1>1. /\ row.used[d] \in Nat /\ row.limit[d] \in Nat
      /\ row.used["time"] \in Nat /\ row.elapsed \in Nat
  BY DEF Reservation, Amounts, Dimensions
<1>2. Used(row, d) \in Nat
  BY <1>1 DEF Used
<1> QED
  BY <1>1, <1>2 DEF Remaining

(* Less used or more used, under the same limit.                           *)
LEMMA RemainingShrinks ==
  ASSUME NEW row \in Reservation, NEW new \in Reservation, NEW d \in Dimensions,
         new.limit = row.limit, Used(row, d) <= Used(new, d)
  PROVE  Remaining(new, d) <= Remaining(row, d)
<1>1. /\ Used(row, d) \in Nat /\ Used(new, d) \in Nat
      /\ row.limit[d] \in Nat /\ new.limit[d] = row.limit[d]
  BY RemainingType DEF Reservation, Amounts
<1> QED
  BY <1>1 DEF Remaining

LEMMA MarkedType ==
  ASSUME NEW row \in Reservation
  PROVE  /\ Marked(row) \in Reservation
         /\ Exceeds(Marked(row)) => Marked(row).exceeded
         /\ Exceeds(Marked(row)) <=> Exceeds(row)
         /\ \A d \in Dimensions : Used(Marked(row), d) = Used(row, d)
         /\ Marked(row).limit = row.limit /\ Marked(row).state = row.state
         /\ Marked(row).used = row.used /\ Marked(row).rate = row.rate
         /\ Marked(row).reported = row.reported
<1> DEFINE x == row.exceeded \/ Exceeds(row)
<1>1. x \in BOOLEAN
  BY DEF Exceeds, Reservation
<1>2. Marked(row) = [row EXCEPT !.exceeded = x]
  BY DEF Marked
<1> HIDE DEF x
<1>3. /\ Marked(row) \in Reservation
      /\ Marked(row).limit = row.limit /\ Marked(row).state = row.state
      /\ Marked(row).used = row.used /\ Marked(row).rate = row.rate
      /\ Marked(row).elapsed = row.elapsed /\ Marked(row).reported = row.reported
      /\ Marked(row).exceeded = x
  BY <1>1, <1>2 DEF Reservation
<1> QED
  BY <1>3 DEF Exceeds, Used, x

LEMMA AccruedType ==
  ASSUME NEW row \in Reservation
  PROVE  /\ Accrued(row) \in Reservation
         /\ Exceeds(Accrued(row)) => Accrued(row).exceeded
         /\ \A d \in Dimensions : Used(Accrued(row), d) = Used(row, d)
         /\ Accrued(row).limit = row.limit /\ Accrued(row).state = row.state
         /\ Accrued(row).used["tokens"] = row.used["tokens"]
         /\ Accrued(row).used["cost"] = row.used["cost"]
         /\ Accrued(row).rate = row.rate /\ Accrued(row).reported = row.reported
<1> DEFINE t == row.used["time"] + row.elapsed
           new == [row EXCEPT !.used["time"] = t, !.elapsed = 0]
<1>1. t \in Nat /\ row.used \in Amounts
  BY DEF Reservation, Amounts, Dimensions
<1>2. [row.used EXCEPT !["time"] = t] \in Amounts
  BY <1>1, AmountsType DEF Dimensions
<1>3. /\ new \in Reservation
      /\ new.used = [row.used EXCEPT !["time"] = t] /\ new.elapsed = 0
      /\ new.limit = row.limit /\ new.state = row.state /\ new.rate = row.rate
      /\ new.reported = row.reported
  BY <1>2 DEF Reservation
<1>4. /\ new.used["time"] = t
      /\ new.used["tokens"] = row.used["tokens"] /\ new.used["cost"] = row.used["cost"]
  BY <1>1, <1>3 DEF Amounts, Dimensions
<1>5. \A d \in Dimensions : Used(new, d) = Used(row, d)
  BY <1>1, <1>3, <1>4 DEF Used, Dimensions
<1>6. Accrued(row) = Marked(new)
  BY DEF Accrued
<1> HIDE DEF new
<1> QED
  BY <1>3, <1>4, <1>5, <1>6, MarkedType

LEMMA ReleasedType ==
  ASSUME NEW row \in Reservation
  PROVE  /\ Released(row) \in Reservation
         /\ Exceeds(Released(row)) => Released(row).exceeded
         /\ \A d \in Dimensions : Used(Released(row), d) = Used(row, d)
         /\ Released(row).limit = row.limit
         /\ Released(row).state = IF row.state = "none" THEN "none" ELSE "released"
         /\ Released(row).used["tokens"] = row.used["tokens"]
         /\ Released(row).used["cost"] = row.used["cost"]
         /\ Released(row).rate = row.rate /\ Released(row).reported = row.reported
<1> DEFINE a == Accrued(row)
           s == IF row.state = "none" THEN "none" ELSE "released"
<1>1. /\ a \in Reservation /\ (Exceeds(a) => a.exceeded)
      /\ \A d \in Dimensions : Used(a, d) = Used(row, d)
      /\ a.limit = row.limit /\ a.state = row.state
      /\ a.used["tokens"] = row.used["tokens"] /\ a.used["cost"] = row.used["cost"]
      /\ a.rate = row.rate /\ a.reported = row.reported
  BY AccruedType
<1>2. Released(row) = [a EXCEPT !.state = s]
  BY <1>1 DEF Released
<1> HIDE DEF a
<1>3. s \in {"none", "released"}
  OBVIOUS
<1> HIDE DEF s
<1>4. /\ [a EXCEPT !.state = s] \in Reservation
      /\ [a EXCEPT !.state = s].used = a.used /\ [a EXCEPT !.state = s].limit = a.limit
      /\ [a EXCEPT !.state = s].elapsed = a.elapsed /\ [a EXCEPT !.state = s].rate = a.rate
      /\ [a EXCEPT !.state = s].reported = a.reported
      /\ [a EXCEPT !.state = s].exceeded = a.exceeded /\ [a EXCEPT !.state = s].state = s
  BY <1>1, <1>3 DEF Reservation
<1> QED
  BY <1>1, <1>2, <1>4 DEF Exceeds, Used, s

-----------------------------------------------------------------------------
(* What the owners of a table r of reservations hold.                      *)

Holders(r) == {o \in Owners : r[o].state \in {"held", "metered"}}
Left(r, d) == UNION {{o} \X (1..Remaining(r[o], d)) : o \in Holders(r)}

LEMMA HeldNow ==
  /\ ActiveOwners = Holders(reservation)
  /\ \A d \in Dimensions : Outstanding(d) = Left(reservation, d)
BY DEF ActiveOwners, Active, Outstanding, Holders, Left

LEMMA HoldersFinite ==
  ASSUME NEW r \in [Owners -> Reservation]
  PROVE  IsFiniteSet(Holders(r)) /\ Cardinality(Holders(r)) \in Nat
BY OwnersFinite, FS_Subset, FS_CardinalityType DEF Holders

LEMMA EnvelopeSize ==
  ASSUME NEW o, NEW n \in Nat
  PROVE  IsFiniteSet({o} \X (1..n)) /\ Cardinality({o} \X (1..n)) = n
<1>1. IsFiniteSet(1..n) /\ Cardinality(1..n) = n
  BY FS_Interval
<1>2. IsFiniteSet({o}) /\ Cardinality({o}) = 1
  BY FS_Singleton
<1>3. /\ IsFiniteSet({o} \X (1..n))
      /\ Cardinality({o} \X (1..n)) = Cardinality({o}) * Cardinality(1..n)
  BY <1>1, <1>2, FS_Product
<1> QED
  BY <1>1, <1>2, <1>3

LEMMA LeftFinite ==
  ASSUME NEW r \in [Owners -> Reservation], NEW d \in Dimensions
  PROVE  IsFiniteSet(Left(r, d)) /\ Cardinality(Left(r, d)) \in Nat
<1> DEFINE H == Holders(r)
           f == [o \in H |-> {o} \X (1..Remaining(r[o], d))]
           T == {{o} \X (1..Remaining(r[o], d)) : o \in H}
<1>1. f \in Surjection(H, T)
  BY DEF Surjection
<1>2. IsFiniteSet(H)
  BY HoldersFinite
<1>3. IsFiniteSet(T)
  BY <1>1, <1>2, FS_Surjection
<1>4. \A S \in T : IsFiniteSet(S)
  BY EnvelopeSize, RemainingType DEF Holders
<1>5. IsFiniteSet(UNION T)
  BY <1>3, <1>4, FS_UNION
<1> QED
  BY <1>5, FS_CardinalityType DEF Left

(* A step that takes no capacity.                                          *)
LEMMA Lowered ==
  ASSUME NEW r \in [Owners -> Reservation], NEW s \in [Owners -> Reservation],
         \A o \in Holders(s) : /\ o \in Holders(r)
                               /\ \A d \in Dimensions : Remaining(s[o], d) <= Remaining(r[o], d)
  PROVE  /\ Cardinality(Holders(s)) <= Cardinality(Holders(r))
         /\ \A d \in Dimensions : Cardinality(Left(s, d)) <= Cardinality(Left(r, d))
<1>1. Cardinality(Holders(s)) <= Cardinality(Holders(r))
  BY HoldersFinite, FS_Subset
<1>2. ASSUME NEW d \in Dimensions PROVE Cardinality(Left(s, d)) <= Cardinality(Left(r, d))
  <2>1. ASSUME NEW o \in Holders(s)
        PROVE  1..Remaining(s[o], d) \subseteq 1..Remaining(r[o], d)
    <3>1. Remaining(s[o], d) \in Nat /\ Remaining(r[o], d) \in Nat
      BY RemainingType DEF Holders
    <3> QED
      BY <3>1
  <2>2. Left(s, d) \subseteq Left(r, d)
    BY <2>1 DEF Left
  <2> QED
    BY <2>2, LeftFinite, FS_Subset
<1> QED
  BY <1>1, <1>2

(* A step by which one owner takes capacity.                               *)
LEMMA Raised ==
  ASSUME NEW r \in [Owners -> Reservation], NEW s \in [Owners -> Reservation],
         NEW x \in Owners, \A o \in Owners \ {x} : s[o] = r[o]
  PROVE  /\ Cardinality(Holders(s)) <= Cardinality(Holders(r)) + 1
         /\ \A d \in Dimensions :
              Cardinality(Left(s, d)) <= Cardinality(Left(r, d)) + Remaining(s[x], d)
<1>1. Cardinality(Holders(s)) <= Cardinality(Holders(r)) + 1
  <2>1. Holders(s) \subseteq Holders(r) \union {x}
    BY DEF Holders
  <2>2. /\ IsFiniteSet(Holders(r) \union {x})
        /\ Cardinality(Holders(r) \union {x}) <= Cardinality(Holders(r)) + 1
    <3>1. IsFiniteSet(Holders(r)) /\ Cardinality(Holders(r)) \in Nat
      BY HoldersFinite
    <3>2. /\ IsFiniteSet(Holders(r) \union {x})
          /\ Cardinality(Holders(r) \union {x})
               = IF x \in Holders(r) THEN Cardinality(Holders(r))
                                     ELSE Cardinality(Holders(r)) + 1
      BY <3>1, FS_AddElement
    <3> QED
      BY <3>1, <3>2
  <2>3. Cardinality(Holders(s)) <= Cardinality(Holders(r) \union {x})
    BY <2>1, <2>2, FS_Subset
  <2>4. Cardinality(Holders(r) \union {x}) \in Nat
    BY <2>2, FS_CardinalityType
  <2> QED
    BY <2>2, <2>3, <2>4, HoldersFinite
<1>2. ASSUME NEW d \in Dimensions
      PROVE  Cardinality(Left(s, d)) <= Cardinality(Left(r, d)) + Remaining(s[x], d)
  <2> DEFINE E == {x} \X (1..Remaining(s[x], d))
  <2>1. Left(s, d) \subseteq Left(r, d) \union E
    BY DEF Left, Holders
  <2>2. Remaining(s[x], d) \in Nat
    BY RemainingType
  <2>3. IsFiniteSet(E) /\ Cardinality(E) = Remaining(s[x], d)
    BY <2>2, EnvelopeSize
  <2> HIDE DEF E
  <2>4. IsFiniteSet(Left(r, d)) /\ Cardinality(Left(r, d)) \in Nat
    BY LeftFinite
  <2>5. /\ IsFiniteSet(Left(r, d) \union E)
        /\ Cardinality(Left(r, d) \union E)
             = Cardinality(Left(r, d)) + Cardinality(E) - Cardinality(Left(r, d) \intersect E)
    BY <2>3, <2>4, FS_Union
  <2>6. Cardinality(Left(r, d) \intersect E) \in Nat
    BY <2>4, FS_Intersection, FS_CardinalityType
  <2>7. /\ Cardinality(Left(s, d)) <= Cardinality(Left(r, d) \union E)
        /\ Cardinality(Left(s, d)) \in Nat
    BY <2>1, <2>5, FS_Subset, LeftFinite
  <2> QED
    BY <2>2, <2>3, <2>4, <2>5, <2>6, <2>7
<1> QED
  BY <1>1, <1>2

-----------------------------------------------------------------------------
(* The inductive invariant: what is true of each reservation by itself,    *)
(* and the capacity the reservations hold together.                        *)

Phases == {"unfiled", "open", "waiting", "ended"}

Sound(o, row, ph) ==
  /\ row.used["cost"] = Cost(row.used["tokens"], row.rate)
  /\ o \in Jobs /\ ~row.reported => row.used["tokens"] = 0
  /\ ph = "unfiled" <=> row.state = "none"
  /\ ph = "unfiled" => row.used = Zero /\ row.elapsed = 0
  /\ ph \in {"waiting", "ended"} => row.state = "released"
  /\ Exceeds(row) => row.exceeded
  /\ o \in Runs /\ ph = "waiting" => ~Exceeds(row)

AllSound == \A o \in Owners : Sound(o, reservation[o], phase[o])

NothingBeforePolicy == policy = {} => ActiveOwners = {}

Capacity == ConcurrencyWithinPolicy /\ EnvelopesWithinPolicy /\ NothingBeforePolicy

IInv == TypeOK /\ AllSound /\ Capacity

LEMMA Initially == Init => IInv
<1> SUFFICES ASSUME Init PROVE IInv
  OBVIOUS
<1>1. TypeOK
  BY ZeroType DEF Init, TypeOK, Reservation
<1>2. AllSound
  <2>1. Cost(0, 0) = 0
    BY CostOfNothing
  <2> QED
    BY <2>1 DEF Init, AllSound, Sound, Exceeds, Zero, Dimensions
<1>3. Capacity
  BY DEF Init, Capacity, ConcurrencyWithinPolicy, EnvelopesWithinPolicy,
         NothingBeforePolicy, ActiveOwners, Active
<1> QED
  BY <1>1, <1>2, <1>3 DEF IInv

(* A step that replaces one row by a sound one.                            *)
LEMMA SetKeepsRows ==
  ASSUME TypeOK, AllSound, NEW o \in Owners, NEW row \in Reservation, NEW to \in Phases,
         Set(o, row, to), Sound(o, row, to)
  PROVE  /\ TypeOK' /\ AllSound'
         /\ reservation' \in [Owners -> Reservation]
         /\ reservation'[o] = row
         /\ \A x \in Owners \ {o} : reservation'[x] = reservation[x]
<1>1. /\ reservation \in [Owners -> Reservation] /\ phase \in [Owners -> Phases]
      /\ reservation' = [reservation EXCEPT ![o] = row]
      /\ phase' = [phase EXCEPT ![o] = to]
      /\ policy' = policy
  BY DEF TypeOK, Set, Phases
<1>2. /\ reservation' \in [Owners -> Reservation] /\ phase' \in [Owners -> Phases]
      /\ reservation'[o] = row /\ phase'[o] = to
      /\ \A x \in Owners \ {o} : reservation'[x] = reservation[x] /\ phase'[x] = phase[x]
  BY <1>1
<1>3. TypeOK'
  BY <1>1, <1>2 DEF TypeOK, Phases
<1>4. ASSUME NEW x \in Owners PROVE Sound(x, reservation'[x], phase'[x])
  BY <1>2 DEF AllSound
<1>5. AllSound'
  BY <1>4 DEF AllSound
<1> QED
  BY <1>2, <1>3, <1>5

(* What is outstanding and not more than before stays within the policy.   *)
LEMMA CapacityLowered ==
  ASSUME TypeOK, Capacity, policy' = policy,
         reservation' \in [Owners -> Reservation],
         \A o \in Holders(reservation') :
           /\ o \in Holders(reservation)
           /\ \A d \in Dimensions :
                Remaining(reservation'[o], d) <= Remaining(reservation[o], d)
  PROVE  Capacity'
<1>1. reservation \in [Owners -> Reservation]
  BY DEF TypeOK
<1>2. /\ Cardinality(Holders(reservation')) <= Cardinality(Holders(reservation))
      /\ \A d \in Dimensions :
           Cardinality(Left(reservation', d)) <= Cardinality(Left(reservation, d))
  BY <1>1, Lowered
<1>3. /\ Cardinality(Holders(reservation)) \in Nat /\ Cardinality(Holders(reservation')) \in Nat
      /\ \A d \in Dimensions : /\ Cardinality(Left(reservation, d)) \in Nat
                               /\ Cardinality(Left(reservation', d)) \in Nat
  BY <1>1, HoldersFinite, LeftFinite
<1>4. ActiveOwners' = Holders(reservation')
  BY DEF ActiveOwners, Active, Holders
<1>5. \A d \in Dimensions : Outstanding(d)' = Left(reservation', d)
  BY DEF Outstanding, Left, ActiveOwners, Active, Holders
<1>6. ASSUME NEW p \in policy'
      PROVE  /\ Cardinality(ActiveOwners') <= p.runs
             /\ \A d \in Dimensions : Cardinality(Outstanding(d)') <= p.max[d]
  <2>1. p \in Policies /\ p.runs \in Nat /\ \A d \in Dimensions : p.max[d] \in Nat
    BY <1>6, PolicyType, AmountsType DEF TypeOK
  <2>2. /\ Cardinality(Holders(reservation)) <= p.runs
        /\ \A d \in Dimensions : Cardinality(Left(reservation, d)) <= p.max[d]
    BY <1>6, HeldNow DEF Capacity, ConcurrencyWithinPolicy, EnvelopesWithinPolicy
  <2>3. Cardinality(Holders(reservation')) <= p.runs
    BY <1>2, <1>3, <2>1, <2>2
  <2>4. ASSUME NEW d \in Dimensions PROVE Cardinality(Left(reservation', d)) <= p.max[d]
    BY <1>2, <1>3, <2>1, <2>2
  <2> QED
    BY <1>4, <1>5, <2>3, <2>4
<1>7. NothingBeforePolicy'
  BY <1>4, HeldNow DEF Capacity, NothingBeforePolicy, Holders
<1> QED
  BY <1>6, <1>7 DEF Capacity, ConcurrencyWithinPolicy, EnvelopesWithinPolicy

(* One owner takes what the policy has room for.                           *)
LEMMA CapacityRaised ==
  ASSUME TypeOK, policy' = policy, NEW p \in policy, NEW amount \in Amounts,
         HasRoom(p, 1, amount),
         NEW x \in Owners, reservation' \in [Owners -> Reservation],
         \A o \in Owners \ {x} : reservation'[o] = reservation[o],
         \A d \in Dimensions : Remaining(reservation'[x], d) <= amount[d]
  PROVE  Capacity'
<1>1. reservation \in [Owners -> Reservation]
  BY DEF TypeOK
<1>2. /\ Cardinality(Holders(reservation')) <= Cardinality(Holders(reservation)) + 1
      /\ \A d \in Dimensions :
           Cardinality(Left(reservation', d))
             <= Cardinality(Left(reservation, d)) + Remaining(reservation'[x], d)
  BY <1>1, Raised
<1>3. /\ Cardinality(Holders(reservation)) \in Nat /\ Cardinality(Holders(reservation')) \in Nat
      /\ \A d \in Dimensions : /\ Cardinality(Left(reservation, d)) \in Nat
                               /\ Cardinality(Left(reservation', d)) \in Nat
                               /\ Remaining(reservation'[x], d) \in Nat
                               /\ amount[d] \in Nat
  BY <1>1, HoldersFinite, LeftFinite, RemainingType, AmountsType
<1>4. ActiveOwners' = Holders(reservation')
  BY DEF ActiveOwners, Active, Holders
<1>5. \A d \in Dimensions : Outstanding(d)' = Left(reservation', d)
  BY DEF Outstanding, Left, ActiveOwners, Active, Holders
<1>6. p \in Policies /\ p.runs \in Nat /\ \A d \in Dimensions : p.max[d] \in Nat
  BY PolicyType, AmountsType DEF TypeOK
<1>7. /\ Cardinality(Holders(reservation)) + 1 <= p.runs
      /\ \A d \in Dimensions : Cardinality(Left(reservation, d)) + amount[d] <= p.max[d]
  BY HeldNow DEF HasRoom
<1>8. Cardinality(Holders(reservation')) <= p.runs
  BY <1>2, <1>3, <1>6, <1>7
<1>9. ASSUME NEW d \in Dimensions PROVE Cardinality(Left(reservation', d)) <= p.max[d]
  BY <1>2, <1>3, <1>6, <1>7
<1>10. \A q \in policy' : q = p
  BY DEF TypeOK
<1> QED
  BY <1>4, <1>5, <1>8, <1>9, <1>10
  DEF Capacity, ConcurrencyWithinPolicy, EnvelopesWithinPolicy, NothingBeforePolicy

(* A step of one owner that uses more and takes no capacity.               *)
LEMMA SetLowers ==
  ASSUME IInv, NEW o \in Owners, NEW row \in Reservation, NEW to \in Phases,
         Set(o, row, to), Sound(o, row, to),
         row.state \in {"held", "metered"} => Active(o),
         row.limit = reservation[o].limit,
         \A d \in Dimensions : Used(reservation[o], d) <= Used(row, d)
  PROVE  IInv'
<1>1. /\ TypeOK' /\ AllSound'
      /\ reservation' \in [Owners -> Reservation]
      /\ reservation'[o] = row
      /\ \A x \in Owners \ {o} : reservation'[x] = reservation[x]
  BY SetKeepsRows DEF IInv
<1>2. reservation \in [Owners -> Reservation] /\ policy' = policy
  BY DEF IInv, TypeOK, Set
<1>3. ASSUME NEW x \in Holders(reservation')
      PROVE  /\ x \in Holders(reservation)
             /\ \A d \in Dimensions :
                  Remaining(reservation'[x], d) <= Remaining(reservation[x], d)
  <2>1. CASE x = o
    BY <2>1, <1>1, <1>2, RemainingShrinks DEF Holders, Active
  <2>2. CASE x # o
    <3>1. x \in Owners /\ reservation'[x] = reservation[x]
      BY <2>2, <1>1 DEF Holders
    <3> QED
      BY <3>1, <1>2, RemainingType DEF Holders
  <2> QED
    BY <2>1, <2>2
<1>4. Capacity'
  BY <1>1, <1>2, <1>3, CapacityLowered DEF IInv
<1> QED
  BY <1>1, <1>4 DEF IInv

LEMMA RowNow ==
  ASSUME IInv, NEW o \in Owners
  PROVE  /\ reservation[o] \in Reservation /\ phase[o] \in Phases
         /\ Sound(o, reservation[o], phase[o])
         /\ reservation[o].used \in Amounts /\ reservation[o].limit \in Amounts
         /\ reservation[o].rate \in Nat /\ reservation[o].elapsed \in Nat
         /\ \A d \in Dimensions : /\ reservation[o].used[d] \in Nat
                                  /\ Used(reservation[o], d) \in Nat
<1>1. reservation[o] \in Reservation /\ phase[o] \in Phases
  BY DEF IInv, TypeOK, Phases
<1> QED
  BY <1>1, RemainingType, AmountsType DEF IInv, AllSound, Reservation

(* What a report of usage does to a row.                                   *)
Charge(row, t, reported) ==
  Marked([row EXCEPT !.used["tokens"] = t, !.used["cost"] = Cost(t, row.rate),
                     !.reported = reported])

LEMMA Charged ==
  ASSUME NEW row \in Reservation, NEW t \in Nat, NEW reported \in BOOLEAN,
         row.used["cost"] = Cost(row.used["tokens"], row.rate), row.used["tokens"] <= t
  PROVE  LET new == Charge(row, t, reported)
         IN  /\ new \in Reservation
             /\ Exceeds(new) => new.exceeded
             /\ \A d \in Dimensions : Used(row, d) <= Used(new, d)
             /\ new.limit = row.limit /\ new.state = row.state
             /\ new.used["cost"] = Cost(new.used["tokens"], new.rate)
             /\ new.reported = reported
<1> DEFINE c == Cost(t, row.rate)
           u == [row.used EXCEPT !["tokens"] = t, !["cost"] = c]
           charged == [row EXCEPT !.used["tokens"] = t, !.used["cost"] = c,
                                  !.reported = reported]
<1>1. row.used \in Amounts /\ row.rate \in Nat /\ row.elapsed \in Nat
      /\ \A d \in Dimensions : row.used[d] \in Nat
  BY AmountsType DEF Reservation
<1>2. "tokens" \in Dimensions /\ "cost" \in Dimensions /\ "time" \in Dimensions
  BY DEF Dimensions
<1>3. c \in Nat /\ row.used["cost"] <= c
  <2>1. row.used["tokens"] \in Nat
    BY <1>1, <1>2
  <2>2. Cost(row.used["tokens"], row.rate) <= Cost(t, row.rate)
    BY <1>1, <2>1, CostMonotone
  <2>3. Cost(t, row.rate) \in Nat
    BY <1>1, CostType
  <2> QED
    BY <2>2, <2>3
<1> HIDE DEF c
<1>4. u \in Amounts
  BY <1>1, <1>2, <1>3 DEF Amounts
<1>5. u["tokens"] = t /\ u["cost"] = c /\ u["time"] = row.used["time"]
  BY <1>1, <1>2 DEF Amounts
<1> HIDE DEF u
<1>6. /\ charged \in Reservation /\ charged.used = u
      /\ charged.elapsed = row.elapsed /\ charged.limit = row.limit
      /\ charged.state = row.state /\ charged.rate = row.rate
      /\ charged.reported = reported
  BY <1>4 DEF Reservation, u
<1> HIDE DEF charged
<1>7. \A d \in Dimensions : Used(row, d) <= Used(charged, d)
  <2>1. Used(row, "tokens") <= Used(charged, "tokens")
    BY <1>5, <1>6 DEF Used
  <2>2. Used(row, "cost") <= Used(charged, "cost")
    BY <1>3, <1>5, <1>6 DEF Used
  <2>3. Used(row, "time") <= Used(charged, "time")
    BY <1>1, <1>2, <1>5, <1>6 DEF Used
  <2> QED
    BY <2>1, <2>2, <2>3 DEF Dimensions
<1>8. /\ Marked(charged) \in Reservation
      /\ Exceeds(Marked(charged)) => Marked(charged).exceeded
      /\ \A d \in Dimensions : Used(row, d) <= Used(Marked(charged), d)
      /\ Marked(charged).limit = row.limit /\ Marked(charged).state = row.state
      /\ Marked(charged).used = u /\ Marked(charged).rate = row.rate
      /\ Marked(charged).reported = reported
  BY <1>6, <1>7, MarkedType
<1>9. Marked(charged).used["cost"] = Cost(Marked(charged).used["tokens"], Marked(charged).rate)
  BY <1>5, <1>8 DEF c
<1> QED
  BY <1>8, <1>9 DEF charged, c, Charge

LEMMA MeterStep ==
  ASSUME IInv, NEW o \in Owners, NEW u \in Usages, Meter(o, u)
  PROVE  IInv'
<1> DEFINE row == reservation[o]
           t   == row.used["tokens"] + u
           new == Charge(row, t, row.reported)
<1>1. /\ row \in Reservation /\ phase[o] \in Phases /\ Sound(o, row, phase[o])
      /\ row.used["tokens"] \in Nat /\ u \in Nat
  BY RowNow, BudgetAssumption DEF Dimensions
<1>2. o \in Runs /\ row.state = "metered"
      /\ Set(o, Marked([row EXCEPT !.used["tokens"] = t, !.used["cost"] = Cost(t, row.rate)]),
             phase[o])
  BY DEF Meter
<1>3. [row EXCEPT !.used["tokens"] = t, !.used["cost"] = Cost(t, row.rate)]
        = [row EXCEPT !.used["tokens"] = t, !.used["cost"] = Cost(t, row.rate),
                      !.reported = row.reported]
  BY <1>1 DEF Reservation
<1>4. Set(o, new, phase[o])
  BY <1>2, <1>3 DEF Charge
<1>5. t \in Nat /\ row.used["tokens"] <= t /\ row.reported \in BOOLEAN
      /\ row.used["cost"] = Cost(row.used["tokens"], row.rate)
  BY <1>1 DEF Sound, Reservation
<1>6. /\ new \in Reservation
      /\ Exceeds(new) => new.exceeded
      /\ \A d \in Dimensions : Used(row, d) <= Used(new, d)
      /\ new.limit = row.limit /\ new.state = row.state
      /\ new.used["cost"] = Cost(new.used["tokens"], new.rate)
  BY <1>1, <1>5, Charged
<1> HIDE DEF new
<1>7. phase[o] = "open"
  BY <1>1, <1>2 DEF Sound, Phases
<1>8. o \notin Jobs
  BY <1>2, BudgetAssumption
<1>9. Sound(o, new, phase[o])
  BY <1>2, <1>6, <1>7, <1>8 DEF Sound
<1> QED
  BY <1>1, <1>2, <1>4, <1>6, <1>9, SetLowers DEF Active

LEMMA ReportUsageStep ==
  ASSUME IInv, NEW o \in Owners, NEW u \in Usages, ReportUsage(o, u)
  PROVE  IInv'
<1> DEFINE row == reservation[o]
           new == Charge(row, u, TRUE)
<1>1. /\ row \in Reservation /\ phase[o] \in Phases /\ Sound(o, row, phase[o])
      /\ row.used["tokens"] \in Nat /\ u \in Nat
  BY RowNow, BudgetAssumption DEF Dimensions
<1>2. o \in Jobs /\ row.state = "metered" /\ ~row.reported /\ Set(o, new, phase[o])
  BY DEF ReportUsage, Charge
<1>3. row.used["tokens"] <= u /\ row.used["cost"] = Cost(row.used["tokens"], row.rate)
  BY <1>1, <1>2 DEF Sound
<1>4. /\ new \in Reservation
      /\ Exceeds(new) => new.exceeded
      /\ \A d \in Dimensions : Used(row, d) <= Used(new, d)
      /\ new.limit = row.limit /\ new.state = row.state
      /\ new.used["cost"] = Cost(new.used["tokens"], new.rate)
      /\ new.reported = TRUE
  BY <1>1, <1>3, Charged
<1> HIDE DEF new
<1>5. phase[o] = "open"
  BY <1>1, <1>2 DEF Sound, Phases
<1>6. Sound(o, new, phase[o])
  BY <1>2, <1>4, <1>5 DEF Sound
<1> QED
  BY <1>1, <1>2, <1>4, <1>6, SetLowers DEF Active

LEMMA CheckTimeStep ==
  ASSUME IInv, NEW o \in Owners, CheckTime(o)
  PROVE  IInv'
<1> DEFINE row == reservation[o]
           new == Accrued(row)
<1>1. /\ row \in Reservation /\ phase[o] \in Phases /\ Sound(o, row, phase[o])
      /\ \A d \in Dimensions : Used(row, d) \in Nat
  BY RowNow
<1>2. row.state = "metered" /\ Set(o, new, phase[o])
  BY DEF CheckTime
<1>3. /\ new \in Reservation /\ (Exceeds(new) => new.exceeded)
      /\ \A d \in Dimensions : Used(new, d) = Used(row, d)
      /\ new.limit = row.limit /\ new.state = row.state
      /\ new.used["tokens"] = row.used["tokens"] /\ new.used["cost"] = row.used["cost"]
      /\ new.rate = row.rate /\ new.reported = row.reported
  BY <1>1, AccruedType
<1> HIDE DEF new
<1>4. phase[o] = "open"
  BY <1>1, <1>2 DEF Sound, Phases
<1>5. Sound(o, new, phase[o])
  BY <1>1, <1>2, <1>3, <1>4 DEF Sound
<1>6. \A d \in Dimensions : Used(row, d) <= Used(new, d)
  BY <1>1, <1>3
<1> QED
  BY <1>1, <1>2, <1>3, <1>5, <1>6, SetLowers DEF Active

(* Every release, when its result is accepted: pauses look at it first.    *)
LEMMA ReleaseStep ==
  ASSUME IInv, NEW o \in Owners, NEW to \in {"waiting", "ended"},
         phase[o] \in {"open", "waiting"},
         Set(o, Released(reservation[o]), to),
         o \in Runs /\ to = "waiting" => ~Exceeds(Released(reservation[o]))
  PROVE  IInv'
<1> DEFINE row == reservation[o]
           new == Released(row)
<1>1. /\ row \in Reservation /\ Sound(o, row, phase[o])
      /\ \A d \in Dimensions : Used(row, d) \in Nat
  BY RowNow
<1>2. /\ new \in Reservation /\ (Exceeds(new) => new.exceeded)
      /\ \A d \in Dimensions : Used(new, d) = Used(row, d)
      /\ new.limit = row.limit
      /\ new.state = IF row.state = "none" THEN "none" ELSE "released"
      /\ new.used["tokens"] = row.used["tokens"] /\ new.used["cost"] = row.used["cost"]
      /\ new.rate = row.rate /\ new.reported = row.reported
  BY <1>1, ReleasedType
<1>3. Set(o, new, to) /\ (o \in Runs /\ to = "waiting" => ~Exceeds(new))
  OBVIOUS
<1> HIDE DEF new
<1>4. new.state = "released"
  BY <1>1, <1>2 DEF Sound
<1>5. Sound(o, new, to)
  BY <1>1, <1>2, <1>3, <1>4 DEF Sound
<1>6. \A d \in Dimensions : Used(row, d) <= Used(new, d)
  BY <1>1, <1>2
<1>7. to \in Phases
  BY DEF Phases
<1> QED
  BY <1>2, <1>3, <1>4, <1>5, <1>6, <1>7, SetLowers

LEMMA ReserveStep ==
  ASSUME IInv, NEW o \in Owners, Reserve(o)
  PROVE  IInv'
<1>1. PICK p \in policy :
        /\ HasRoom(p, 1, p.each)
        /\ Set(o, [reservation[o] EXCEPT !.state = "held", !.limit = p.each, !.rate = p.rate],
               "open")
  BY DEF Reserve
<1> DEFINE row == reservation[o]
           new == [row EXCEPT !.state = "held", !.limit = p.each, !.rate = p.rate]
<1>2. /\ row \in Reservation /\ Sound(o, row, "unfiled") /\ phase[o] = "unfiled"
  BY RowNow DEF Reserve
<1>3. p.each \in Amounts /\ p.rate \in Nat /\ \A d \in Dimensions : p.each[d] \in Nat
  BY PolicyType, AmountsType DEF IInv, TypeOK
<1>4. /\ row.used = Zero /\ row.elapsed = 0
  BY <1>2 DEF Sound
<1>5. /\ new \in Reservation /\ new.limit = p.each /\ new.state = "held"
      /\ new.used = Zero /\ new.elapsed = 0 /\ new.rate = p.rate
      /\ new.reported = row.reported
  BY <1>2, <1>3, <1>4 DEF Reservation
<1>6. Set(o, new, "open")
  BY <1>1
<1> HIDE DEF new
<1>7. ~Exceeds(new)
  BY <1>3, <1>5 DEF Exceeds, Zero
<1>8. new.used["cost"] = Cost(new.used["tokens"], new.rate) /\ new.used["tokens"] = 0
  BY <1>3, <1>5, CostOfNothing DEF Zero, Dimensions
<1>9. Sound(o, new, "open") /\ "open" \in Phases
  BY <1>5, <1>7, <1>8 DEF Sound, Phases
<1>10. /\ TypeOK' /\ AllSound'
       /\ reservation' \in [Owners -> Reservation]
       /\ reservation'[o] = new
       /\ \A x \in Owners \ {o} : reservation'[x] = reservation[x]
  BY <1>5, <1>6, <1>9, SetKeepsRows DEF IInv
<1>11. \A d \in Dimensions : Remaining(reservation'[o], d) <= p.each[d]
  BY <1>5, <1>10, RemainingType
<1>12. Capacity'
  <2>1. policy' = policy /\ TypeOK
    BY <1>6 DEF Set, IInv
  <2> QED
    BY <1>1, <1>3, <1>10, <1>11, <2>1, CapacityRaised
<1> QED
  BY <1>10, <1>12 DEF IInv

LEMMA ActivateStep ==
  ASSUME IInv, NEW o \in Owners, Activate(o)
  PROVE  IInv'
<1>1. PICK p \in policy :
        /\ ~Active(o) => HasRoomFor(p, reservation[o])
        /\ Set(o, [reservation[o] EXCEPT !.state = "metered"], "open")
  BY DEF Activate
<1> DEFINE row == reservation[o]
           new == [row EXCEPT !.state = "metered"]
<1>2. /\ row \in Reservation /\ Sound(o, row, phase[o]) /\ phase[o] \in {"open", "waiting"}
      /\ \A d \in Dimensions : Used(row, d) \in Nat
  BY RowNow DEF Activate
<1>3. /\ new \in Reservation /\ new.limit = row.limit /\ new.state = "metered"
      /\ new.used = row.used /\ new.elapsed = row.elapsed /\ new.rate = row.rate
      /\ new.reported = row.reported /\ new.exceeded = row.exceeded
  BY <1>2 DEF Reservation
<1>4. Set(o, new, "open")
  BY <1>1
<1> HIDE DEF new
<1>5. \A d \in Dimensions : Used(new, d) = Used(row, d)
                            /\ Remaining(new, d) = Remaining(row, d)
  BY <1>3 DEF Used, Remaining
<1>6. Sound(o, new, "open") /\ "open" \in Phases
  BY <1>2, <1>3 DEF Sound, Phases, Exceeds
<1>7. CASE Active(o)
  <2>1. \A d \in Dimensions : Used(row, d) <= Used(new, d)
    BY <1>2, <1>5
  <2> QED
    BY <1>3, <1>4, <1>6, <1>7, <2>1, SetLowers
<1>8. CASE ~Active(o)
  <2> DEFINE amount == [d \in Dimensions |-> Remaining(row, d)]
  <2>1. amount \in Amounts
    BY <1>2, RemainingType DEF Amounts
  <2>2. HasRoom(p, 1, amount)
    BY <1>1, <1>8 DEF HasRoomFor
  <2>3. /\ TypeOK' /\ AllSound'
        /\ reservation' \in [Owners -> Reservation]
        /\ reservation'[o] = new
        /\ \A x \in Owners \ {o} : reservation'[x] = reservation[x]
    BY <1>3, <1>4, <1>6, SetKeepsRows DEF IInv
  <2>4. \A d \in Dimensions : Remaining(reservation'[o], d) <= amount[d]
    <3>1. ASSUME NEW d \in Dimensions
          PROVE  Remaining(reservation'[o], d) = amount[d] /\ amount[d] \in Nat
      BY <1>2, <1>5, <2>3, RemainingType
    <3> QED
      BY <3>1
  <2> HIDE DEF amount
  <2>5. Capacity'
    <3>1. policy' = policy /\ TypeOK
      BY <1>4 DEF Set, IInv
    <3> QED
      BY <2>1, <2>2, <2>3, <2>4, <3>1, CapacityRaised
  <2> QED
    BY <2>3, <2>5 DEF IInv
<1> QED
  BY <1>7, <1>8

LEMMA PutPolicyStep ==
  ASSUME IInv, NEW p \in Policies, PutPolicy(p)
  PROVE  IInv'
<1>1. policy' = {p} /\ UNCHANGED <<reservation, phase>>
  BY DEF PutPolicy
<1>2. TypeOK' /\ AllSound'
  BY <1>1 DEF IInv, TypeOK, AllSound
<1>3. Capacity'
  <2>1. /\ Cardinality(ActiveOwners) <= p.runs
        /\ \A d \in Dimensions : Cardinality(Outstanding(d)) <= p.max[d]
    <3>1. reservation \in [Owners -> Reservation]
      BY DEF IInv, TypeOK
    <3>2. /\ Cardinality(ActiveOwners) \in Nat
          /\ \A d \in Dimensions : Cardinality(Outstanding(d)) \in Nat
      BY <3>1, HeldNow, HoldersFinite, LeftFinite
    <3>3. p.runs \in Nat /\ \A d \in Dimensions : p.max[d] \in Nat
      BY PolicyType, AmountsType
    <3>4. CASE policy # {}
      <4>1. HasRoom(p, 0, Zero)
        BY <3>4 DEF PutPolicy
      <4>2. \A d \in Dimensions : Zero[d] = 0
        BY DEF Zero
      <4> QED
        BY <3>2, <3>3, <4>1, <4>2 DEF HasRoom
    <3>5. CASE policy = {}
      <4>1. ActiveOwners = {}
        BY <3>5 DEF IInv, Capacity, NothingBeforePolicy
      <4>2. \A d \in Dimensions : Outstanding(d) = {}
        BY <4>1 DEF Outstanding
      <4>3. Cardinality({}) = 0
        BY FS_EmptySet
      <4>4. Cardinality(ActiveOwners) = 0
        BY <4>1, <4>3, Zenon
      <4>5. ASSUME NEW d \in Dimensions PROVE Cardinality(Outstanding(d)) = 0
        BY <4>2, <4>3, Zenon
      <4> QED
        BY <3>3, <4>4, <4>5
    <3> QED
      BY <3>4, <3>5
  <2>2. ActiveOwners' = ActiveOwners /\ \A d \in Dimensions : Outstanding(d)' = Outstanding(d)
    BY <1>1 DEF ActiveOwners, Active, Outstanding
  <2> QED
    BY <1>1, <2>1, <2>2
    DEF Capacity, ConcurrencyWithinPolicy, EnvelopesWithinPolicy, NothingBeforePolicy
<1> QED
  BY <1>2, <1>3 DEF IInv

LEMMA TickStep ==
  ASSUME IInv, Tick
  PROVE  IInv'
<1> DEFINE later(o) == IF reservation[o].state = "metered"
                       THEN [reservation[o] EXCEPT !.elapsed = @ + 1]
                       ELSE reservation[o]
<1>1. policy' = policy /\ phase' = phase /\ reservation' = [o \in Owners |-> later(o)]
  BY DEF Tick
<1>2. ASSUME NEW o \in Owners
      PROVE  /\ later(o) \in Reservation
             /\ later(o).limit = reservation[o].limit /\ later(o).state = reservation[o].state
             /\ later(o).used = reservation[o].used /\ later(o).rate = reservation[o].rate
             /\ later(o).reported = reservation[o].reported
             /\ later(o).exceeded = reservation[o].exceeded
             /\ later(o).elapsed \in {reservation[o].elapsed, reservation[o].elapsed + 1}
             /\ reservation[o].state = "none" => later(o).elapsed = reservation[o].elapsed
  BY RowNow DEF Reservation
<1> HIDE DEF later
<1>3. /\ reservation' \in [Owners -> Reservation]
      /\ \A o \in Owners : reservation'[o] = later(o)
  BY <1>1, <1>2
<1>4. TypeOK'
  BY <1>1, <1>3 DEF IInv, TypeOK
<1>5. ASSUME NEW o \in Owners PROVE Sound(o, reservation'[o], phase'[o])
  BY <1>1, <1>2, <1>3, RowNow DEF Sound, Exceeds
<1>6. ASSUME NEW o \in Holders(reservation')
      PROVE  /\ o \in Holders(reservation)
             /\ \A d \in Dimensions :
                  Remaining(reservation'[o], d) <= Remaining(reservation[o], d)
  <2>1. o \in Owners /\ reservation'[o] = later(o) /\ reservation'[o] \in Reservation
    BY <1>3 DEF Holders
  <2>2. o \in Holders(reservation)
    BY <1>2, <1>6, <2>1 DEF Holders
  <2>3. ASSUME NEW d \in Dimensions
        PROVE  Used(reservation[o], d) <= Used(reservation'[o], d)
    <3>1. /\ reservation[o].used[d] \in Nat /\ reservation[o].used["time"] \in Nat
          /\ reservation[o].elapsed \in Nat
      BY <2>1, RowNow DEF Dimensions
    <3> QED
      BY <1>2, <2>1, <3>1 DEF Used
  <2> QED
    BY <1>2, <2>1, <2>2, <2>3, RowNow, RemainingShrinks
<1>7. Capacity'
  BY <1>1, <1>3, <1>6, CapacityLowered DEF IInv
<1>8. AllSound'
  BY <1>5 DEF AllSound
<1> QED
  BY <1>4, <1>7, <1>8 DEF IInv

LEMMA StepKeepsInvariant == IInv /\ [Next]_vars => IInv'
<1> SUFFICES ASSUME IInv, [Next]_vars PROVE IInv'
  OBVIOUS
<1>1. ASSUME NEW p \in Policies, PutPolicy(p) PROVE IInv'
  BY <1>1, PutPolicyStep
<1>2. ASSUME NEW o \in Owners, Reserve(o) PROVE IInv'
  BY <1>2, ReserveStep
<1>3. ASSUME NEW o \in Owners, Activate(o) PROVE IInv'
  BY <1>3, ActivateStep
<1>4. ASSUME NEW o \in Owners, CheckTime(o) PROVE IInv'
  BY <1>4, CheckTimeStep
<1>5. ASSUME NEW o \in Owners, NEW u \in Usages, Meter(o, u) PROVE IInv'
  BY <1>5, MeterStep
<1>6. ASSUME NEW o \in Owners, NEW u \in Usages, ReportUsage(o, u) PROVE IInv'
  BY <1>6, ReportUsageStep
<1>7. ASSUME NEW o \in Owners, Pause(o) \/ Finish(o) \/ Retry(o) \/ FailOrCancel(o)
      PROVE  IInv'
  <2>1. reservation[o].state = "metered" => phase[o] = "open"
    BY RowNow DEF Sound, Phases
  <2>2. CASE Pause(o)
    BY <2>1, <2>2, ReleaseStep DEF Pause
  <2>3. CASE Finish(o)
    BY <2>1, <2>3, ReleaseStep DEF Finish
  <2>4. CASE Retry(o)
    <3>1. o \notin Runs
      BY <2>4, BudgetAssumption DEF Retry
    <3> QED
      BY <2>1, <2>4, <3>1, ReleaseStep DEF Retry
  <2>5. CASE FailOrCancel(o)
    BY <2>5, ReleaseStep DEF FailOrCancel
  <2> QED
    BY <1>7, <2>2, <2>3, <2>4, <2>5
<1>8. ASSUME Tick PROVE IInv'
  BY <1>8, TickStep
<1>9. ASSUME UNCHANGED vars PROVE IInv'
  <2>1. policy' = policy /\ reservation' = reservation /\ phase' = phase
    BY <1>9 DEF vars
  <2>2. TypeOK' /\ AllSound'
    BY <2>1 DEF IInv, TypeOK, AllSound
  <2>3. ActiveOwners' = ActiveOwners /\ \A d \in Dimensions : Outstanding(d)' = Outstanding(d)
    BY <2>1 DEF ActiveOwners, Active, Outstanding
  <2>4. Capacity'
    BY <2>1, <2>3
    DEF IInv, Capacity, ConcurrencyWithinPolicy, EnvelopesWithinPolicy, NothingBeforePolicy
  <2> QED
    BY <2>2, <2>4 DEF IInv
<1> QED
  BY <1>1, <1>2, <1>3, <1>4, <1>5, <1>6, <1>7, <1>8, <1>9 DEF Next

LEMMA Invariant == Spec => []IInv
BY Initially, StepKeepsInvariant, PTL DEF Spec

-----------------------------------------------------------------------------
(* Theorems *)

(* Policies, reservations and the phases of their owners stay in their     *)
(* types.                                                                  *)
THEOREM TypeCorrect == Spec => []TypeOK
<1>1. IInv => TypeOK
  BY DEF IInv
<1> QED
  BY <1>1, Invariant, PTL

(* However many runs and jobs are filed, resumed and retried, under        *)
(* whatever changes of policy, max_concurrent_runs is never exceeded.      *)
THEOREM ConcurrencyIsCapped == Spec => []ConcurrencyWithinPolicy
<1>1. IInv => ConcurrencyWithinPolicy
  BY DEF IInv, Capacity
<1> QED
  BY <1>1, Invariant, PTL

(* The sums that budgets.py compares with the organization's maxima stay   *)
(* within them between transactions as well, in every dimension.           *)
THEOREM EnvelopesAreCapped == Spec => []EnvelopesWithinPolicy
<1>1. IInv => EnvelopesWithinPolicy
  BY DEF IInv, Capacity
<1> QED
  BY <1>1, Invariant, PTL

(* No usage beyond a limit is committed unmarked.                          *)
THEOREM OverrunsAreRecorded == Spec => []OverrunIsRecorded
<1>1. IInv => OverrunIsRecorded
  BY DEF IInv, AllSound, Sound, OverrunIsRecorded
<1> QED
  BY <1>1, Invariant, PTL

(* No run hides an overrun behind a wait.                                  *)
THEOREM WaitsAreWithinLimits == Spec => []WaitingRunWithinLimits
<1>1. IInv => WaitingRunWithinLimits
  BY DEF IInv, AllSound, Sound, WaitingRunWithinLimits, Owners
<1> QED
  BY <1>1, Invariant, PTL

(* Costs are rounded up once for each reservation, for every rate, unit    *)
(* and sequence of calls.                                                  *)
THEOREM CostsAreRoundedOnce == Spec => []CostIsRoundedOnce
<1>1. IInv => CostIsRoundedOnce
  <2> SUFFICES ASSUME IInv, NEW o \in Owners
               PROVE  LET price == reservation[o].used["tokens"] * reservation[o].rate
                          cost  == reservation[o].used["cost"] * Unit
                      IN  price <= cost /\ cost < price + Unit
    BY DEF CostIsRoundedOnce
  <2> DEFINE t == reservation[o].used["tokens"]
             r == reservation[o].rate
  <2>1. t \in Nat /\ r \in Nat /\ reservation[o].used["cost"] = Cost(t, r)
    BY RowNow DEF Dimensions, Sound
  <2> HIDE DEF t, r
  <2>2. t * r <= Cost(t, r) * Unit /\ Cost(t, r) * Unit < t * r + Unit
    BY <2>1, CostType
  <2> QED
    BY <2>1, <2>2 DEF t, r
<1> QED
  BY <1>1, Invariant, PTL
=============================================================================

-------------------------- MODULE Schedule_proofs ---------------------------
(***************************************************************************)
(* Proofs about Schedule: every state has its type, no promised occurrence *)
(* slips by, what is overdue stays in sight of who files it, and the runs  *)
(* of a revoked revision were asked to stop.                               *)
(***************************************************************************)
EXTENDS Schedule, FiniteSetTheorems, WellFoundedInduction, TLAPS

(* A set of naturals that is not empty has a least element.                *)
LEMMA LeastExists ==
  ASSUME NEW T \in SUBSET Nat, T # {}
  PROVE  \E t \in T : \A u \in T : t <= u
<1>1. PICK t \in T : \A u \in T : <<u, t>> \notin OpToRel(<, Nat)
  BY NatLessThanWellFounded, WFMin
<1>2. OpToRel(<, Nat) = {ss \in Nat \X Nat : ss[1] < ss[2]}
  BY Zenon DEF OpToRel
<1>3. ASSUME NEW u \in T PROVE t <= u
  <2>1. u \in Nat /\ t \in Nat  BY <1>1
  <2>2. ~(u < t)  BY <1>1, <1>2, <2>1
  <2> QED BY <2>1, <2>2
<1> QED BY <1>3

(* One that is bounded has a greatest.                                     *)
LEMMA GreatestExists ==
  ASSUME NEW n \in Nat, NEW T \in SUBSET (0..n), T # {}
  PROVE  \E t \in T : \A u \in T : t >= u
<1> DEFINE D == {n - t : t \in T}
<1>1. D \in SUBSET Nat /\ D # {}
  <2>1. \A t \in T : n - t \in Nat  OBVIOUS
  <2>2. D \in SUBSET Nat  BY <2>1
  <2>3. \E t \in T : n - t \in D  OBVIOUS
  <2> QED BY <2>2, <2>3
<1>2. PICK d \in D : \A e \in D : d <= e  BY <1>1, LeastExists
<1>3. PICK t \in T : d = n - t  BY <1>2
<1>4. \A u \in T : n - t <= n - u  BY <1>2, <1>3
<1>5. \A u \in T : t >= u  BY <1>4
<1> QED BY <1>5

-----------------------------------------------------------------------------
(* Times and recurrences *)

LEMMA InstantsFacts ==
  /\ Horizon \in Nat
  /\ Instants \subseteq Moments
  /\ \A t \in Moments : t \in Nat
  /\ \A t \in Instants : t \in Nat /\ t >= 1
  /\ \A t \in Moments : t # 0 => t \in Instants
  /\ 0 \in Moments
  /\ Moments = 0..(Horizon + 1)
  /\ IsFiniteSet(Instants)
<1>1. Horizon \in Nat  BY ScheduleAssumption
<1>2. IsFiniteSet(Instants)
  BY <1>1, FS_Interval DEF Instants
<1> QED BY <1>1, <1>2 DEF Instants, Moments

LEMMA LatestIsGreatest ==
  ASSUME NEW T \in SUBSET Instants, T # {}
  PROVE  Latest(T) \in T /\ \A t \in T : t <= Latest(T)
<1>1. T \in SUBSET (0..(Horizon + 1)) /\ Horizon + 1 \in Nat
  BY InstantsFacts
<1>2. \E t \in T : \A u \in T : t >= u
  BY <1>1, GreatestExists
<1>3. Latest(T) \in T /\ \A u \in T : Latest(T) >= u
  BY <1>2 DEF Latest
<1>4. \A u \in T : u \in Nat  BY <1>1
<1> QED BY <1>3, <1>4

LEMMA EarliestIsLeast ==
  ASSUME NEW T \in SUBSET Instants, T # {}
  PROVE  Earliest(T) \in T /\ \A t \in T : Earliest(T) <= t
<1>1. T \in SUBSET Nat
  BY InstantsFacts
<1>2. \E t \in T : \A u \in T : t <= u
  BY <1>1, LeastExists
<1> QED BY <1>2 DEF Earliest

(* A bounded walk from the early end: it takes the earliest ones, no more  *)
(* than its bound, and all of them unless it reaches the bound.            *)
LEMMA OldestFacts ==
  ASSUME NEW T \in SUBSET Instants, NEW n \in Nat, n # 0
  PROVE  /\ Oldest(n, T) \subseteq T
         /\ T # {} => Oldest(n, T) # {}
         /\ \A t \in T, u \in Oldest(n, T) : t <= u => t \in Oldest(n, T)
         /\ Cardinality(Oldest(n, T)) \in 0..n
         /\ T \ Oldest(n, T) # {} => Cardinality(Oldest(n, T)) = n
<1> DEFINE upTo(t) == {u \in T : u <= t}
           W       == Oldest(n, T)
<1>0. n >= 1 /\ \A t \in T : t \in Nat  BY InstantsFacts
<1>1. IsFiniteSet(T)  BY InstantsFacts, FS_Subset
<1>2. \A t : IsFiniteSet(upTo(t)) /\ Cardinality(upTo(t)) \in Nat
  BY <1>1, FS_Subset, FS_CardinalityType
<1>3. \A t \in T : t \in W <=> Cardinality(upTo(t)) <= n
  BY DEF Oldest
<1>4. W \subseteq T  BY DEF Oldest
<1>5. ASSUME T # {} PROVE W # {}
  <2> DEFINE e == Earliest(T)
  <2>1. e \in T /\ \A t \in T : e <= t  BY <1>5, EarliestIsLeast
  <2>2. upTo(e) = {e}
    <3>1. \A u \in upTo(e) : u = e  BY <1>0, <2>1
    <3>2. e \in upTo(e)  BY <1>0, <2>1
    <3> QED BY <3>1, <3>2
  <2>3. Cardinality({e}) = 1  BY FS_Singleton
  <2>4. Cardinality(upTo(e)) <= n  BY <1>0, <2>2, <2>3
  <2> QED BY <1>3, <2>1, <2>4
<1>6. ASSUME NEW t \in T, NEW u \in W, t <= u PROVE t \in W
  <2>1. u \in T  BY <1>4
  <2>2. upTo(t) \subseteq upTo(u)  BY <1>0, <1>6, <2>1
  <2>3. Cardinality(upTo(t)) <= Cardinality(upTo(u))  BY <1>2, <2>2, FS_Subset
  <2>4. Cardinality(upTo(u)) <= n  BY <1>3, <2>1
  <2>5. Cardinality(upTo(t)) <= n  BY <1>2, <2>3, <2>4
  <2> QED BY <1>3, <2>5
<1>7. IsFiniteSet(W) /\ Cardinality(W) \in Nat
  BY <1>1, <1>4, FS_Subset, FS_CardinalityType
<1>8. Cardinality(W) <= n
  <2>1. CASE W = {}  BY <2>1, FS_EmptySet
  <2>2. CASE W # {}
    <3> DEFINE m == Latest(W)
    <3>1. m \in W /\ \A t \in W : t <= m  BY <1>4, <2>2, LatestIsGreatest
    <3>2. W \subseteq upTo(m)  BY <1>4, <3>1
    <3>3. Cardinality(W) <= Cardinality(upTo(m))  BY <1>2, <3>2, FS_Subset
    <3>4. Cardinality(upTo(m)) <= n  BY <1>3, <1>4, <3>1
    <3> HIDE DEF m
    <3> QED BY <1>2, <1>7, <3>3, <3>4
  <2> QED BY <2>1, <2>2
<1>9. ASSUME T \ W # {} PROVE Cardinality(W) >= n
  <2> DEFINE w == Earliest(T \ W)
  <2>1. w \in T \ W /\ \A t \in T \ W : w <= t  BY <1>9, EarliestIsLeast
  <2> HIDE DEF w
  <2>2. upTo(w) \subseteq W \union {w}
    <3> SUFFICES ASSUME NEW u \in T, u <= w, u \notin W PROVE u = w
      OBVIOUS
    <3> QED BY <1>0, <2>1
  <2>3. IsFiniteSet(W \union {w}) /\ Cardinality(W \union {w}) = Cardinality(W) + 1
    BY <1>7, <2>1, FS_AddElement
  <2>4. Cardinality(upTo(w)) <= Cardinality(W) + 1  BY <2>2, <2>3, FS_Subset
  <2>5. ~(Cardinality(upTo(w)) <= n)  BY <1>3, <2>1
  <2> QED BY <1>2, <1>7, <2>4, <2>5
<1>10. Cardinality(W) \in 0..n  BY <1>7, <1>8
<1>11. T \ W # {} => Cardinality(W) = n  BY <1>7, <1>8, <1>9
<1> HIDE DEF W
<1>12. /\ W \subseteq T
       /\ T # {} => W # {}
       /\ \A t \in T, u \in W : t <= u => t \in W
       /\ Cardinality(W) \in 0..n
       /\ T \ W # {} => Cardinality(W) = n
  BY <1>4, <1>5, <1>6, <1>10, <1>11
<1> QED BY <1>12 DEF W

(* The recurrences operators publish.                                      *)
LEMMA RuleFacts ==
  ASSUME NEW rule \in Recurrence
  PROVE  /\ rule.times \in SUBSET Instants /\ rule.ends \in Instants
         /\ Occurrences(rule) \in SUBSET Instants
         /\ \A t : t \in Occurrences(rule) <=> t \in rule.times /\ t <= rule.ends
         /\ \A t \in rule.times : t \in Nat /\ t >= 1
         /\ rule.ends \in Nat /\ rule.ends \in Moments
BY InstantsFacts DEF Recurrence, Occurrences

(* A candidate with no more than a day's others before it is one the walk  *)
(* reaches.                                                                *)
LEMMA OneMoreCandidate ==
  ASSUME NEW S, IsFiniteSet(S), NEW e, NEW T, T \subseteq S \union {e},
         Cardinality(S) < Probes
  PROVE  Cardinality(T) <= Probes
<1>1. Probes \in Nat  BY ScheduleAssumption
<1>2. Cardinality(S) \in Nat  BY FS_CardinalityType
<1>3. IsFiniteSet(S \union {e}) /\ Cardinality(S \union {e}) <= Cardinality(S) + 1
  <2> DEFINE U == S \union {e}
  <2>1. /\ IsFiniteSet(U)
        /\ Cardinality(U) = IF e \in S THEN Cardinality(S) ELSE Cardinality(S) + 1
    BY FS_AddElement
  <2> HIDE DEF U
  <2>2. IsFiniteSet(U) /\ Cardinality(U) <= Cardinality(S) + 1
    BY <1>2, <2>1
  <2> QED BY <2>2 DEF U
<1>4. Cardinality(T) <= Cardinality(S \union {e}) /\ Cardinality(T) \in Nat
      /\ Cardinality(S \union {e}) \in Nat
  BY <1>3, FS_Subset, FS_CardinalityType
<1> QED BY <1>1, <1>2, <1>3, <1>4

(* The lookup forward finds an occurrence; of a rule it can walk, the first*)
(* after the moment.                                                       *)
LEMMA NextOccurrenceFacts ==
  ASSUME NEW rule \in Recurrence, NEW moment \in Moments
  PROVE  LET next == NextOccurrence(rule, moment)
         IN  /\ next \in Moments
             /\ Walkable(rule) => \A t \in Occurrences(rule) :
                  t > moment => next # 0 /\ next <= t
<1> DEFINE C == {u \in rule.times : u + Day >= moment}
           W == Oldest(Probes, C)
           F == NextCandidates(rule, moment)
           later == {t \in rule.times : t > moment}
<1>1. /\ moment \in Nat /\ Day \in Nat /\ Probes \in Nat /\ Probes # 0
      /\ rule.times \in SUBSET Instants /\ \A t \in rule.times : t \in Nat /\ t >= 1
      /\ rule.ends \in Nat
  BY InstantsFacts, ScheduleAssumption, RuleFacts
<1>2. C \in SUBSET Instants /\ W \subseteq C /\ F = {t \in W : t > moment}
  BY <1>1, OldestFacts DEF NextCandidates
<1>3. F \in SUBSET Instants  BY <1>2
<1>4. F # {} => Earliest(F) \in F /\ Earliest(F) \in Instants /\ \A t \in F : Earliest(F) <= t
  BY <1>3, EarliestIsLeast
<1>5. NextOccurrence(rule, moment) \in Moments
  <2>1. NextOccurrence(rule, moment) \in {0, Earliest(F)}  BY DEF NextOccurrence
  <2>2. F = {} => NextOccurrence(rule, moment) = 0  BY DEF NextOccurrence
  <2> HIDE DEF F
  <2> QED BY <1>4, <2>1, <2>2, InstantsFacts
<1>6. ASSUME Walkable(rule), NEW t \in Occurrences(rule), t > moment
      PROVE  NextOccurrence(rule, moment) # 0 /\ NextOccurrence(rule, moment) <= t
  <2> DEFINE e == Earliest(later)
             S == {u \in rule.times : moment <= u + Day /\ u <= moment}
  <2>1. t \in rule.times /\ t <= rule.ends  BY RuleFacts
  <2>2. later \in SUBSET Instants /\ t \in later  BY <1>1, <1>6, <2>1
  <2>3. e \in later /\ \A u \in later : e <= u  BY <2>2, EarliestIsLeast
  <2> HIDE DEF e
  <2>4. e \in rule.times /\ e > moment /\ e \in Nat /\ e >= 1  BY <1>1, <2>3
  <2>5. e \in C  BY <1>1, <2>4
  <2>6. Cardinality(S) < Probes  BY <1>6, <2>4 DEF Walkable
  <2>7. {u \in C : u <= e} \subseteq S \union {e}
    <3> SUFFICES ASSUME NEW u \in C, u <= e, u # e PROVE u \in S
      OBVIOUS
    <3>1. u \in rule.times /\ u \in Nat /\ u + Day >= moment  BY <1>1
    <3>2. u \notin later  BY <2>3, <2>4, <3>1
    <3> QED BY <1>1, <3>1, <3>2
  <2>8. IsFiniteSet(S)
    <3>1. S \subseteq Instants  BY <1>1
    <3> QED BY <3>1, InstantsFacts, FS_Subset
  <2>9. Cardinality({u \in C : u <= e}) <= Probes
    BY <2>6, <2>7, <2>8, OneMoreCandidate
  <2>10. e \in F
    <3>1. e \in W  BY <2>5, <2>9 DEF Oldest
    <3> QED BY <1>2, <2>4, <3>1
  <2>11. Earliest(F) = e
    <3>1. Earliest(F) \in F /\ Earliest(F) <= e  BY <1>4, <2>10
    <3>2. Earliest(F) \in later  BY <1>2, <3>1
    <3>3. e <= Earliest(F)  BY <2>3, <3>2
    <3> HIDE DEF F
    <3>4. Earliest(F) \in Nat  BY <1>4, <2>10, InstantsFacts
    <3> QED BY <2>4, <3>1, <3>3, <3>4
  <2>12. e <= t /\ e <= rule.ends  BY <1>1, <2>1, <2>2, <2>3, <2>4
  <2>13. NextOccurrence(rule, moment) = e
    <3> HIDE DEF F
    <3>1. ~(e > rule.ends)  BY <1>1, <2>4, <2>12
    <3>2. F # {}  BY <2>10
    <3>3. NextOccurrence(rule, moment) =
            IF F = {} THEN 0 ELSE IF Earliest(F) > rule.ends THEN 0 ELSE Earliest(F)
      BY DEF NextOccurrence, F
    <3> QED BY <2>11, <3>1, <3>2, <3>3
  <2> QED BY <2>4, <2>12, <2>13
<1> QED BY <1>5, <1>6

(* The lookup back finds the last candidate up to the moment, or nothing;  *)
(* and something, of a rule it can walk, when there is any.                *)
LEMMA LatestCandidateFacts ==
  ASSUME NEW rule \in Recurrence, NEW moment \in Moments
  PROVE  LET found == LatestCandidate(rule, moment)
         IN  /\ found \in Moments /\ found <= moment
             /\ found # 0 => /\ found \in rule.times
                             /\ \A t \in rule.times : t <= moment => t <= found
             /\ Walkable(rule) => \A t \in rule.times : t <= moment => found # 0
<1> DEFINE D == {u \in rule.times : u <= moment + Day}
           W == Newest(Probes, D)
           F == {t \in W : t <= moment}
           from(t) == {u \in D : u >= t}
           found == LatestCandidate(rule, moment)
<1>1. /\ moment \in Nat /\ Day \in Nat /\ Probes \in Nat
      /\ rule.times \in SUBSET Instants /\ \A t \in rule.times : t \in Nat /\ t >= 1
  BY InstantsFacts, ScheduleAssumption, RuleFacts
<1>2. D \in SUBSET Instants /\ W \subseteq D /\ F \subseteq D /\ F \in SUBSET Instants
      /\ D \subseteq rule.times
  BY <1>1 DEF Newest
<1>3. found = IF F = {} THEN 0 ELSE Latest(F)
  BY DEF LatestCandidate
<1>4. F # {} => Latest(F) \in F /\ \A t \in F : t <= Latest(F)
  BY <1>2, LatestIsGreatest
<1>5. \A t \in D : t \in W <=> Cardinality(from(t)) <= Probes
  BY DEF Newest
<1>6. \A t : IsFiniteSet(from(t)) /\ Cardinality(from(t)) \in Nat
  BY <1>2, InstantsFacts, FS_Subset, FS_CardinalityType
<1> HIDE DEF found, F, W
<1>7. found \in Moments /\ found <= moment
  <2>1. CASE F = {}  BY <1>1, <1>3, <2>1, InstantsFacts
  <2>2. CASE F # {}  BY <1>2, <1>3, <1>4, <2>2, InstantsFacts DEF F
  <2> QED BY <2>1, <2>2
<1>8. ASSUME found # 0
      PROVE  found \in rule.times /\ \A t \in rule.times : t <= moment => t <= found
  <2>1. F # {} /\ found \in F /\ \A t \in F : t <= found  BY <1>3, <1>4, <1>8
  <2>2. found \in W /\ found \in D /\ found \in rule.times /\ found \in Nat
    BY <1>1, <1>2, <2>1 DEF F
  <2> SUFFICES ASSUME NEW t \in rule.times, t <= moment PROVE t <= found
    BY <2>2
  <2>3. t \in D /\ t \in Nat  BY <1>1
  <2> SUFFICES ASSUME t >= found PROVE t <= found
    BY <2>2, <2>3
  <2>4. from(t) \subseteq from(found)  BY <1>1, <2>2, <2>3
  <2>5. Cardinality(from(t)) <= Cardinality(from(found))  BY <1>6, <2>4, FS_Subset
  <2>6. Cardinality(from(found)) <= Probes  BY <1>5, <2>2
  <2>7. Cardinality(from(t)) <= Probes
    <3>1. Cardinality(from(t)) \in Nat /\ Cardinality(from(found)) \in Nat
      BY <1>6
    <3> HIDE DEF from
    <3> QED BY <1>1, <2>5, <2>6, <3>1
  <2>8. t \in F  BY <1>5, <2>3, <2>7 DEF F
  <2> QED BY <2>1, <2>8
<1>9. ASSUME Walkable(rule), NEW t \in rule.times, t <= moment PROVE found # 0
  <2> DEFINE prev == {u \in rule.times : u <= moment}
             g    == Latest(prev)
             S    == {u \in rule.times : moment < u /\ u <= moment + Day}
  <2>1. prev \in SUBSET Instants /\ t \in prev  BY <1>1, <1>9
  <2>2. g \in prev /\ \A u \in prev : u <= g  BY <2>1, LatestIsGreatest
  <2> HIDE DEF g
  <2>3. g \in rule.times /\ g <= moment /\ g \in Nat /\ g \in D  BY <1>1, <2>2
  <2>4. Cardinality(S) < Probes  BY <1>9 DEF Walkable
  <2>5. from(g) \subseteq S \union {g}
    <3> SUFFICES ASSUME NEW u \in D, u >= g, u # g PROVE u \in S
      OBVIOUS
    <3>1. u \in rule.times /\ u \in Nat /\ u <= moment + Day  BY <1>1
    <3>2. u \notin prev  BY <2>2, <2>3, <3>1
    <3> QED BY <1>1, <3>1, <3>2
  <2>6. IsFiniteSet(S)
    <3>1. S \subseteq Instants  BY <1>1
    <3> QED BY <3>1, InstantsFacts, FS_Subset
  <2>7. Cardinality(from(g)) <= Probes  BY <2>4, <2>5, <2>6, OneMoreCandidate
  <2>8. g \in F  BY <1>5, <2>3, <2>7 DEF F
  <2>9. found \in F  BY <1>3, <1>4, <2>8
  <2>10. found \in rule.times  BY <1>2, <2>9
  <2>11. found >= 1  BY <1>1, <2>10
  <2> QED BY <1>1, <2>10, <2>11
<1> QED BY <1>7, <1>8, <1>9 DEF found

LEMMA LatestOccurrenceFacts ==
  ASSUME NEW rule \in Recurrence, NEW moment \in Moments
  PROVE  LET found == LatestOccurrence(rule, moment)
         IN  /\ found \in Moments
             /\ found # 0 => /\ found \in Occurrences(rule) /\ found <= moment
                             /\ \A t \in Occurrences(rule) : t <= moment => t <= found
             /\ Walkable(rule) => \A t \in Occurrences(rule) : t <= moment => found # 0
<1> DEFINE first  == LatestCandidate(rule, moment)
           second == LatestCandidate(rule, rule.ends)
<1>1. /\ rule.ends \in Moments /\ rule.ends \in Nat /\ moment \in Nat
      /\ \A t : t \in Occurrences(rule) <=> t \in rule.times /\ t <= rule.ends
      /\ \A t \in rule.times : t \in Nat
  BY RuleFacts, InstantsFacts
<1>2. /\ first \in Moments /\ first <= moment
      /\ first # 0 => /\ first \in rule.times
                      /\ \A t \in rule.times : t <= moment => t <= first
      /\ Walkable(rule) => \A t \in rule.times : t <= moment => first # 0
  BY LatestCandidateFacts
<1>3. /\ second \in Moments /\ second <= rule.ends
      /\ second # 0 => /\ second \in rule.times
                       /\ \A t \in rule.times : t <= rule.ends => t <= second
      /\ Walkable(rule) => \A t \in rule.times : t <= rule.ends => second # 0
  BY <1>1, LatestCandidateFacts
<1>4. LatestOccurrence(rule, moment) = IF first > rule.ends THEN second ELSE first
  BY DEF LatestOccurrence
<1>5. first \in Nat /\ second \in Nat  BY <1>2, <1>3, InstantsFacts
<1> HIDE DEF first, second
<1>6. CASE first > rule.ends
  BY <1>1, <1>2, <1>3, <1>4, <1>5, <1>6
<1>7. CASE ~(first > rule.ends)
  BY <1>1, <1>2, <1>4, <1>5, <1>7
<1> QED BY <1>6, <1>7

(* What resolve_due hands to the dispatcher.                               *)
LEMMA OweFacts ==
  ASSUME NEW rule \in Recurrence, NEW policy,
         NEW since \in Moments, NEW moment \in Moments
  PROVE  LET owed   == Between(rule, since, moment)
             owe    == Owe(rule, policy, since, moment)
             missed == Missed(rule, policy, since, moment)
         IN  /\ owed \in SUBSET Instants
             /\ owe \subseteq owed /\ missed \subseteq owed
             /\ owe = {} => missed = {}
             /\ owe # {} => missed = owed \ owe
             /\ Walkable(rule) /\ owe = {} => owed = {}
             /\ policy = "coalesce" => \A t \in owed, u \in owe : t <= u
             /\ policy # "coalesce" =>
                  \A t \in owed, u \in owe : t <= u => t \in owe
<1> DEFINE owed   == Between(rule, since, moment)
           owe    == Owe(rule, policy, since, moment)
           missed == Missed(rule, policy, since, moment)
           found  == LatestOccurrence(rule, moment)
<1>1. /\ owed \in SUBSET Instants
      /\ \A t : t \in owed <=> t \in Occurrences(rule) /\ since < t /\ t <= moment
      /\ since \in Nat /\ moment \in Nat
      /\ \A t \in Occurrences(rule) : t \in Nat
  BY RuleFacts, InstantsFacts DEF Between
<1>2. missed = IF owe = {} THEN {} ELSE owed \ owe
  BY DEF Missed
<1> HIDE DEF owed, missed
<1>3. CASE policy = "coalesce"
  <2>1. owe = {t \in {found} : t > since}  BY <1>3 DEF Owe
  <2>2. /\ found \in Nat
        /\ found # 0 => /\ found \in Occurrences(rule) /\ found <= moment
                        /\ \A t \in Occurrences(rule) : t <= moment => t <= found
        /\ Walkable(rule) => \A t \in Occurrences(rule) : t <= moment => found # 0
    BY LatestOccurrenceFacts, InstantsFacts
  <2> HIDE DEF owe, found
  <2>3. \A u \in owe : u = found /\ found # 0 /\ found > since  BY <1>1, <2>1
  <2>4. owe \subseteq owed  BY <1>1, <2>2, <2>3
  <2>5. \A t \in owed, u \in owe : t <= u  BY <1>1, <2>2, <2>3
  <2>6. ASSUME Walkable(rule), owe = {}, NEW t \in owed PROVE FALSE
    <3>1. t \in Occurrences(rule) /\ since < t /\ t <= moment /\ t \in Nat  BY <1>1
    <3>2. found # 0 /\ t <= found  BY <2>2, <2>6, <3>1
    <3>3. found > since  BY <1>1, <2>2, <3>1, <3>2
    <3>4. found \in owe  BY <2>1, <3>3
    <3> QED BY <2>6, <3>4
  <2> QED BY <1>1, <1>2, <1>3, <2>4, <2>5, <2>6 DEF owed, missed, owe
<1>4. CASE policy # "coalesce"
  <2>1. owe = Oldest(BatchLimit, owed)  BY <1>4 DEF Owe, owed
  <2> HIDE DEF owe
  <2>2. /\ owe \subseteq owed
        /\ owed # {} => owe # {}
        /\ \A t \in owed, u \in owe : t <= u => t \in owe
    BY <1>1, <2>1, OldestFacts, ScheduleAssumption
  <2> QED BY <1>1, <1>2, <1>4, <2>2 DEF owed, missed, owe
<1> QED BY <1>3, <1>4

(* How far the count gets.                                                 *)
LEMMA SkippedFacts ==
  ASSUME NEW missed \in SUBSET Instants
  PROVE  /\ Skipped(missed) \subseteq missed
         /\ Cardinality(Skipped(missed)) \in 0..CountLimit
         /\ missed \ Skipped(missed) # {} => Cardinality(Skipped(missed)) = CountLimit
BY OldestFacts, ScheduleAssumption DEF Skipped

-----------------------------------------------------------------------------
(* Type correctness *)

LEMMA FrameTypes ==
  ASSUME TypeOK, UNCHANGED vars
  PROVE  TypeOK'
BY DEF TypeOK, vars, histories

LEMMA PublishedFacts ==
  ASSUME NEW new \in Definitions
  PROVE  /\ new.rule \in Recurrence
         /\ PublishedRow(new) \in DefinitionRow
         /\ PublishedRow(new).rule = new.rule /\ PublishedRow(new).state = "published"
BY ScheduleAssumption
   DEF Instants, Recurrence, Policies, PublishedRow, DefinitionRow

LEMMA UnpublishedFacts == Unpublished \in DefinitionRow /\ Unpublished.state = "none"
BY ScheduleAssumption DEF Unpublished, DefinitionRow, Recurrence, Instants, Policies

LEMMA IdleIsConsistent == Idle \in DispatcherState /\ Consistent(Idle)
BY InstantsFacts DEF Idle, DispatcherState, Consistent

LEMMA InitTypes == Init => TypeOK
<1> SUFFICES ASSUME Init PROVE TypeOK
  OBVIOUS
<1>1. PICK new \in Definitions :
        /\ definition = [r \in Revisions |->
             IF r = 1 THEN PublishedRow(new) ELSE Unpublished]
        /\ schedule = [revision |-> 1, enabled |-> TRUE, deleted |-> FALSE,
                       next |-> NextOccurrence(new.rule, 0), lastFired |-> 0,
                       retired |-> FALSE]
  BY DEF Init
<1>2. new.rule \in Recurrence
  BY PublishedFacts
<1>3. 0 \in Moments /\ NextOccurrence(new.rule, 0) \in Moments
  BY <1>2, InstantsFacts, NextOccurrenceFacts
<1>4. 1 \in Revisions
  BY ScheduleAssumption DEF Revisions
<1>5. schedule \in ScheduleRow
  BY <1>1, <1>3, <1>4 DEF ScheduleRow
<1>6. definition \in [Revisions -> DefinitionRow]
  BY <1>1, PublishedFacts, UnpublishedFacts
<1>7. run \in [Instants -> RunRow]
  BY ScheduleAssumption DEF Init, RunRow
<1>8. /\ dispatcher \in [Dispatchers -> DispatcherState]
      /\ \A d \in Dispatchers : Consistent(dispatcher[d])
  BY IdleIsConsistent DEF Init
<1>9. now \in Clock /\ base \in Moments
  BY InstantsFacts DEF Init
<1> QED BY <1>5, <1>6, <1>7, <1>8, <1>9 DEF Init, TypeOK

(* A dispatcher takes a state: the dispatchers' part of TypeOK.            *)
DispatchersOK ==
  /\ dispatcher \in [Dispatchers -> DispatcherState]
  /\ \A d \in Dispatchers : Consistent(dispatcher[d])

LEMMA GotoTypes ==
  ASSUME DispatchersOK, NEW d \in Dispatchers, NEW state \in DispatcherState,
         Consistent(state), Goto(d, state)
  PROVE  DispatchersOK'
BY DEF DispatchersOK, Goto

LEMMA IdleTypes ==
  ASSUME DispatchersOK, NEW d \in Dispatchers, Goto(d, Idle)
  PROVE  DispatchersOK'
BY GotoTypes, IdleIsConsistent

TypesOfParts ==
  /\ now \in Clock
  /\ schedule \in ScheduleRow
  /\ definition \in [Revisions -> DefinitionRow]
  /\ run \in [Instants -> RunRow]
  /\ DispatchersOK
  /\ base \in Moments
  /\ counted \subseteq Instants
  /\ floored \subseteq Instants \X Instants
  /\ uncounted \subseteq Instants
  /\ outrun \subseteq Instants

LEMMA TypeParts == TypeOK => TypesOfParts
BY DEF TypeOK, TypesOfParts, DispatchersOK

LEMMA PartsMakeTypes == TypesOfParts' => TypeOK'
BY DEF TypeOK, TypesOfParts, DispatchersOK

LEMMA LaneFacts ==
  ASSUME DispatchersOK, NEW d \in Dispatchers
  PROVE  /\ dispatcher[d] \in DispatcherState
         /\ dispatcher[d].at = "file" <=> dispatcher[d].due # {}
         /\ dispatcher[d].due \in SUBSET Instants
         /\ dispatcher[d].missed \in SUBSET Instants
         /\ dispatcher[d].firedAt \in Moments
         /\ dispatcher[d].next \in Moments
         /\ dispatcher[d].now \in Moments
         /\ dispatcher[d].revision \in {0} \union Revisions
         /\ dispatcher[d].at # "idle" => dispatcher[d].revision \in Revisions
BY DEF DispatchersOK, DispatcherState, Consistent

LEMMA NowIsMoment == ASSUME TypeOK PROVE now \in Moments /\ now \in Nat
BY InstantsFacts, ScheduleAssumption DEF TypeOK, Moments

LEMMA RevisionFacts ==
  /\ MaxRevision \in Nat
  /\ \A r \in Revisions : r \in Nat /\ r # 0
  /\ \A r \in Revisions : r < MaxRevision => r + 1 \in Revisions
BY ScheduleAssumption DEF Revisions

LEMMA OperatorTypes ==
  ASSUME TypeOK,
         UpdateSchedule \/ CancelSchedule \/ \E r \in Revisions : RevokeRevision(r)
  PROVE  TypeOK'
<1>1. schedule \in ScheduleRow /\ schedule.revision \in Revisions
  BY TypeParts DEF TypesOfParts, ScheduleRow
<1>2. CASE UpdateSchedule
  <2>1. PICK new \in Definitions :
          /\ schedule' = Published(new.rule)
          /\ definition' = [definition EXCEPT ![schedule.revision + 1] = PublishedRow(new)]
    BY <1>2 DEF UpdateSchedule
  <2>2. new.rule \in Recurrence  BY PublishedFacts
  <2>3. schedule.revision + 1 \in Revisions
    BY <1>1, <1>2, RevisionFacts DEF UpdateSchedule
  <2>4. NextOccurrence(new.rule, 0) \in Moments
    BY <2>2, InstantsFacts, NextOccurrenceFacts
  <2>5. schedule' \in ScheduleRow
    BY <1>1, <2>1, <2>3, <2>4 DEF Published, ScheduleRow
  <2>6. definition' \in [Revisions -> DefinitionRow]
    BY <2>1, PublishedFacts, TypeParts DEF TypesOfParts
  <2>7. base' \in Moments
    BY <1>1, <1>2 DEF ScheduleRow, UpdateSchedule
  <2>8. DispatchersOK'  BY <1>2, TypeParts DEF TypesOfParts, UpdateSchedule, DispatchersOK
  <2> QED BY <1>2, <2>5, <2>6, <2>7, <2>8, TypeParts, PartsMakeTypes DEF TypesOfParts, UpdateSchedule
<1>3. CASE CancelSchedule
  <2>1. schedule' \in ScheduleRow
    BY <1>1, <1>3, InstantsFacts DEF CancelSchedule, ScheduleRow
  <2>2. DispatchersOK'  BY <1>3, TypeParts DEF TypesOfParts, CancelSchedule, DispatchersOK
  <2> QED BY <1>3, <2>1, <2>2, TypeParts, PartsMakeTypes DEF TypesOfParts, CancelSchedule, histories
<1>4. ASSUME NEW r \in Revisions, RevokeRevision(r) PROVE TypeOK'
  <2>1. schedule' \in ScheduleRow
    BY <1>1, <1>4, InstantsFacts DEF RevokeRevision, ScheduleRow
  <2>2. definition' \in [Revisions -> DefinitionRow]
    BY <1>4, TypeParts DEF TypesOfParts, RevokeRevision, DefinitionRow
  <2>3. run' \in [Instants -> RunRow]
    <3>1. \A t \in Instants : run[t] \in RunRow /\ [run[t] EXCEPT !.cancelled = TRUE] \in RunRow
      BY TypeParts DEF TypesOfParts, RunRow
    <3>2. run' = [t \in Instants |->
            IF t \in RunsOf(r) THEN [run[t] EXCEPT !.cancelled = TRUE] ELSE run[t]]
      BY <1>4 DEF RevokeRevision
    <3> QED BY <3>1, <3>2
  <2>4. outrun' \subseteq Instants
    BY <1>4, TypeParts, LaneFacts DEF TypesOfParts, RevokeRevision
  <2>5. DispatchersOK'  BY <1>4, TypeParts DEF TypesOfParts, RevokeRevision, DispatchersOK
  <2> QED BY <1>4, <2>1, <2>2, <2>3, <2>4, <2>5, TypeParts, PartsMakeTypes DEF TypesOfParts, RevokeRevision
<1> QED BY <1>2, <1>3, <1>4

LEMMA ClaimTypes ==
  ASSUME TypeOK, NEW d \in Dispatchers,
         ClaimDue(d) \/ FindStranded(d) \/ RecoverStranded(d) \/ LoadUnavailable(d) \/ GiveUp(d)
  PROVE  TypeOK'
<1>1. /\ schedule \in ScheduleRow /\ schedule.revision \in Revisions
      /\ schedule.revision # 0 /\ DispatchersOK
  BY TypeParts, RevisionFacts DEF TypesOfParts, ScheduleRow
<1>2. now \in Moments /\ 0 \in Moments  BY NowIsMoment, InstantsFacts
<1>3. CASE ClaimDue(d)
  <2> DEFINE state == [Idle EXCEPT !.at = "load", !.revision = schedule.revision, !.now = now]
  <2>1. state \in DispatcherState /\ Consistent(state)
    BY <1>1, <1>2 DEF DispatcherState, Idle, Consistent
  <2>2. DispatchersOK'  BY <1>1, <1>3, <2>1, GotoTypes DEF ClaimDue
  <2>3. schedule' \in ScheduleRow  BY <1>1, <1>2, <1>3 DEF ClaimDue, ScheduleRow
  <2> QED BY <1>3, <2>2, <2>3, TypeParts, PartsMakeTypes DEF TypesOfParts, ClaimDue, histories
<1>4. CASE FindStranded(d)
  <2> DEFINE state == [Idle EXCEPT !.at = "check", !.revision = schedule.revision]
  <2>1. state \in DispatcherState /\ Consistent(state)
    BY <1>1, <1>2 DEF DispatcherState, Idle, Consistent
  <2>2. DispatchersOK'  BY <1>1, <1>4, <2>1, GotoTypes DEF FindStranded
  <2> QED BY <1>4, <2>2, TypeParts, PartsMakeTypes DEF TypesOfParts, FindStranded, histories
<1>5. CASE RecoverStranded(d)
  <2> DEFINE state == [dispatcher[d] EXCEPT !.at = "load", !.now = now]
  <2>1. dispatcher[d] \in DispatcherState /\ Consistent(dispatcher[d]) /\ dispatcher[d].at = "check"
    BY <1>1, <1>5, LaneFacts DEF RecoverStranded, DispatchersOK
  <2>2. state \in DispatcherState /\ Consistent(state)
    BY <1>2, <2>1 DEF DispatcherState, Consistent
  <2>3. DispatchersOK'  BY <1>1, <1>5, <2>2, GotoTypes, IdleTypes DEF RecoverStranded
  <2> QED BY <1>5, <2>3, TypeParts, PartsMakeTypes DEF TypesOfParts, RecoverStranded, histories
<1>6. CASE LoadUnavailable(d)
  <2>1. DispatchersOK'  BY <1>1, <1>6, IdleTypes DEF LoadUnavailable
  <2> QED BY <1>6, <2>1, TypeParts, PartsMakeTypes DEF TypesOfParts, LoadUnavailable, histories
<1>7. CASE GiveUp(d)
  <2>1. DispatchersOK'  BY <1>1, <1>7, IdleTypes DEF GiveUp
  <2> QED BY <1>7, <2>1, TypeParts, PartsMakeTypes DEF TypesOfParts, GiveUp, histories
<1> QED BY <1>3, <1>4, <1>5, <1>6, <1>7

(* What a dispatcher holds after it loaded the definition.                 *)
LEMMA LoadTypes ==
  ASSUME TypeOK, NEW d \in Dispatchers, LoadDefinition(d)
  PROVE  TypeOK'
<1> DEFINE me    == dispatcher[d]
           defn  == definition[me.revision]
           since == schedule.lastFired
           owe   == Owe(defn.rule, defn.policy, since, me.now)
           fired == IF owe # {} THEN Latest(owe) ELSE IF since = 0 THEN me.now ELSE since
           skip  == Missed(defn.rule, defn.policy, since, me.now)
           next  == NextOccurrence(defn.rule, me.now)
           state == [me EXCEPT !.at = AfterLoad(owe), !.due = owe, !.missed = skip,
                               !.firedAt = fired, !.now = 0, !.next = next]
<1>1. /\ DispatchersOK /\ me \in DispatcherState /\ me.at = "load"
      /\ me.revision \in Revisions /\ me.revision # 0 /\ me.now \in Moments
  BY TypeParts, LaneFacts, RevisionFacts DEF TypesOfParts, LoadDefinition
<1>2. defn \in DefinitionRow /\ defn.rule \in Recurrence
  BY <1>1, TypeParts DEF TypesOfParts, DefinitionRow
<1>3. since \in Moments
  BY TypeParts DEF TypesOfParts, ScheduleRow
<1>4. owe \in SUBSET Instants /\ skip \in SUBSET Instants
  <2>1. LET owed == Between(defn.rule, since, me.now)
        IN  owed \in SUBSET Instants /\ owe \subseteq owed /\ skip \subseteq owed
    BY <1>1, <1>2, <1>3, OweFacts
  <2> QED BY <2>1
<1>5. skip \in SUBSET Instants
  BY <1>4
<1>6. fired \in Moments
  <2>1. owe # {} => Latest(owe) \in Moments
    BY <1>4, LatestIsGreatest, InstantsFacts
  <2> QED BY <1>1, <1>3, <2>1
<1>7. next \in Moments
  BY <1>1, <1>2, NextOccurrenceFacts
<1>8. Goto(d, state)
  BY DEF LoadDefinition
<1>9. state \in DispatcherState /\ Consistent(state)
  <2> HIDE DEF owe, fired, skip, next
  <2>1. AfterLoad(owe) \in {"file", "mark"} /\ ((AfterLoad(owe) = "file") = (owe # {}))
    BY DEF AfterLoad
  <2> QED BY <1>1, <1>4, <1>5, <1>6, <1>7, <2>1, InstantsFacts DEF DispatcherState, Consistent
<1>10. DispatchersOK'  BY <1>1, <1>8, <1>9, GotoTypes
<1> QED BY <1>10, TypeParts, PartsMakeTypes DEF TypesOfParts, LoadDefinition, histories

LEMMA FileTypes ==
  ASSUME TypeOK, NEW d \in Dispatchers, FileOccurrence(d)
  PROVE  TypeOK'
<1> DEFINE me    == dispatcher[d]
           t     == Earliest(me.due)
           rest  == me.due \ {t}
           state == [me EXCEPT !.at = AfterLoad(rest), !.due = rest, !.missed = {}]
<1>1. /\ DispatchersOK /\ me \in DispatcherState /\ me.at = "file"
      /\ me.revision \in Revisions /\ me.revision # 0
      /\ me.due \in SUBSET Instants /\ me.due # {} /\ me.missed \in SUBSET Instants
  BY TypeParts, LaneFacts, RevisionFacts DEF TypesOfParts, FileOccurrence
<1>2. t \in Instants  BY <1>1, EarliestIsLeast
<1>3. Goto(d, state)  BY DEF FileOccurrence
<1>4. state \in DispatcherState /\ Consistent(state)
  <2>1. AfterLoad(rest) \in {"file", "mark"} /\ ((AfterLoad(rest) = "file") = (rest # {}))
    BY DEF AfterLoad
  <2> HIDE DEF t
  <2> QED BY <1>1, <2>1 DEF DispatcherState, Consistent
<1>5. DispatchersOK'  BY <1>1, <1>3, <1>4, GotoTypes
<1>6. run' \in [Instants -> RunRow]
  <2>1. Cardinality(Skipped(me.missed)) \in 0..CountLimit  BY <1>1, SkippedFacts
  <2> HIDE DEF t, me
  <2>2. CASE run' = run  BY <2>2, TypeParts DEF TypesOfParts
  <2>3. CASE run' = [run EXCEPT ![t].revision = me.revision,
                                ![t].misfired = Cardinality(Skipped(me.missed))]
    BY <1>1, <1>2, <2>1, <2>3, TypeParts DEF TypesOfParts, RunRow
  <2>4. \/ run' = run
        \/ run' = [run EXCEPT ![t].revision = me.revision,
                              ![t].misfired = Cardinality(Skipped(me.missed))]
    BY DEF FileOccurrence, t, me
  <2> QED BY <2>2, <2>3, <2>4
<1>7. /\ counted' \subseteq Instants /\ uncounted' \subseteq Instants
      /\ floored' \subseteq Instants \X Instants
  <2>1. /\ counted \subseteq Instants /\ uncounted \subseteq Instants
        /\ floored \subseteq Instants \X Instants
        /\ Skipped(me.missed) \subseteq me.missed
    BY <1>1, TypeParts, SkippedFacts DEF TypesOfParts
  <2> HIDE DEF t
  <2>2. (me.missed \ Skipped(me.missed)) \X {t} \subseteq Instants \X Instants
    BY <1>1, <1>2
  <2>3. /\ counted' = counted \/ counted' = counted \union Skipped(me.missed)
        /\ uncounted' = uncounted \/ uncounted' = uncounted \union me.missed
        /\ \/ floored' = floored
           \/ floored' = floored \union ((me.missed \ Skipped(me.missed)) \X {t})
    BY DEF FileOccurrence, t
  <2> QED BY <1>1, <2>1, <2>2, <2>3
<1> QED BY <1>5, <1>6, <1>7, TypeParts, PartsMakeTypes DEF TypesOfParts, FileOccurrence

LEMMA MarkTypes ==
  ASSUME TypeOK, NEW d \in Dispatchers, MarkFired(d)
  PROVE  TypeOK'
<1>1. DispatchersOK /\ schedule \in ScheduleRow  BY TypeParts DEF TypesOfParts
<1>2. dispatcher[d].firedAt \in Moments /\ dispatcher[d].next \in Moments  BY <1>1, LaneFacts
<1>3. schedule' \in ScheduleRow
  BY <1>1, <1>2 DEF MarkFired, Fired, ScheduleRow
<1>4. DispatchersOK'  BY <1>1, IdleTypes DEF MarkFired
<1> QED BY <1>3, <1>4, TypeParts, PartsMakeTypes DEF TypesOfParts, MarkFired, histories

LEMMA NextTypes == TypeOK /\ [Next]_vars => TypeOK'
<1> SUFFICES ASSUME TypeOK, [Next]_vars PROVE TypeOK'
  OBVIOUS
<1>1. CASE UNCHANGED vars  BY <1>1, FrameTypes
<1>2. CASE Tick
  <2>1. now' \in Clock  BY <1>2 DEF Tick
  <2>2. DispatchersOK'  BY <1>2, TypeParts DEF TypesOfParts, Tick, DispatchersOK
  <2> QED BY <1>2, <2>1, <2>2, TypeParts, PartsMakeTypes DEF TypesOfParts, Tick, histories
<1>3. CASE UpdateSchedule \/ CancelSchedule \/ \E r \in Revisions : RevokeRevision(r)
  BY <1>3, OperatorTypes
<1>4. ASSUME NEW d \in Dispatchers,
             ClaimDue(d) \/ FindStranded(d) \/ Dispatch(d) \/ GiveUp(d)
      PROVE  TypeOK'
  BY <1>4, ClaimTypes, LoadTypes, FileTypes, MarkTypes DEF Dispatch
<1> QED BY <1>1, <1>2, <1>3, <1>4 DEF Next

(* Every state of the schedule, its dispatchers and its runs has its type. *)
THEOREM TypeCorrect == Spec => []TypeOK
<1>1. Init => TypeOK  BY InitTypes
<1>2. TypeOK /\ [Next]_vars => TypeOK'  BY NextTypes
<1> QED BY <1>1, <1>2, PTL DEF Spec

-----------------------------------------------------------------------------
(* Revocation *)

(* What a dispatcher still has to file of a revoked revision, it resolved  *)
(* before the revocation.                                                  *)
DueWasOutrun ==
  \A d \in Dispatchers, r \in Revisions :
    dispatcher[d].revision = r /\ definition[r].state = "revoked"
      => dispatcher[d].due \subseteq outrun

RevocationInv == TypeOK /\ RevokedWorkIsCancelled /\ DueWasOutrun

LEMMA InitRevocation == Init => RevocationInv
<1> SUFFICES ASSUME Init PROVE RevocationInv
  OBVIOUS
<1>1. TypeOK  BY InitTypes
<1>2. \A t \in Instants : ~Filed(t)  BY DEF Init, Filed
<1>3. \A d \in Dispatchers : dispatcher[d].due = {}  BY DEF Init, Idle
<1> QED BY <1>1, <1>2, <1>3 DEF RevocationInv, RevokedWorkIsCancelled, DueWasOutrun

(* A dispatcher moves to a state that has nothing due, or to a state of a  *)
(* revision that is not revoked, and files nothing.                        *)
LEMMA MoveKeepsRevocation ==
  ASSUME RevocationInv, TypeOK', NEW d \in Dispatchers, NEW state, Goto(d, state),
         state.due = {} \/ definition[state.revision].state # "revoked",
         UNCHANGED <<definition, run, outrun>>
  PROVE  RevocationInv'
<1>1. RevokedWorkIsCancelled'
  BY DEF RevocationInv, RevokedWorkIsCancelled, Filed
<1>2. \A e \in Dispatchers : dispatcher'[e] = IF e = d THEN state ELSE dispatcher[e]
  BY DEF Goto, RevocationInv, TypeOK
<1>3. DueWasOutrun'
  BY <1>2 DEF RevocationInv, DueWasOutrun
<1> QED BY <1>1, <1>3 DEF RevocationInv

LEMMA RevokeKeepsRevocation ==
  ASSUME RevocationInv, TypeOK', NEW r \in Revisions, RevokeRevision(r)
  PROVE  RevocationInv'
<1> USE DEF RevocationInv
<1>1. definition \in [Revisions -> DefinitionRow] /\ run \in [Instants -> RunRow]
  BY TypeParts DEF TypesOfParts
<1>2. \A s \in Revisions : s # r => definition'[s] = definition[s]
  BY <1>1 DEF RevokeRevision
<1>3. \A t \in Instants : run'[t] =
        IF t \in RunsOf(r) THEN [run[t] EXCEPT !.cancelled = TRUE] ELSE run[t]
  BY DEF RevokeRevision
<1>4. \A t \in Instants : run'[t].revision = run[t].revision
  BY <1>1, <1>3 DEF RunRow
<1>5. RevokedWorkIsCancelled'
  <2> SUFFICES ASSUME NEW t \in Instants, run'[t].revision # 0,
                      definition'[run'[t].revision].state = "revoked"
               PROVE  run'[t].cancelled \/ t \in outrun'
    BY DEF RevokedWorkIsCancelled, Filed
  <2>1. CASE run[t].revision = r
    <3>1. t \in RunsOf(r)  BY <2>1 DEF RunsOf
    <3> QED BY <1>1, <1>3, <3>1 DEF RunRow
  <2>2. CASE run[t].revision # r
    <3>1. run[t].revision \in Revisions /\ run[t].revision # 0
      BY <1>1, <1>4 DEF RunRow
    <3>2. definition[run[t].revision].state = "revoked"  BY <1>2, <1>4, <2>2, <3>1
    <3>3. run[t].cancelled \/ t \in outrun
      BY <3>1, <3>2 DEF RevokedWorkIsCancelled, Filed
    <3>4. t \notin RunsOf(r)  BY <2>2 DEF RunsOf
    <3> QED BY <1>3, <3>3, <3>4 DEF RevokeRevision
  <2> QED BY <2>1, <2>2
<1>6. DueWasOutrun'
  <2> SUFFICES ASSUME NEW d \in Dispatchers, NEW s \in Revisions,
                      dispatcher'[d].revision = s, definition'[s].state = "revoked"
               PROVE  dispatcher'[d].due \subseteq outrun'
    BY DEF DueWasOutrun
  <2>1. dispatcher' = dispatcher  BY DEF RevokeRevision
  <2>2. CASE s = r  BY <2>1, <2>2 DEF RevokeRevision
  <2>3. CASE s # r
    <3>1. dispatcher[d].due \subseteq outrun  BY <1>2, <2>1, <2>3 DEF DueWasOutrun
    <3> QED BY <2>1, <3>1 DEF RevokeRevision
  <2> QED BY <2>2, <2>3
<1> QED BY <1>5, <1>6

LEMMA UpdateKeepsRevocation ==
  ASSUME RevocationInv, TypeOK', UpdateSchedule
  PROVE  RevocationInv'
<1> USE DEF RevocationInv
<1>1. definition \in [Revisions -> DefinitionRow] /\ run \in [Instants -> RunRow]
  BY TypeParts DEF TypesOfParts
<1>2. PICK new \in Definitions :
        definition' = [definition EXCEPT ![schedule.revision + 1] = PublishedRow(new)]
  BY DEF UpdateSchedule
<1>3. \A r \in Revisions : definition'[r].state = "revoked" => definition[r].state = "revoked"
  BY <1>1, <1>2, PublishedFacts
<1>4. run' = run /\ dispatcher' = dispatcher /\ outrun' = outrun
  BY DEF UpdateSchedule
<1>5. RevokedWorkIsCancelled'
  <2>1. \A t \in Instants : run[t].revision # 0 => run[t].revision \in Revisions
    BY <1>1 DEF RunRow
  <2> QED BY <1>3, <1>4, <2>1 DEF RevokedWorkIsCancelled, Filed
<1>6. DueWasOutrun'  BY <1>3, <1>4 DEF DueWasOutrun
<1> QED BY <1>5, <1>6

LEMMA FileKeepsRevocation ==
  ASSUME RevocationInv, TypeOK', NEW d \in Dispatchers, FileOccurrence(d)
  PROVE  RevocationInv'
<1> USE DEF RevocationInv
<1> DEFINE me    == dispatcher[d]
           t     == Earliest(me.due)
           rest  == me.due \ {t}
           state == [me EXCEPT !.at = AfterLoad(rest), !.due = rest, !.missed = {}]
<1>1. /\ DispatchersOK /\ me \in DispatcherState
      /\ me.revision \in Revisions /\ me.due \in SUBSET Instants /\ me.due # {}
      /\ run \in [Instants -> RunRow]
  BY TypeParts, LaneFacts DEF TypesOfParts, FileOccurrence
<1>2. t \in me.due  BY <1>1, EarliestIsLeast
<1>3. definition' = definition /\ outrun' = outrun  BY DEF FileOccurrence
<1>4. definition[me.revision].state = "revoked" => t \in outrun
  BY <1>1, <1>2 DEF DueWasOutrun
<1>5. RevokedWorkIsCancelled'
  <2> SUFFICES ASSUME NEW u \in Instants, run'[u].revision # 0,
                      definition[run'[u].revision].state = "revoked"
               PROVE  run'[u].cancelled \/ u \in outrun
    BY <1>3 DEF RevokedWorkIsCancelled, Filed
  <2>1. CASE u = t /\ ~Filed(t)
    <3>1. run'[u].revision = me.revision  BY <1>1, <2>1 DEF FileOccurrence, RunRow
    <3> QED BY <1>4, <2>1, <3>1
  <2>2. CASE u # t \/ Filed(t)
    <3>1. run'[u] = run[u]  BY <1>1, <2>2 DEF FileOccurrence
    <3> QED BY <3>1 DEF RevokedWorkIsCancelled, Filed
  <2> QED BY <2>1, <2>2
<1>6. DueWasOutrun'
  <2>1. Goto(d, state)  BY DEF FileOccurrence
  <2>2. dispatcher \in [Dispatchers -> DispatcherState]  BY <1>1 DEF DispatchersOK
  <2>3. \A e \in Dispatchers : /\ dispatcher'[e].revision = dispatcher[e].revision
                               /\ dispatcher'[e].due \subseteq dispatcher[e].due
    <3> HIDE DEF t
    <3> QED BY <2>1, <2>2 DEF Goto, DispatcherState
  <2>4. \A e \in Dispatchers, r \in Revisions :
          dispatcher[e].revision = r /\ definition[r].state = "revoked"
            => dispatcher[e].due \subseteq outrun
    BY DEF DueWasOutrun
  <2> QED BY <1>3, <2>3, <2>4 DEF DueWasOutrun
<1> QED BY <1>5, <1>6

LEMMA NextRevocation == RevocationInv /\ [Next]_vars => RevocationInv'
<1> SUFFICES ASSUME RevocationInv, [Next]_vars PROVE RevocationInv'
  OBVIOUS
<1>0. TypeOK /\ TypeOK'  BY NextTypes DEF RevocationInv
<1>1. ASSUME UNCHANGED <<definition, run, dispatcher, outrun>> PROVE RevocationInv'
  BY <1>0, <1>1 DEF RevocationInv, RevokedWorkIsCancelled, DueWasOutrun, Filed
<1>2. CASE UNCHANGED vars  BY <1>1, <1>2 DEF vars, histories
<1>3. CASE Tick \/ CancelSchedule  BY <1>1, <1>3 DEF Tick, CancelSchedule, histories
<1>4. CASE UpdateSchedule  BY <1>0, <1>4, UpdateKeepsRevocation
<1>5. ASSUME NEW r \in Revisions, RevokeRevision(r) PROVE RevocationInv'
  BY <1>0, <1>5, RevokeKeepsRevocation
<1>6. ASSUME NEW d \in Dispatchers,
             ClaimDue(d) \/ FindStranded(d) \/ Dispatch(d) \/ GiveUp(d)
      PROVE  RevocationInv'
  <2>0. DispatchersOK /\ Idle.due = {}  BY <1>0, TypeParts DEF TypesOfParts, Idle
  <2>1. CASE ClaimDue(d)
    <3>1. [Idle EXCEPT !.at = "load", !.revision = schedule.revision, !.now = now].due = {}
      BY DEF Idle
    <3> QED BY <1>0, <2>1, <3>1, MoveKeepsRevocation DEF ClaimDue, histories
  <2>2. CASE FindStranded(d)
    <3>1. [Idle EXCEPT !.at = "check", !.revision = schedule.revision].due = {}
      BY DEF Idle
    <3> QED BY <1>0, <2>2, <3>1, MoveKeepsRevocation DEF FindStranded, histories
  <2>3. CASE RecoverStranded(d)
    <3>1. dispatcher[d].due = {} /\ dispatcher[d] \in DispatcherState
      BY <2>0, <2>3, LaneFacts DEF RecoverStranded
    <3>2. [dispatcher[d] EXCEPT !.at = "load", !.now = now].due = {}
      BY <3>1 DEF DispatcherState
    <3> QED BY <1>0, <2>0, <2>3, <3>2, MoveKeepsRevocation DEF RecoverStranded, histories
  <2>4. CASE LoadUnavailable(d) \/ MarkFired(d) \/ GiveUp(d)
    <3>1. Goto(d, Idle) /\ UNCHANGED <<definition, run, outrun>>
      BY <2>4 DEF LoadUnavailable, MarkFired, GiveUp, histories
    <3> QED BY <1>0, <2>0, <3>1, MoveKeepsRevocation
  <2>5. CASE LoadDefinition(d)
    <3>1. dispatcher[d] \in DispatcherState /\ definition[dispatcher[d].revision].state = "published"
      BY <2>0, <2>5, LaneFacts DEF LoadDefinition, Loadable
    <3>2. PICK at, due, missed, firedAt, next :
            Goto(d, [dispatcher[d] EXCEPT !.at = at, !.due = due, !.missed = missed,
                                          !.firedAt = firedAt, !.now = 0, !.next = next])
      BY <2>5 DEF LoadDefinition
    <3> DEFINE state == [dispatcher[d] EXCEPT !.at = at, !.due = due, !.missed = missed,
                                              !.firedAt = firedAt, !.now = 0, !.next = next]
    <3>3. state.revision = dispatcher[d].revision
      BY <3>1 DEF DispatcherState
    <3>4. UNCHANGED <<definition, run, outrun>>  BY <2>5 DEF LoadDefinition, histories
    <3> HIDE DEF state
    <3>5. Goto(d, state)  BY <3>2 DEF state
    <3> QED BY <1>0, <3>1, <3>3, <3>4, <3>5, MoveKeepsRevocation
  <2>6. CASE FileOccurrence(d)  BY <1>0, <2>6, FileKeepsRevocation
  <2> QED BY <1>6, <2>1, <2>2, <2>3, <2>4, <2>5, <2>6 DEF Dispatch
<1> QED BY <1>2, <1>3, <1>4, <1>5, <1>6 DEF Next

(* A run of a revoked revision was asked to stop by the revocation, or its *)
(* dispatcher had loaded the definition before it.                         *)
THEOREM RevocationReachesRuns == Spec => []RevokedWorkIsCancelled
<1>1. Init => RevocationInv  BY InitRevocation
<1>2. RevocationInv /\ [Next]_vars => RevocationInv'  BY NextRevocation
<1>3. RevocationInv => RevokedWorkIsCancelled  BY DEF RevocationInv
<1> QED BY <1>1, <1>2, <1>3, PTL DEF Spec

-----------------------------------------------------------------------------
(* Nothing slips by *)

FiledOnes == {t \in Instants : Filed(t)}

(* A schedule that last fired at `fired`, and is retired if `last`, has    *)
(* answered for its promises with the runs `filed` and the counts `cnt`.   *)
Settles(promised, policy, fired, last, filed, cnt) ==
  \A t \in promised :
    /\ t <= fired => \/ t \in filed
                     \/ /\ t \in cnt /\ policy = "coalesce"
                        /\ fired \in filed \intersect promised
    /\ last /\ t > fired => t \in cnt /\ policy # "coalesce"

RowSettles ==
  Walkable(Current.rule) =>
    Settles(Promised, Current.policy, schedule.lastFired, schedule.retired, FiledOnes, Counted)

LaneSettles(d) ==
  LET me == dispatcher[d]
  IN me.at \in {"file", "mark"} /\ me.revision = schedule.revision /\ Walkable(Current.rule)
       => /\ Settles(Promised, Current.policy, me.firedAt, me.next = 0,
                     FiledOnes \union me.due, Counted \union me.missed)
          /\ me.at = "mark" => me.missed = {}

(* No dispatcher holds a revision ahead of its publication.                *)
NotAhead == \A d \in Dispatchers : dispatcher[d].revision <= schedule.revision

SettledInv == TypeOK /\ NotAhead /\ RowSettles /\ \A d \in Dispatchers : LaneSettles(d)

LEMMA PromisedFacts ==
  ASSUME TypeOK
  PROVE  /\ Current \in DefinitionRow /\ Current.rule \in Recurrence
         /\ Promised \in SUBSET Instants
         /\ Promised = {t \in Occurrences(Current.rule) : t > base}
         /\ base \in Nat
<1>1. /\ Current \in DefinitionRow /\ Current.rule \in Recurrence /\ base \in Nat
  BY TypeParts, InstantsFacts DEF TypesOfParts, ScheduleRow, Current, DefinitionRow
<1> QED BY <1>1, RuleFacts DEF Promised

LEMMA RowSettlesImpliesNothingSlips ==
  ASSUME TypeOK, RowSettles
  PROVE  NothingSlipsBy
<1> SUFFICES ASSUME Walkable(Current.rule), NEW t \in Passed
             PROVE  \/ Filed(t)
                    \/ /\ t \in Counted
                       /\ IF Current.policy = "coalesce"
                          THEN \E u \in Passed : u > t /\ Filed(u)
                          ELSE t > schedule.lastFired
  BY DEF NothingSlipsBy
<1> DEFINE fired == schedule.lastFired
<1>1. Promised \in SUBSET Instants /\ fired \in Nat /\ schedule.retired \in BOOLEAN
  BY PromisedFacts, TypeParts, InstantsFacts DEF TypesOfParts, ScheduleRow
<1>2. t \in Promised /\ (schedule.retired \/ t <= fired)
  BY DEF Passed
<1>3. t \in Nat  BY <1>1, <1>2, InstantsFacts
<1>4. CASE t <= fired
  <2>1. \/ t \in FiledOnes
        \/ /\ t \in Counted /\ Current.policy = "coalesce"
           /\ fired \in FiledOnes \intersect Promised
    BY <1>2, <1>4 DEF RowSettles, Settles
  <2>2. CASE t \in FiledOnes  BY <2>2 DEF FiledOnes
  <2>3. CASE /\ t \in Counted /\ Current.policy = "coalesce" /\ t \notin FiledOnes
             /\ fired \in FiledOnes \intersect Promised
    <3>1. fired > t  BY <1>1, <1>3, <1>4, <2>3
    <3>2. fired \in Passed  BY <1>1, <2>3 DEF Passed
    <3> QED BY <2>3, <3>1, <3>2 DEF FiledOnes
  <2> QED BY <2>1, <2>2, <2>3
<1>5. CASE ~(t <= fired)
  <2>1. t > fired  BY <1>1, <1>3, <1>5
  <2>2. t \in Counted /\ Current.policy # "coalesce"
    BY <1>2, <1>5, <2>1 DEF RowSettles, Settles
  <2> QED BY <2>1, <2>2
<1> QED BY <1>4, <1>5

LEMMA InitSettled == Init => SettledInv
<1> SUFFICES ASSUME Init PROVE SettledInv
  OBVIOUS
<1>1. TypeOK  BY InitTypes
<1>2. schedule.lastFired = 0 /\ schedule.retired = FALSE /\ schedule.revision = 1
  BY DEF Init
<1>3. \A d \in Dispatchers : dispatcher[d] = Idle  BY DEF Init
<1>4. \A t \in Promised : ~(t <= 0)
  <2>1. \A t \in Instants : ~(t <= 0)
    <3>1. \A t \in Instants : t \in Nat /\ t >= 1  BY InstantsFacts
    <3> QED BY <3>1
  <2> QED BY <1>1, <2>1, PromisedFacts
<1>5. RowSettles  BY <1>2, <1>4 DEF RowSettles, Settles
<1>6. NotAhead  BY <1>2, <1>3 DEF NotAhead, Idle
<1>7. \A d \in Dispatchers : LaneSettles(d)  BY <1>3 DEF LaneSettles, Idle
<1> QED BY <1>1, <1>5, <1>6, <1>7 DEF SettledInv

(* More runs and more counts settle the same promises.                     *)
LEMMA SettlesMore ==
  ASSUME NEW promised, NEW policy, NEW fired, NEW last, NEW f, NEW c, NEW g, NEW e,
         Settles(promised, policy, fired, last, f, c), f \subseteq g, c \subseteq e
  PROVE  Settles(promised, policy, fired, last, g, e)
BY DEF Settles

(* The arithmetic of a load: what is settled up to `since`, and what is    *)
(* owed from there to the time of the claim, settles the time it fires.    *)
LEMMA LoadSettles ==
  ASSUME SettledInv, Walkable(Current.rule),
         NEW moment \in Moments, NEW since, since = schedule.lastFired,
         NEW owed, owed = Between(Current.rule, since, moment),
         NEW owe, owe = Owe(Current.rule, Current.policy, since, moment),
         NEW skip, skip = Missed(Current.rule, Current.policy, since, moment),
         NEW fired,
         fired = IF owe # {} THEN Latest(owe) ELSE IF since = 0 THEN moment ELSE since
  PROVE  Settles(Promised, Current.policy, fired, NextOccurrence(Current.rule, moment) = 0,
                 FiledOnes \union owe, Counted \union skip)
<1> DEFINE occurrences == Occurrences(Current.rule)
<1>1. /\ TypeOK /\ Promised \in SUBSET Instants /\ Current.rule \in Recurrence
      /\ Promised = {t \in occurrences : t > base} /\ base \in Nat
      /\ occurrences \in SUBSET Instants
  BY PromisedFacts, RuleFacts DEF SettledInv
<1>2. since \in Nat /\ moment \in Nat /\ since \in Moments
  BY <1>1, TypeParts, InstantsFacts DEF TypesOfParts, ScheduleRow
<1>3. \A t \in occurrences : t \in Nat /\ t >= 1
  BY <1>1, InstantsFacts
<1>4. owed = {t \in occurrences : since < t /\ t <= moment}
  BY DEF Between
<1>5. /\ owe \subseteq owed /\ (owe = {} => owed = {})
      /\ Current.policy = "coalesce" => \A t \in owed, u \in owe : t <= u
      /\ Current.policy # "coalesce" => \A t \in owed, u \in owe : t <= u => t \in owe
      /\ skip = owed \ owe
  BY <1>1, <1>2, OweFacts
<1>0. \A t \in occurrences :
        t > moment => NextOccurrence(Current.rule, moment) # 0
  BY <1>1, NextOccurrenceFacts
<1> HIDE DEF occurrences
<1>7. /\ owe # {} => fired \in owe /\ \A t \in owe : t <= fired
      /\ owed # {} /\ Current.policy = "coalesce" => \A t \in owed : t <= fired
  <2>1. owe \in SUBSET Instants /\ owed \in SUBSET Instants  BY <1>1, <1>4, <1>5
  <2>2. owe # {} => Latest(owe) \in owe /\ \A t \in owe : t <= Latest(owe)
    BY <2>1, LatestIsGreatest
  <2>3. owe # {} => fired = Latest(owe)  OBVIOUS
  <2> QED BY <1>5, <2>2, <2>3
<1>8. /\ owe = {} /\ since # 0 => fired = since
      /\ owe = {} /\ since = 0 => fired = moment
  OBVIOUS
<1>9. \A t \in owed : t \in occurrences /\ t \in Nat /\ since < t /\ t <= moment
  BY <1>3, <1>4
<1>10. \A t \in occurrences : since < t /\ t <= moment => t \in owed
  BY <1>4
<1>11. fired \in Nat
  BY <1>2, <1>5, <1>7, <1>8, <1>9
<1>12. fired >= since
  BY <1>2, <1>5, <1>7, <1>8, <1>9
<1> SUFFICES ASSUME NEW t \in Promised
             PROVE  /\ t <= fired =>
                         \/ t \in FiledOnes \union owe
                         \/ /\ t \in Counted \union skip /\ Current.policy = "coalesce"
                            /\ fired \in (FiledOnes \union owe) \intersect Promised
                    /\ NextOccurrence(Current.rule, moment) = 0 /\ t > fired =>
                         t \in Counted \union skip /\ Current.policy # "coalesce"
  BY DEF Settles
<1>13. t \in occurrences /\ t \in Nat /\ t >= 1 /\ t > base  BY <1>1, <1>3
<1>14. ASSUME t <= fired
       PROVE  \/ t \in FiledOnes \union owe
              \/ /\ t \in Counted \union skip /\ Current.policy = "coalesce"
                 /\ fired \in (FiledOnes \union owe) \intersect Promised
  <2>1. CASE t <= since
    <3>1. \/ t \in FiledOnes
          \/ /\ t \in Counted /\ Current.policy = "coalesce"
             /\ since \in FiledOnes \intersect Promised
      BY <2>1 DEF SettledInv, RowSettles, Settles
    <3>2. CASE owe = {}
      <4>1. fired = since  BY <1>2, <1>8, <1>13, <2>1, <3>2
      <4> QED BY <3>1, <4>1
    <3>3. CASE owe # {}
      <4>1. fired \in owe /\ fired \in occurrences /\ fired > since
        BY <1>2, <1>5, <1>7, <1>9, <3>3
      <4>2. fired > base  BY <1>1, <1>2, <1>11, <1>13, <2>1, <4>1
      <4>3. fired \in Promised  BY <1>1, <4>1, <4>2
      <4> QED BY <3>1, <4>1, <4>3
    <3> QED BY <3>2, <3>3
  <2>2. CASE t > since
    <3>1. fired <= moment
      <4>1. CASE owe # {}  BY <1>5, <1>7, <1>9, <4>1
      <4>2. CASE owe = {} /\ since = 0  BY <1>2, <1>8, <4>2
      <4>3. CASE owe = {} /\ since # 0  BY <1>2, <1>8, <1>13, <1>14, <2>2, <4>3
      <4> QED BY <4>1, <4>2, <4>3
    <3>2. t \in owed  BY <1>2, <1>10, <1>11, <1>13, <1>14, <2>2, <3>1
    <3>3. owe # {} /\ fired \in owe  BY <1>5, <1>7, <3>2
    <3>4. CASE Current.policy # "coalesce"
      <4>1. t \in owe  BY <1>5, <1>14, <3>2, <3>3, <3>4
      <4> QED BY <4>1
    <3>5. CASE Current.policy = "coalesce"
      <4>1. fired \in occurrences /\ fired > base
        BY <1>1, <1>5, <1>9, <1>11, <1>13, <1>14, <3>3
      <4>2. fired \in Promised  BY <1>1, <4>1
      <4> QED BY <1>5, <3>2, <3>3, <3>5, <4>2
    <3> QED BY <3>4, <3>5
  <2> QED BY <1>2, <1>13, <2>1, <2>2
<1>15. ASSUME NextOccurrence(Current.rule, moment) = 0, t > fired
       PROVE  t \in Counted \union skip /\ Current.policy # "coalesce"
  <2>1. t <= moment  BY <1>0, <1>2, <1>13, <1>15
  <2>2. t > since  BY <1>2, <1>11, <1>12, <1>13, <1>15
  <2>3. t \in owed  BY <1>10, <1>13, <2>1, <2>2
  <2>4. owe # {} /\ t \notin owe  BY <1>5, <1>7, <1>11, <1>13, <1>15, <2>3
  <2>5. t \in skip  BY <1>5, <2>3, <2>4
  <2>6. Current.policy # "coalesce"  BY <1>7, <1>11, <1>13, <1>15, <2>3
  <2> QED BY <2>5, <2>6
<1> QED BY <1>14, <1>15

(* A step that keeps the promises, and takes no run or count away.         *)
PromisesKept ==
  /\ schedule'.revision = schedule.revision
  /\ Promised' = Promised
  /\ Current'.policy = Current.policy /\ Current'.rule = Current.rule
  /\ FiledOnes \subseteq FiledOnes' /\ Counted \subseteq Counted'

LEMMA RowKept ==
  ASSUME RowSettles, PromisesKept,
         schedule'.lastFired = schedule.lastFired, schedule'.retired = schedule.retired
  PROVE  RowSettles'
BY SettlesMore DEF RowSettles, PromisesKept

LEMMA LaneKept ==
  ASSUME NEW d \in Dispatchers, LaneSettles(d), PromisesKept, dispatcher'[d] = dispatcher[d]
  PROVE  LaneSettles(d)'
<1> DEFINE me == dispatcher[d]
<1> SUFFICES ASSUME me.at \in {"file", "mark"}, me.revision = schedule.revision,
                    Walkable(Current.rule)
             PROVE  /\ Settles(Promised, Current.policy, me.firedAt, me.next = 0,
                               FiledOnes' \union me.due, Counted' \union me.missed)
                    /\ me.at = "mark" => me.missed = {}
  BY DEF LaneSettles, PromisesKept
<1>1. /\ Settles(Promised, Current.policy, me.firedAt, me.next = 0,
                 FiledOnes \union me.due, Counted \union me.missed)
      /\ me.at = "mark" => me.missed = {}
  BY DEF LaneSettles
<1>2. /\ FiledOnes \union me.due \subseteq FiledOnes' \union me.due
      /\ Counted \union me.missed \subseteq Counted' \union me.missed
  BY DEF PromisesKept
<1> HIDE DEF me
<1>3. Settles(Promised, Current.policy, me.firedAt, me.next = 0,
              FiledOnes' \union me.due, Counted' \union me.missed)
  BY <1>1, <1>2, SettlesMore
<1> QED BY <1>1, <1>3

LEMMA PromisesFrame ==
  ASSUME schedule'.revision = schedule.revision, UNCHANGED <<definition, run, histories>>
  PROVE  PromisesKept
BY DEF PromisesKept, Promised, Current, FiledOnes, Filed, Counted, Floored, histories

(* A dispatcher takes a state that holds nothing to settle.                *)
LEMMA MoveKeepsSettled ==
  ASSUME SettledInv, TypeOK', NEW d \in Dispatchers, NEW state, Goto(d, state),
         state.at \notin {"file", "mark"}, state.revision <= schedule.revision, PromisesKept,
         schedule'.lastFired = schedule.lastFired, schedule'.retired = schedule.retired
  PROVE  SettledInv'
<1>1. \A e \in Dispatchers : dispatcher'[e] = IF e = d THEN state ELSE dispatcher[e]
  BY DEF Goto, SettledInv, TypeOK
<1>2. NotAhead'  BY <1>1 DEF SettledInv, NotAhead, PromisesKept
<1>3. RowSettles'  BY RowKept DEF SettledInv
<1>4. ASSUME NEW e \in Dispatchers PROVE LaneSettles(e)'
  <2>1. CASE e = d  BY <1>1, <2>1 DEF LaneSettles
  <2>2. CASE e # d  BY <1>1, <2>2, LaneKept DEF SettledInv
  <2> QED BY <2>1, <2>2
<1> QED BY <1>2, <1>3, <1>4 DEF SettledInv

(* The dispatchers stay where they are.                                    *)
LEMMA StayKeepsSettled ==
  ASSUME SettledInv, TypeOK', PromisesKept, dispatcher' = dispatcher,
         schedule'.lastFired = schedule.lastFired, schedule'.retired = schedule.retired
  PROVE  SettledInv'
<1>1. RowSettles'  BY RowKept DEF SettledInv
<1>2. \A d \in Dispatchers : LaneSettles(d)'  BY LaneKept DEF SettledInv
<1>3. NotAhead'  BY DEF SettledInv, NotAhead, PromisesKept
<1> QED BY <1>1, <1>2, <1>3 DEF SettledInv

(* A new revision promises only what is after the last one fired.          *)
LEMMA UpdateKeepsSettled ==
  ASSUME SettledInv, TypeOK', UpdateSchedule
  PROVE  SettledInv'
<1>1. /\ TypeOK /\ schedule \in ScheduleRow /\ schedule.revision \in Nat
      /\ schedule.lastFired \in Nat
  BY TypeParts, InstantsFacts, RevisionFacts DEF SettledInv, TypesOfParts, ScheduleRow
<1>2. /\ schedule'.revision = schedule.revision + 1
      /\ schedule'.lastFired = schedule.lastFired /\ schedule'.retired = FALSE
  BY <1>1 DEF UpdateSchedule, Published, ScheduleRow
<1>3. base' = schedule.lastFired /\ dispatcher' = dispatcher
  BY DEF UpdateSchedule
<1>4. \A d \in Dispatchers : dispatcher[d].revision \in Nat
  BY <1>1, TypeParts, LaneFacts, RevisionFacts DEF TypesOfParts
<1>5. NotAhead'
  BY <1>1, <1>2, <1>3, <1>4 DEF SettledInv, NotAhead
<1>6. RowSettles'
  <2>1. \A t \in Promised' : t \in Nat /\ t > schedule.lastFired
    <3>1. (Promised \in SUBSET Instants /\ Promised = {t \in Occurrences(Current.rule) : t > base})'
      BY PromisedFacts, PTL
    <3>2. \A t \in Promised' : t > base'  BY <3>1
    <3>3. Promised' \in SUBSET Instants  BY <3>1
    <3> QED BY <1>3, <3>2, <3>3, InstantsFacts
  <2>2. \A t \in Promised' : ~(t <= schedule.lastFired)
    BY <1>1, <2>1
  <2> QED BY <1>2, <2>2 DEF RowSettles, Settles
<1>7. \A d \in Dispatchers : LaneSettles(d)'
  <2>1. \A d \in Dispatchers : dispatcher'[d].revision # schedule'.revision
    BY <1>1, <1>2, <1>3, <1>4 DEF SettledInv, NotAhead
  <2> QED BY <2>1 DEF LaneSettles
<1> QED BY <1>5, <1>6, <1>7 DEF SettledInv

LEMMA RevokeKeepsPromises ==
  ASSUME TypeOK, NEW r \in Revisions, RevokeRevision(r)
  PROVE  /\ PromisesKept
         /\ schedule'.lastFired = schedule.lastFired /\ schedule'.retired = schedule.retired
         /\ schedule'.next \in {schedule.next, 0} /\ schedule'.deleted = schedule.deleted
         /\ schedule'.enabled \in {schedule.enabled, FALSE}
<1>1. /\ schedule \in ScheduleRow /\ schedule.revision \in Revisions
      /\ definition \in [Revisions -> DefinitionRow] /\ run \in [Instants -> RunRow]
  BY TypeParts DEF TypesOfParts, ScheduleRow
<1>2. /\ schedule'.revision = schedule.revision
      /\ schedule'.lastFired = schedule.lastFired /\ schedule'.retired = schedule.retired
      /\ schedule'.next \in {schedule.next, 0} /\ schedule'.deleted = schedule.deleted
      /\ schedule'.enabled \in {schedule.enabled, FALSE}
  BY <1>1 DEF RevokeRevision, ScheduleRow
<1>3. \A s \in Revisions : /\ definition'[s].rule = definition[s].rule
                           /\ definition'[s].policy = definition[s].policy
  BY <1>1 DEF RevokeRevision, DefinitionRow
<1>4. Promised' = Promised /\ Current'.policy = Current.policy /\ Current'.rule = Current.rule
  BY <1>1, <1>2, <1>3 DEF Promised, Current, RevokeRevision
<1>5. \A t \in Instants : /\ run'[t].revision = run[t].revision
                          /\ run'[t].misfired = run[t].misfired
  BY <1>1 DEF RevokeRevision, RunRow
<1>6. FiledOnes' = FiledOnes  BY <1>5 DEF FiledOnes, Filed
<1>7. Floored' = Floored
  <2>1. floored' = floored  BY DEF RevokeRevision
  <2> QED BY <1>5, <2>1 DEF Floored, Filed
<1>8. Counted' = Counted  BY <1>7 DEF Counted, RevokeRevision
<1>9. PromisesKept
  BY <1>2, <1>4, <1>6, <1>8 DEF PromisesKept
<1> QED BY <1>2, <1>9

LEMMA RevokeKeepsSettled ==
  ASSUME SettledInv, TypeOK', NEW r \in Revisions, RevokeRevision(r)
  PROVE  SettledInv'
<1>1. TypeOK  BY DEF SettledInv
<1>2. dispatcher' = dispatcher  BY DEF RevokeRevision
<1>3. /\ PromisesKept
      /\ schedule'.lastFired = schedule.lastFired /\ schedule'.retired = schedule.retired
  BY <1>1, RevokeKeepsPromises
<1> QED BY <1>2, <1>3, StayKeepsSettled

LEMMA LoadKeepsSettled ==
  ASSUME SettledInv, TypeOK', NEW d \in Dispatchers, LoadDefinition(d)
  PROVE  SettledInv'
<1> DEFINE me    == dispatcher[d]
           defn  == definition[me.revision]
           since == schedule.lastFired
           owe   == Owe(defn.rule, defn.policy, since, me.now)
           fired == IF owe # {} THEN Latest(owe) ELSE IF since = 0 THEN me.now ELSE since
           skip  == Missed(defn.rule, defn.policy, since, me.now)
           next  == NextOccurrence(defn.rule, me.now)
           state == [me EXCEPT !.at = AfterLoad(owe), !.due = owe, !.missed = skip,
                               !.firedAt = fired, !.now = 0, !.next = next]
<1>1. /\ TypeOK /\ DispatchersOK /\ me \in DispatcherState /\ me.revision \in Revisions
      /\ me.now \in Moments /\ since \in Moments /\ defn.rule \in Recurrence
  BY TypeParts, LaneFacts
     DEF SettledInv, TypesOfParts, ScheduleRow, LoadDefinition, DefinitionRow
<1>2. me.revision <= schedule.revision  BY DEF SettledInv, NotAhead
<1>3. PromisesKept  BY PromisesFrame DEF LoadDefinition, histories
<1>4. Goto(d, state)  BY DEF LoadDefinition
<1>5. schedule' = schedule  BY DEF LoadDefinition
<1>6. RowSettles'  BY <1>3, <1>5, RowKept DEF SettledInv
<1>8. /\ state.at = AfterLoad(owe) /\ state.due = owe /\ state.missed = skip
      /\ state.firedAt = fired /\ state.now = 0 /\ state.next = next
      /\ state.revision = me.revision
  <2> HIDE DEF owe, fired, skip, next
  <2> QED BY <1>1 DEF DispatcherState
<1>9. \A e \in Dispatchers : dispatcher'[e] = IF e = d THEN state ELSE dispatcher[e]
  BY <1>1, <1>4 DEF Goto, DispatchersOK
<1> HIDE DEF state
<1>10. NotAhead'
  BY <1>2, <1>5, <1>8, <1>9 DEF SettledInv, NotAhead
<1>11. ASSUME me.revision = schedule.revision, Walkable(Current.rule)
       PROVE  /\ Settles(Promised, Current.policy, fired, next = 0,
                         FiledOnes \union owe, Counted \union skip)
              /\ owe = {} => skip = {}
  <2>1. defn = Current  BY <1>11 DEF Current
  <2>2. Settles(Promised, Current.policy, fired, next = 0,
                FiledOnes \union owe, Counted \union skip)
    BY <1>1, <1>11, <2>1, LoadSettles
  <2>4. owe = {} => skip = {}  BY <1>1, OweFacts
  <2> QED BY <2>2, <2>4
<1>12. ASSUME NEW e \in Dispatchers PROVE LaneSettles(e)'
  <2>1. CASE e = d
    <3> HIDE DEF owe, fired, skip, next
    <3>1. dispatcher'[d] = state  BY <1>9
    <3>2. AfterLoad(owe) = "mark" => owe = {}  BY DEF AfterLoad
    <3>3. PromisesKept /\ schedule' = schedule  BY <1>3, <1>5
    <3>4. ASSUME me.revision = schedule.revision, Walkable(Current.rule)
          PROVE  Settles(Promised', Current'.policy, fired, next = 0,
                         FiledOnes' \union owe, Counted' \union skip)
      <4>1. /\ FiledOnes \union owe \subseteq FiledOnes' \union owe
            /\ Counted \union skip \subseteq Counted' \union skip
        BY <1>3 DEF PromisesKept
      <4> QED BY <1>3, <1>11, <3>4, <4>1, SettlesMore DEF PromisesKept
    <3> QED BY <1>8, <1>11, <2>1, <3>1, <3>2, <3>3, <3>4 DEF LaneSettles, PromisesKept
  <2>2. CASE e # d  BY <1>3, <1>9, <2>2, LaneKept DEF SettledInv
  <2> QED BY <2>1, <2>2
<1> QED BY <1>6, <1>10, <1>12 DEF SettledInv

(* The oldest occurrence is filed, and what its run counts is counted.     *)
LEMMA FilingFiles ==
  ASSUME TypeOK, NEW d \in Dispatchers, FileOccurrence(d)
  PROVE  LET me    == dispatcher[d]
             t     == Earliest(me.due)
             rest  == me.due \ {t}
             state == [me EXCEPT !.at = AfterLoad(rest), !.due = rest, !.missed = {}]
         IN  /\ FiledOnes' = FiledOnes \union {t}
             /\ Counted \union me.missed \subseteq Counted'
             /\ PromisesKept /\ schedule' = schedule
             /\ state.at = AfterLoad(rest) /\ state.due = rest /\ state.missed = {}
             /\ state.firedAt = me.firedAt /\ state.now = me.now /\ state.next = me.next
             /\ state.revision = me.revision
             /\ \A e \in Dispatchers : dispatcher'[e] = IF e = d THEN state ELSE dispatcher[e]
<1> DEFINE me    == dispatcher[d]
           t     == Earliest(me.due)
           rest  == me.due \ {t}
           state == [me EXCEPT !.at = AfterLoad(rest), !.due = rest, !.missed = {}]
<1>1. /\ DispatchersOK /\ me \in DispatcherState /\ me.at = "file"
      /\ me.due \in SUBSET Instants /\ me.due # {} /\ me.revision \in Revisions
      /\ run \in [Instants -> RunRow]
  BY TypeParts, LaneFacts DEF TypesOfParts, FileOccurrence
<1>2. t \in me.due /\ t \in Instants  BY <1>1, EarliestIsLeast
<1>3. /\ me.revision # 0 /\ UNCHANGED <<now, schedule, definition, base>>
  BY <1>1, RevisionFacts DEF FileOccurrence
<1>4. FiledOnes' = FiledOnes \union {t}
  <2>1. CASE Filed(t)
    <3>1. run' = run  BY <2>1 DEF FileOccurrence
    <3> QED BY <1>2, <2>1, <3>1 DEF FiledOnes, Filed
  <2>2. CASE ~Filed(t)
    <3>1. run' = [run EXCEPT ![t].revision = me.revision,
                             ![t].misfired = Cardinality(Skipped(me.missed))]
      BY <2>2 DEF FileOccurrence
    <3>2. \A u \in Instants : u # t => run'[u] = run[u]  BY <1>1, <3>1
    <3>3. run'[t].revision = me.revision  BY <1>1, <1>2, <3>1 DEF RunRow
    <3> HIDE DEF t, me
    <3> QED BY <1>2, <1>3, <3>2, <3>3 DEF FiledOnes, Filed
  <2> QED BY <2>1, <2>2
<1>5. Counted \union me.missed \subseteq Counted'
  <2> DEFINE skipped == Skipped(me.missed)
  <2>1. /\ me.missed \in SUBSET Instants /\ skipped \subseteq me.missed
        /\ Cardinality(skipped) \in 0..CountLimit
        /\ me.missed \ skipped # {} => Cardinality(skipped) = CountLimit
    BY <1>1, LaneFacts, SkippedFacts
  <2>2. CASE Filed(t)
    <3>1. /\ run' = run /\ counted' = counted /\ floored' = floored
          /\ uncounted' = uncounted \union me.missed
      BY <2>2 DEF FileOccurrence
    <3>2. Floored' = Floored  BY <3>1 DEF Floored, Filed
    <3> QED BY <3>1, <3>2 DEF Counted
  <2>3. CASE ~Filed(t)
    <3>1. /\ run' = [run EXCEPT ![t].revision = me.revision,
                               ![t].misfired = Cardinality(skipped)]
          /\ counted' = counted \union skipped
          /\ floored' = floored \union ((me.missed \ skipped) \X {t})
          /\ uncounted' = uncounted
      BY <2>3 DEF FileOccurrence
    <3> HIDE DEF t, me, skipped
    <3>2. \A u \in Instants : Filed(u) => run'[u] = run[u]
      BY <1>1, <2>3, <3>1 DEF Filed
    <3>3. Floored \subseteq Floored'
      BY <3>1, <3>2 DEF Floored, Filed
    <3>4. run'[t].revision # 0 /\ run'[t].misfired = Cardinality(skipped)
      BY <1>1, <1>2, <1>3, <3>1 DEF RunRow
    <3>5. ASSUME NEW u \in me.missed \ skipped PROVE u \in Floored'
      <4>1. <<u, t>> \in floored'  BY <3>1, <3>5
      <4>2. u \in Instants /\ run'[t].misfired = CountLimit  BY <2>1, <3>4, <3>5
      <4> QED BY <1>2, <3>4, <4>1, <4>2 DEF Floored, Filed
    <3> QED BY <3>1, <3>3, <3>5 DEF Counted
  <2> QED BY <2>2, <2>3
<1>6. PromisesKept
  BY <1>3, <1>4, <1>5 DEF PromisesKept, Promised, Current
<1>7. Goto(d, state)  BY DEF FileOccurrence
<1>8. /\ state.at = AfterLoad(rest) /\ state.due = rest /\ state.missed = {}
      /\ state.firedAt = me.firedAt /\ state.now = me.now /\ state.next = me.next
      /\ state.revision = me.revision
  <2> HIDE DEF rest
  <2> QED BY <1>1 DEF DispatcherState
<1>9. \A e \in Dispatchers : dispatcher'[e] = IF e = d THEN state ELSE dispatcher[e]
  BY <1>1, <1>7 DEF Goto, DispatchersOK
<1> QED BY <1>3, <1>4, <1>5, <1>6, <1>8, <1>9

LEMMA FileKeepsSettled ==
  ASSUME SettledInv, TypeOK', NEW d \in Dispatchers, FileOccurrence(d)
  PROVE  SettledInv'
<1> DEFINE me    == dispatcher[d]
           t     == Earliest(me.due)
           rest  == me.due \ {t}
           state == [me EXCEPT !.at = AfterLoad(rest), !.due = rest, !.missed = {}]
<1>1. TypeOK /\ me.at = "file"  BY DEF SettledInv, FileOccurrence
<1>3. UNCHANGED <<now, schedule, definition, base>>
  BY DEF FileOccurrence
<1>4. /\ FiledOnes' = FiledOnes \union {t}
      /\ Counted \union me.missed \subseteq Counted'
      /\ PromisesKept
      /\ state.at = AfterLoad(rest) /\ state.due = rest /\ state.missed = {}
      /\ state.firedAt = me.firedAt /\ state.now = me.now /\ state.next = me.next
      /\ state.revision = me.revision
      /\ \A e \in Dispatchers : dispatcher'[e] = IF e = d THEN state ELSE dispatcher[e]
  BY <1>1, FilingFiles
<1> HIDE DEF state
<1>10. NotAhead'  BY <1>3, <1>4 DEF SettledInv, NotAhead
<1>11. RowSettles'  BY <1>3, <1>4, RowKept DEF SettledInv
<1>12. ASSUME NEW e \in Dispatchers PROVE LaneSettles(e)'
  <2>1. CASE e = d
    <3>1. dispatcher'[d] = state  BY <1>4
    <3>2. ASSUME me.revision = schedule.revision, Walkable(Current.rule)
          PROVE  Settles(Promised', Current'.policy, me.firedAt, me.next = 0,
                         FiledOnes' \union rest, Counted' \union {})
      <4>1. Settles(Promised, Current.policy, me.firedAt, me.next = 0,
                    FiledOnes \union me.due, Counted \union me.missed)
        BY <1>1, <3>2 DEF SettledInv, LaneSettles
      <4>2. /\ FiledOnes \union me.due \subseteq FiledOnes' \union rest
            /\ Counted \union me.missed \subseteq Counted' \union {}
        BY <1>4
      <4> HIDE DEF me, rest
      <4> QED BY <1>4, <4>1, <4>2, SettlesMore DEF PromisesKept
    <3> QED BY <1>3, <1>4, <2>1, <3>1, <3>2 DEF LaneSettles, PromisesKept
  <2>2. CASE e # d  BY <1>4, <2>2, LaneKept DEF SettledInv
  <2> QED BY <2>1, <2>2
<1> QED BY <1>10, <1>11, <1>12 DEF SettledInv

LEMMA MarkKeepsSettled ==
  ASSUME SettledInv, TypeOK', NEW d \in Dispatchers, MarkFired(d)
  PROVE  SettledInv'
<1> DEFINE me == dispatcher[d]
<1>1. /\ TypeOK /\ DispatchersOK /\ me \in DispatcherState /\ me.at = "mark"
      /\ me.due = {} /\ schedule \in ScheduleRow /\ schedule.revision \in Nat
  BY TypeParts, LaneFacts, RevisionFacts
     DEF SettledInv, TypesOfParts, MarkFired, ScheduleRow
<1>2. \A e \in Dispatchers : dispatcher'[e] = IF e = d THEN Idle ELSE dispatcher[e]
  BY <1>1 DEF MarkFired, Goto, DispatchersOK
<1>3. /\ schedule'.revision = schedule.revision
      /\ UNCHANGED <<definition, run, histories>>
  BY <1>1 DEF MarkFired, Fired, ScheduleRow
<1>4. PromisesKept  BY <1>3, PromisesFrame
<1>5. NotAhead'
  <2>1. Idle.revision <= schedule.revision  BY <1>1 DEF Idle
  <2> QED BY <1>2, <1>3, <2>1 DEF SettledInv, NotAhead
<1>6. RowSettles'
  <2>1. CASE schedule.revision # me.revision
    <3>1. schedule' = schedule  BY <2>1 DEF MarkFired, Fired
    <3> QED BY <1>4, <3>1, RowKept DEF SettledInv
  <2>2. CASE schedule.revision = me.revision
    <3>1. schedule'.lastFired = me.firedAt /\ schedule'.retired = (me.next = 0)
      BY <1>1, <2>2 DEF MarkFired, Fired, ScheduleRow
    <3> SUFFICES ASSUME Walkable(Current.rule)
                 PROVE  Settles(Promised', Current'.policy, schedule'.lastFired,
                                schedule'.retired, FiledOnes', Counted')
      BY <1>4 DEF RowSettles, PromisesKept
    <3>2. /\ Settles(Promised, Current.policy, me.firedAt, me.next = 0,
                     FiledOnes \union me.due, Counted \union me.missed)
          /\ me.missed = {}
      BY <1>1, <2>2 DEF SettledInv, LaneSettles
    <3>3. FiledOnes \union me.due \subseteq FiledOnes' /\ Counted \union me.missed \subseteq Counted'
      BY <1>1, <1>4, <3>2 DEF PromisesKept
    <3> HIDE DEF me
    <3>4. Settles(Promised, Current.policy, me.firedAt, me.next = 0, FiledOnes', Counted')
      BY <3>2, <3>3, SettlesMore
    <3> QED BY <1>4, <3>1, <3>4 DEF PromisesKept
  <2> QED BY <2>1, <2>2
<1>7. ASSUME NEW e \in Dispatchers PROVE LaneSettles(e)'
  <2>1. CASE e = d  BY <1>2, <2>1 DEF LaneSettles, Idle
  <2>2. CASE e # d  BY <1>2, <1>4, <2>2, LaneKept DEF SettledInv
  <2> QED BY <2>1, <2>2
<1> QED BY <1>5, <1>6, <1>7 DEF SettledInv

LEMMA NextSettled == SettledInv /\ [Next]_vars => SettledInv'
<1> SUFFICES ASSUME SettledInv, [Next]_vars PROVE SettledInv'
  OBVIOUS
<1>0. TypeOK /\ TypeOK' /\ schedule.revision \in Nat
  BY NextTypes, TypeParts, RevisionFacts DEF SettledInv, TypesOfParts, ScheduleRow
<1>1. CASE UNCHANGED vars
  BY <1>0, <1>1, PromisesFrame, StayKeepsSettled DEF vars, histories
<1>2. CASE Tick
  BY <1>0, <1>2, PromisesFrame, StayKeepsSettled DEF Tick, histories
<1>3. CASE CancelSchedule
  <2>1. /\ schedule'.revision = schedule.revision /\ schedule'.lastFired = schedule.lastFired
        /\ schedule'.retired = schedule.retired
    BY <1>0, <1>3, TypeParts DEF TypesOfParts, ScheduleRow, CancelSchedule
  <2> QED BY <1>0, <1>3, <2>1, PromisesFrame, StayKeepsSettled DEF CancelSchedule, histories
<1>4. CASE UpdateSchedule  BY <1>0, <1>4, UpdateKeepsSettled
<1>5. ASSUME NEW r \in Revisions, RevokeRevision(r) PROVE SettledInv'
  BY <1>0, <1>5, RevokeKeepsSettled
<1>6. ASSUME NEW d \in Dispatchers,
             ClaimDue(d) \/ FindStranded(d) \/ Dispatch(d) \/ GiveUp(d)
      PROVE  SettledInv'
  <2>0. DispatchersOK /\ schedule \in ScheduleRow /\ 0 <= schedule.revision
    BY <1>0, TypeParts DEF TypesOfParts
  <2>1. CASE ClaimDue(d)
    <3> DEFINE state == [Idle EXCEPT !.at = "load", !.revision = schedule.revision, !.now = now]
    <3>1. state.at = "load" /\ state.revision = schedule.revision
      BY DEF Idle
    <3>2. /\ schedule'.revision = schedule.revision /\ schedule'.lastFired = schedule.lastFired
          /\ schedule'.retired = schedule.retired
      BY <2>0, <2>1 DEF ClaimDue, ScheduleRow
    <3>3. PromisesKept  BY <2>1, <3>2, PromisesFrame DEF ClaimDue
    <3>4. Goto(d, state)   BY <2>1 DEF ClaimDue
    <3> HIDE DEF state
    <3> QED BY <1>0, <2>0, <3>1, <3>2, <3>3, <3>4, MoveKeepsSettled
  <2>2. CASE FindStranded(d)
    <3> DEFINE state == [Idle EXCEPT !.at = "check", !.revision = schedule.revision]
    <3>1. state.at = "check" /\ state.revision = schedule.revision
      BY DEF Idle
    <3>2. schedule' = schedule /\ Goto(d, state) /\ PromisesKept
      BY <2>2, PromisesFrame DEF FindStranded
    <3> HIDE DEF state
    <3> QED BY <1>0, <2>0, <3>1, <3>2, MoveKeepsSettled
  <2>3. CASE LoadUnavailable(d) \/ GiveUp(d)
    <3>1. schedule' = schedule /\ Goto(d, Idle) /\ PromisesKept
      BY <2>3, PromisesFrame DEF LoadUnavailable, GiveUp
    <3>2. Idle.at = "idle" /\ Idle.revision = 0
      BY DEF Idle
    <3> QED BY <1>0, <2>0, <3>1, <3>2, MoveKeepsSettled
  <2>4. CASE RecoverStranded(d)
    <3> DEFINE state == [dispatcher[d] EXCEPT !.at = "load", !.now = now]
    <3>1. dispatcher[d] \in DispatcherState  BY <2>0, LaneFacts
    <3>2. state.at = "load" /\ state.revision = dispatcher[d].revision
      BY <3>1 DEF DispatcherState
    <3>3. schedule' = schedule /\ PromisesKept
      BY <2>4, PromisesFrame DEF RecoverStranded
    <3>4. Goto(d, state) \/ Goto(d, Idle)  BY <2>4 DEF RecoverStranded
    <3>5. Idle.at = "idle" /\ Idle.revision = 0
      BY DEF Idle
    <3>6. dispatcher[d].revision <= schedule.revision  BY DEF SettledInv, NotAhead
    <3> HIDE DEF state
    <3> QED BY <1>0, <2>0, <3>2, <3>3, <3>4, <3>5, <3>6, MoveKeepsSettled
  <2>5. CASE LoadDefinition(d)  BY <1>0, <2>5, LoadKeepsSettled
  <2>6. CASE FileOccurrence(d)  BY <1>0, <2>6, FileKeepsSettled
  <2>7. CASE MarkFired(d)  BY <1>0, <2>7, MarkKeepsSettled
  <2> QED BY <1>6, <2>1, <2>2, <2>3, <2>4, <2>5, <2>6, <2>7 DEF Dispatch
<1> QED BY <1>1, <1>2, <1>3, <1>4, <1>5, <1>6 DEF Next

(* What a schedule has put behind it is filed, or was counted as skipped,  *)
(* or its rule is too dense for the bounded lookups.                       *)
THEOREM NothingIsLost == Spec => []NothingSlipsBy
<1>1. Init => SettledInv  BY InitSettled
<1>2. SettledInv /\ [Next]_vars => SettledInv'  BY NextSettled
<1>3. SettledInv => NothingSlipsBy
  BY RowSettlesImpliesNothingSlips DEF SettledInv
<1> QED BY <1>1, <1>2, <1>3, PTL DEF Spec

-----------------------------------------------------------------------------
(* What is overdue is found                                                *)

(* An overdue occurrence is in reach of the poll, which claims a schedule  *)
(* whose next occurrence has arrived, or of the sweep, which recovers one  *)
(* that has none and is not retired.                                       *)
OverdueIsFound ==
  Overdue =>
    /\ ~schedule.deleted
    /\ IF schedule.next = 0 THEN ~schedule.retired ELSE schedule.next <= now

(* Nothing promised before `next' is open, given what is filed and counted.*)
NotLate(promised, next, filed, cnt) ==
  next # 0 => \A t \in promised : t < next => t \in filed \/ t \in cnt

RowNotLate ==
  Walkable(Current.rule) => NotLate(Promised, schedule.next, FiledOnes, Counted)

LaneNotLate(d) ==
  LET me == dispatcher[d]
  IN me.at \in {"file", "mark"} /\ me.revision = schedule.revision /\ Walkable(Current.rule)
       => NotLate(Promised, me.next, FiledOnes \union me.due, Counted \union me.missed)

OutOfService == schedule.deleted => ~schedule.enabled

FoundInv ==
  /\ SettledInv /\ OutOfService /\ RowNotLate
  /\ \A d \in Dispatchers : LaneNotLate(d)

LEMMA NotLateMore ==
  ASSUME NEW promised, NEW next, NEW f, NEW c, NEW g, NEW e,
         NotLate(promised, next, f, c), f \subseteq g, c \subseteq e
  PROVE  NotLate(promised, next, g, e)
BY DEF NotLate

(* Between a moment and the next occurrence after it nothing is promised,  *)
(* by a rule the lookup can walk.                                          *)
LEMMA NothingBeforeNext ==
  ASSUME NEW rule \in Recurrence, Walkable(rule), NEW moment \in Moments,
         NEW t \in Occurrences(rule), t < NextOccurrence(rule, moment)
  PROVE  t <= moment
<1>1. t \in Nat /\ moment \in Nat /\ NextOccurrence(rule, moment) \in Nat
  BY RuleFacts, InstantsFacts, NextOccurrenceFacts
<1>2. t > moment => NextOccurrence(rule, moment) <= t
  BY NextOccurrenceFacts
<1> QED BY <1>1, <1>2

LEMMA LaneStaysNotLate ==
  ASSUME PromisesKept, NEW d \in Dispatchers, LaneNotLate(d), dispatcher'[d] = dispatcher[d]
  PROVE  LaneNotLate(d)'
<1> DEFINE me == dispatcher[d]
<1> SUFFICES ASSUME me.at \in {"file", "mark"}, me.revision = schedule.revision,
                    Walkable(Current.rule)
             PROVE  NotLate(Promised, me.next, FiledOnes' \union me.due, Counted' \union me.missed)
  BY DEF LaneNotLate, PromisesKept
<1>1. NotLate(Promised, me.next, FiledOnes \union me.due, Counted \union me.missed)
  BY DEF LaneNotLate
<1>2. /\ FiledOnes \union me.due \subseteq FiledOnes' \union me.due
      /\ Counted \union me.missed \subseteq Counted' \union me.missed
  BY DEF PromisesKept
<1> HIDE DEF me
<1> QED BY <1>1, <1>2, NotLateMore

(* The row may forget its next occurrence, a dispatcher what it resolved.  *)
LEMMA ForgettingIsNotLate ==
  ASSUME FoundInv, PromisesKept, schedule'.next \in {schedule.next, 0},
         \A d \in Dispatchers : \/ dispatcher'[d] = dispatcher[d]
                                \/ dispatcher'[d].at \notin {"file", "mark"}
  PROVE  RowNotLate' /\ \A d \in Dispatchers : LaneNotLate(d)'
<1>1. RowNotLate'
  BY DEF FoundInv, RowNotLate, NotLate, PromisesKept
<1>2. ASSUME NEW d \in Dispatchers PROVE LaneNotLate(d)'
  <2>1. CASE dispatcher'[d] = dispatcher[d]
    BY <2>1, LaneStaysNotLate DEF FoundInv
  <2>2. CASE dispatcher'[d].at \notin {"file", "mark"}
    BY <2>2 DEF LaneNotLate
  <2> QED BY <2>1, <2>2
<1> QED BY <1>1, <1>2

LEMMA UpdateIsNotLate ==
  ASSUME FoundInv, TypeOK', UpdateSchedule
  PROVE  RowNotLate' /\ \A d \in Dispatchers : LaneNotLate(d)'
<1>1. /\ TypeOK /\ schedule \in ScheduleRow /\ schedule.revision \in Nat
      /\ schedule.revision + 1 \in Revisions
      /\ definition \in [Revisions -> DefinitionRow]
  BY TypeParts, RevisionFacts
     DEF FoundInv, SettledInv, TypesOfParts, ScheduleRow, UpdateSchedule
<1>2. PICK new \in Definitions :
        /\ schedule' = Published(new.rule)
        /\ definition' = [definition EXCEPT ![schedule.revision + 1] = PublishedRow(new)]
  BY DEF UpdateSchedule
<1>3. /\ schedule'.revision = schedule.revision + 1
      /\ schedule'.next = NextOccurrence(new.rule, 0)
  BY <1>1, <1>2 DEF Published, ScheduleRow
<1>4. Current'.rule = new.rule /\ new.rule \in Recurrence
  BY <1>1, <1>2, <1>3, PublishedFacts DEF Current
<1>5. Promised' \subseteq Occurrences(new.rule)
  <2>1. (Promised = {t \in Occurrences(Current.rule) : t > base})'  BY DEF Promised
  <2> QED BY <1>4, <2>1
<1>6. RowNotLate'
  <2> SUFFICES ASSUME Walkable(new.rule), NEW t \in Promised', t < schedule'.next
               PROVE  FALSE
    BY <1>4 DEF RowNotLate, NotLate
  <2>1. t \in Occurrences(new.rule)  BY <1>5
  <2>2. t <= 0  BY <1>3, <1>4, <2>1, NothingBeforeNext, InstantsFacts
  <2>3. t \in Nat /\ t >= 1  BY <1>4, <2>1, RuleFacts, InstantsFacts
  <2> QED BY <2>2, <2>3
<1>7. \A d \in Dispatchers : LaneNotLate(d)'
  <2>1. \A d \in Dispatchers : dispatcher[d].revision \in Nat
    BY <1>1, TypeParts, LaneFacts, RevisionFacts DEF TypesOfParts
  <2>2. \A d \in Dispatchers : dispatcher'[d].revision # schedule'.revision
    BY <1>1, <1>3, <2>1 DEF UpdateSchedule, FoundInv, SettledInv, NotAhead
  <2> QED BY <2>2 DEF LaneNotLate
<1> QED BY <1>6, <1>7

LEMMA LoadIsNotLate ==
  ASSUME FoundInv, NEW d \in Dispatchers, LoadDefinition(d)
  PROVE  RowNotLate' /\ \A e \in Dispatchers : LaneNotLate(e)'
<1> DEFINE me    == dispatcher[d]
           defn  == definition[me.revision]
           since == schedule.lastFired
            owe   == Owe(defn.rule, defn.policy, since, me.now)
           fired == IF owe # {} THEN Latest(owe) ELSE IF since = 0 THEN me.now ELSE since
           skip  == Missed(defn.rule, defn.policy, since, me.now)
           next  == NextOccurrence(defn.rule, me.now)
           state == [me EXCEPT !.at = AfterLoad(owe), !.due = owe, !.missed = skip,
                               !.firedAt = fired, !.now = 0, !.next = next]
<1>1. /\ TypeOK /\ DispatchersOK /\ me \in DispatcherState /\ me.revision \in Revisions
      /\ me.now \in Moments /\ since \in Moments /\ defn.rule \in Recurrence
  BY TypeParts, LaneFacts
     DEF FoundInv, SettledInv, TypesOfParts, ScheduleRow, LoadDefinition, DefinitionRow
<1>2. PromisesKept /\ schedule' = schedule
  BY PromisesFrame DEF LoadDefinition, histories
<1>3. Goto(d, state)  BY DEF LoadDefinition
<1>4. /\ state.due = owe /\ state.missed = skip /\ state.next = next
      /\ state.revision = me.revision
  <2> HIDE DEF owe, fired, skip, next
  <2> QED BY <1>1 DEF DispatcherState
<1>5. \A e \in Dispatchers : dispatcher'[e] = IF e = d THEN state ELSE dispatcher[e]
  BY <1>1, <1>3 DEF Goto, DispatchersOK
<1> HIDE DEF state
<1>6. ASSUME me.revision = schedule.revision, Walkable(Current.rule)
      PROVE  NotLate(Promised, next, FiledOnes \union owe, Counted \union skip)
  <2> SUFFICES ASSUME NEW t \in Promised, t < next
               PROVE  t \in FiledOnes \union owe \/ t \in Counted \union skip
    BY DEF NotLate
  <2>1. defn = Current  BY <1>6 DEF Current
  <2>2. t \in Occurrences(defn.rule) /\ t \in Nat /\ since \in Nat
    BY <1>1, <2>1, PromisedFacts, InstantsFacts
  <2>3. t <= me.now  BY <1>1, <1>6, <2>1, <2>2, NothingBeforeNext
  <2>4. CASE t <= since
    BY <1>6, <2>4 DEF FoundInv, SettledInv, RowSettles, Settles
  <2>5. CASE ~(t <= since)
    <3> DEFINE owed == Between(defn.rule, since, me.now)
    <3>1. t \in owed  BY <2>2, <2>3, <2>5 DEF Between
    <3>2. (owe = {} => owed = {}) /\ (owe # {} => skip = owed \ owe)
      BY <1>1, <1>6, <2>1, OweFacts
    <3> HIDE DEF owed, owe, skip
    <3> QED BY <3>1, <3>2
  <2> QED BY <2>4, <2>5
<1>7. RowNotLate'
  BY <1>2 DEF FoundInv, RowNotLate, NotLate, PromisesKept
<1>8. ASSUME NEW e \in Dispatchers PROVE LaneNotLate(e)'
  <2>1. CASE e = d
    <3> HIDE DEF owe, skip, next
    <3>1. ASSUME me.revision = schedule.revision, Walkable(Current.rule)
          PROVE  NotLate(Promised', next, FiledOnes' \union owe, Counted' \union skip)
      <4>1. /\ FiledOnes \union owe \subseteq FiledOnes' \union owe
            /\ Counted \union skip \subseteq Counted' \union skip
        BY <1>2 DEF PromisesKept
      <4> QED BY <1>2, <1>6, <3>1, <4>1, NotLateMore DEF PromisesKept
    <3> QED BY <1>2, <1>4, <1>5, <2>1, <3>1 DEF LaneNotLate, PromisesKept
  <2>2. CASE e # d  BY <1>2, <1>5, <2>2, LaneStaysNotLate DEF FoundInv
  <2> QED BY <2>1, <2>2
<1> QED BY <1>7, <1>8

LEMMA FileIsNotLate ==
  ASSUME FoundInv, NEW d \in Dispatchers, FileOccurrence(d)
  PROVE  RowNotLate' /\ \A e \in Dispatchers : LaneNotLate(e)'
<1> DEFINE me    == dispatcher[d]
           t     == Earliest(me.due)
           rest  == me.due \ {t}
           state == [me EXCEPT !.at = AfterLoad(rest), !.due = rest, !.missed = {}]
<1>1. TypeOK /\ me.at = "file"  BY DEF FoundInv, SettledInv, FileOccurrence
<1>2. /\ FiledOnes' = FiledOnes \union {t}
      /\ Counted \union me.missed \subseteq Counted'
      /\ PromisesKept /\ schedule' = schedule
      /\ state.due = rest /\ state.missed = {} /\ state.next = me.next
      /\ state.revision = me.revision
      /\ \A e \in Dispatchers : dispatcher'[e] = IF e = d THEN state ELSE dispatcher[e]
  BY <1>1, FilingFiles
<1> HIDE DEF state
<1>3. RowNotLate'
  BY <1>2 DEF FoundInv, RowNotLate, NotLate, PromisesKept
<1>4. ASSUME NEW e \in Dispatchers PROVE LaneNotLate(e)'
  <2>1. CASE e = d
    <3>1. ASSUME me.revision = schedule.revision, Walkable(Current.rule)
          PROVE  NotLate(Promised', me.next, FiledOnes' \union rest, Counted' \union {})
      <4>1. NotLate(Promised, me.next, FiledOnes \union me.due, Counted \union me.missed)
        BY <1>1, <3>1 DEF FoundInv, LaneNotLate
      <4>2. /\ FiledOnes \union me.due \subseteq FiledOnes' \union rest
            /\ Counted \union me.missed \subseteq Counted' \union {}
        BY <1>2
      <4> HIDE DEF me, rest
      <4> QED BY <1>2, <4>1, <4>2, NotLateMore DEF PromisesKept
    <3> QED BY <1>2, <2>1, <3>1 DEF LaneNotLate, PromisesKept
  <2>2. CASE e # d  BY <1>2, <2>2, LaneStaysNotLate DEF FoundInv
  <2> QED BY <2>1, <2>2
<1> QED BY <1>3, <1>4

LEMMA MarkIsNotLate ==
  ASSUME FoundInv, NEW d \in Dispatchers, MarkFired(d)
  PROVE  /\ RowNotLate' /\ \A e \in Dispatchers : LaneNotLate(e)'
         /\ schedule'.deleted = schedule.deleted /\ schedule'.enabled = schedule.enabled
<1> DEFINE me == dispatcher[d]
<1>1. /\ TypeOK /\ DispatchersOK /\ me.at = "mark" /\ me.due = {} /\ schedule \in ScheduleRow
  BY TypeParts, LaneFacts DEF FoundInv, SettledInv, TypesOfParts, MarkFired
<1>2. /\ \A e \in Dispatchers : dispatcher'[e] = IF e = d THEN Idle ELSE dispatcher[e]
      /\ schedule'.revision = schedule.revision
      /\ schedule'.deleted = schedule.deleted /\ schedule'.enabled = schedule.enabled
  BY <1>1 DEF MarkFired, Goto, DispatchersOK, Fired, ScheduleRow
<1>3. PromisesKept  BY <1>2, PromisesFrame DEF MarkFired
<1>4. RowNotLate'
  <2>1. CASE schedule.revision # me.revision
    <3>1. schedule' = schedule  BY <2>1 DEF MarkFired, Fired
    <3> QED BY <1>3, <3>1 DEF FoundInv, RowNotLate, NotLate, PromisesKept
  <2>2. CASE schedule.revision = me.revision
    <3>1. schedule'.next = me.next
      BY <1>1, <2>2 DEF MarkFired, Fired, ScheduleRow
    <3> SUFFICES ASSUME Walkable(Current.rule)
                 PROVE  NotLate(Promised', schedule'.next, FiledOnes', Counted')
      BY <1>3 DEF RowNotLate, PromisesKept
    <3>2. /\ NotLate(Promised, me.next, FiledOnes \union me.due, Counted \union me.missed)
          /\ me.missed = {}
      BY <1>1, <2>2 DEF FoundInv, SettledInv, LaneSettles, LaneNotLate
    <3>3. FiledOnes \union me.due \subseteq FiledOnes' /\ Counted \union me.missed \subseteq Counted'
      BY <1>1, <1>3, <3>2 DEF PromisesKept
    <3> HIDE DEF me
    <3>4. NotLate(Promised, me.next, FiledOnes', Counted')
      BY <3>2, <3>3, NotLateMore
    <3> QED BY <1>3, <3>1, <3>4 DEF PromisesKept
  <2> QED BY <2>1, <2>2
<1>5. ASSUME NEW e \in Dispatchers PROVE LaneNotLate(e)'
  <2>1. CASE e = d  BY <1>2, <2>1 DEF LaneNotLate, Idle
  <2>2. CASE e # d  BY <1>2, <1>3, <2>2, LaneStaysNotLate DEF FoundInv
  <2> QED BY <2>1, <2>2
<1> QED BY <1>2, <1>4, <1>5

LEMMA NextIsFound == FoundInv /\ [Next]_vars => FoundInv'
<1> SUFFICES ASSUME FoundInv, [Next]_vars PROVE FoundInv'
  OBVIOUS
<1>0. /\ SettledInv' /\ TypeOK /\ TypeOK' /\ schedule \in ScheduleRow
      /\ dispatcher \in [Dispatchers -> DispatcherState]
  BY NextSettled, TypeParts DEF FoundInv, SettledInv, TypesOfParts, DispatchersOK
<1>1. CASE UNCHANGED vars \/ Tick \/ CancelSchedule
  <2>1. /\ schedule'.revision = schedule.revision /\ schedule'.next \in {schedule.next, 0}
        /\ UNCHANGED <<definition, run, dispatcher, histories>> /\ OutOfService'
    BY <1>0, <1>1 DEF vars, Tick, CancelSchedule, FoundInv, OutOfService, ScheduleRow
  <2> QED BY <1>0, <2>1, PromisesFrame, ForgettingIsNotLate DEF FoundInv
<1>2. CASE UpdateSchedule
  <2>1. OutOfService'
    BY <1>0, <1>2 DEF UpdateSchedule, Published, OutOfService, ScheduleRow
  <2> QED BY <1>0, <1>2, <2>1, UpdateIsNotLate DEF FoundInv
<1>3. ASSUME NEW r \in Revisions, RevokeRevision(r) PROVE FoundInv'
  <2>1. /\ PromisesKept /\ schedule'.next \in {schedule.next, 0}
        /\ schedule'.deleted = schedule.deleted
        /\ schedule'.enabled \in {schedule.enabled, FALSE}
    BY <1>0, <1>3, RevokeKeepsPromises
  <2>2. dispatcher' = dispatcher  BY <1>3 DEF RevokeRevision
  <2>3. OutOfService'  BY <2>1 DEF FoundInv, OutOfService
  <2> QED BY <1>0, <2>1, <2>2, <2>3, ForgettingIsNotLate DEF FoundInv
<1>4. ASSUME NEW d \in Dispatchers,
             ClaimDue(d) \/ FindStranded(d) \/ LoadUnavailable(d) \/ GiveUp(d) \/ RecoverStranded(d)
      PROVE  FoundInv'
  <2>1. /\ schedule'.revision = schedule.revision /\ schedule'.next \in {schedule.next, 0}
        /\ schedule'.deleted = schedule.deleted /\ schedule'.enabled = schedule.enabled
        /\ UNCHANGED <<definition, run, histories>>
    BY <1>0, <1>4 DEF ClaimDue, FindStranded, LoadUnavailable, GiveUp, RecoverStranded, ScheduleRow
  <2>2. PICK state : Goto(d, state) /\ state.at \notin {"file", "mark"}
    <3>1. dispatcher[d] \in DispatcherState  BY <1>0
    <3>2. [dispatcher[d] EXCEPT !.at = "load", !.now = now].at = "load"
      BY <3>1 DEF DispatcherState
    <3>3. /\ Idle.at = "idle"
          /\ [Idle EXCEPT !.at = "load", !.revision = schedule.revision, !.now = now].at = "load"
          /\ [Idle EXCEPT !.at = "check", !.revision = schedule.revision].at = "check"
      BY DEF Idle
    <3>4. \/ Goto(d, Idle)
          \/ Goto(d, [dispatcher[d] EXCEPT !.at = "load", !.now = now])
          \/ Goto(d, [Idle EXCEPT !.at = "load", !.revision = schedule.revision, !.now = now])
          \/ Goto(d, [Idle EXCEPT !.at = "check", !.revision = schedule.revision])
      BY <1>4 DEF ClaimDue, FindStranded, LoadUnavailable, GiveUp, RecoverStranded
    <3> QED BY <3>2, <3>3, <3>4
  <2>3. \A e \in Dispatchers : \/ dispatcher'[e] = dispatcher[e]
                               \/ dispatcher'[e].at \notin {"file", "mark"}
    BY <1>0, <2>2 DEF Goto
  <2>4. PromisesKept  BY <2>1, PromisesFrame
  <2>5. OutOfService'  BY <2>1 DEF FoundInv, OutOfService
  <2> QED BY <1>0, <2>1, <2>3, <2>4, <2>5, ForgettingIsNotLate DEF FoundInv
<1>5. ASSUME NEW d \in Dispatchers, LoadDefinition(d) \/ FileOccurrence(d) PROVE FoundInv'
  <2>1. schedule' = schedule  BY <1>5 DEF LoadDefinition, FileOccurrence
  <2>2. OutOfService'  BY <2>1 DEF FoundInv, OutOfService
  <2> QED BY <1>0, <1>5, <2>2, LoadIsNotLate, FileIsNotLate DEF FoundInv
<1>6. ASSUME NEW d \in Dispatchers, MarkFired(d) PROVE FoundInv'
  <2>1. /\ RowNotLate' /\ \A e \in Dispatchers : LaneNotLate(e)'
        /\ schedule'.deleted = schedule.deleted /\ schedule'.enabled = schedule.enabled
    BY <1>6, MarkIsNotLate
  <2>2. OutOfService'  BY <2>1 DEF FoundInv, OutOfService
  <2> QED BY <1>0, <2>1, <2>2 DEF FoundInv
<1> QED BY <1>1, <1>2, <1>3, <1>4, <1>5, <1>6 DEF Next, Dispatch

LEMMA InitIsFound == Init => FoundInv
<1> SUFFICES ASSUME Init PROVE FoundInv
  OBVIOUS
<1>1. SettledInv /\ TypeOK  BY InitSettled DEF SettledInv
<1>2. PICK new \in Definitions :
        /\ definition = [r \in Revisions |->
             IF r = 1 THEN PublishedRow(new) ELSE Unpublished]
        /\ schedule = [revision |-> 1, enabled |-> TRUE, deleted |-> FALSE,
                       next |-> NextOccurrence(new.rule, 0), lastFired |-> 0, retired |-> FALSE]
  BY DEF Init
<1>3. Current.rule = new.rule /\ new.rule \in Recurrence
  BY <1>2, ScheduleAssumption, PublishedFacts DEF Current, Revisions
<1>4. RowNotLate
  <2> SUFFICES ASSUME Walkable(new.rule), NEW t \in Promised, t < schedule.next PROVE FALSE
    BY <1>3 DEF RowNotLate, NotLate
  <2>1. t \in Occurrences(new.rule) /\ schedule.next = NextOccurrence(new.rule, 0)
    BY <1>2, <1>3 DEF Promised
  <2>2. t <= 0  BY <1>3, <2>1, NothingBeforeNext, InstantsFacts
  <2>3. t \in Nat /\ t >= 1  BY <1>3, <2>1, RuleFacts, InstantsFacts
  <2> QED BY <2>2, <2>3
<1>5. \A d \in Dispatchers : LaneNotLate(d)
  BY DEF Init, Idle, LaneNotLate
<1>6. OutOfService  BY <1>2 DEF OutOfService
<1> QED BY <1>1, <1>4, <1>5, <1>6 DEF FoundInv

LEMMA FoundInvFinds == FoundInv => OverdueIsFound
<1> SUFFICES ASSUME FoundInv, Overdue
             PROVE  /\ ~schedule.deleted
                    /\ IF schedule.next = 0 THEN ~schedule.retired ELSE schedule.next <= now
  BY DEF OverdueIsFound
<1>1. PICK t \in Promised : t <= now /\ ~Filed(t) /\ t \notin Counted
  BY DEF Overdue
<1>0. Walkable(Current.rule)  BY DEF Overdue
<1>2. ~schedule.deleted  BY DEF Overdue, FoundInv, OutOfService
<1>3. /\ TypeOK /\ t \in Nat /\ t \in Instants /\ now \in Nat /\ schedule.next \in Nat
      /\ schedule.lastFired \in Nat /\ t \notin FiledOnes
  BY <1>1, PromisedFacts, TypeParts, NowIsMoment, InstantsFacts
     DEF FoundInv, SettledInv, TypesOfParts, ScheduleRow, FiledOnes
<1>4. ASSUME schedule.retired PROVE FALSE
  <2>1. CASE t <= schedule.lastFired
    BY <1>0, <1>1, <1>3, <2>1 DEF FoundInv, SettledInv, RowSettles, Settles
  <2>2. CASE t > schedule.lastFired
    BY <1>0, <1>1, <1>3, <1>4, <2>2 DEF FoundInv, SettledInv, RowSettles, Settles
  <2> QED BY <1>3, <2>1, <2>2
<1>5. ASSUME schedule.next # 0 PROVE schedule.next <= now
  <2>1. ~(t < schedule.next)
    BY <1>0, <1>1, <1>3, <1>5 DEF FoundInv, RowNotLate, NotLate
  <2> QED BY <1>1, <1>3, <2>1
<1> QED BY <1>2, <1>4, <1>5

(* Whatever dispatchers give up, stall or overtake each other, and whatever*)
(* is published or revoked meanwhile, an overdue occurrence of a rule the  *)
(* lookups can walk never drops out of sight of both: the poll finds its   *)
(* schedule by the next occurrence, or the sweep by its absence.           *)
THEOREM OverdueStaysInSight == Spec => []OverdueIsFound
<1>1. FoundInv /\ [Next]_vars => FoundInv'  BY NextIsFound
<1> QED BY <1>1, InitIsFound, FoundInvFinds, PTL DEF Spec
=============================================================================

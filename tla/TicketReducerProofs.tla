------------------------- MODULE TicketReducerProofs -------------------------
(*****************************************************************************)
(* Proofs about EventGraph and TicketReducer for every set of nodes, tickets *)
(* and of object ids.                                                        *)
(*                                                                           *)
(* EventGraph: the exact heads and children, and that no signed object is    *)
(* ever refused, are one inductive invariant, GraphInv: an insertion keeps   *)
(* the heads exact because the children map is, the Lamport checks hold      *)
(* because a signed object is later than its parents whether or not these    *)
(* are present, and a head dominates because the checks hold.                *)
(*                                                                           *)
(* TicketReducer: a set of events has one reduction (ReductionUnique), the   *)
(* one reduce computes with its topological sort and its fold                *)
(* (ReduceReduces); an event later than all others is simply applied to it   *)
(* (ReductionAppends); and the reduction of more events shows of every       *)
(* ticket something the lifecycle allows after what the reduction of fewer   *)
(* showed (ReductionFollows), although the additional events may sort before *)
(* the others and turn them into refused ones.                               *)
(*****************************************************************************)
EXTENDS TicketReducer, FiniteSetTheorems, WellFoundedInduction, TLAPS

(* Whatever a node stores or shows has been signed.                        *)
OnlySigned == \A n \in Node : store[n] \subseteq born /\ events[n] \subseteq store[n]

(* A signed object is later than each of its parents, which are signed.    *)
SignedLater ==
  \A e \in born : /\ lamport[e] >= 1
                  /\ \A p \in parents[e] : p \in born /\ lamport[p] < lamport[e]

(* An id that is not signed has no content yet.                            *)
UnsignedEmpty == \A e \in Id \ born : parents[e] = {}

(* Every inserted event has a head that is at least as late.               *)
HeadsDominate ==
  \A n \in Node : \A e \in events[n] : \E h \in heads[n] : lamport[e] <= lamport[h]

(* The inductive invariant of the graph.                                     *)
GraphInv ==
  /\ TypeOK
  /\ OnlySigned
  /\ SignedLater
  /\ UnsignedEmpty
  /\ ChildrenExact
  /\ HeadsExact
  /\ HeadsDominate

(* The initial, empty graph satisfies the invariant.                       *)
LEMMA GraphInitInv == GraphInit => GraphInv
BY DEF GraphInit, GraphInv, TypeOK, OnlySigned, SignedLater, UnsignedEmpty,
       ChildrenExact, HeadsExact, HeadsDominate

(* Signing an object over the heads and writing it to disk.                *)
LEMMA SignAndPutInv ==
  ASSUME GraphInv, NEW n \in Node, NEW e \in Id, SignAndPut(n, e)
  PROVE  GraphInv'
<1> USE DEF graph
<1>0. e \notin born /\ heads[n] \subseteq born
  BY DEF SignAndPut, GraphInv, TypeOK, OnlySigned, HeadsExact
<1>1. PICK l \in NextLamport(n) : lamport' = [lamport EXCEPT ![e] = l]
  BY DEF SignAndPut
<1>2. l \in Nat /\ l >= 1 /\ \A h \in heads[n] : lamport[h] < l
  BY <1>1 DEF NextLamport, GraphInv, TypeOK
<1>3. TypeOK'
  BY <1>1, <1>2 DEF SignAndPut, GraphInv, TypeOK
<1>4. OnlySigned'
  BY DEF SignAndPut, GraphInv, TypeOK, OnlySigned
<1>5. \A x \in born : parents'[x] = parents[x] /\ lamport'[x] = lamport[x]
  BY <1>0, <1>1 DEF SignAndPut, GraphInv, TypeOK
<1>6. parents'[e] = heads[n] /\ lamport'[e] = l
  BY <1>1, <1>2 DEF SignAndPut, GraphInv, TypeOK
<1>7. SignedLater'
  BY <1>0, <1>2, <1>5, <1>6 DEF SignAndPut, GraphInv, SignedLater
<1>8. UnsignedEmpty'
  BY DEF SignAndPut, GraphInv, TypeOK, UnsignedEmpty
<1>9. \A m \in Node : \A x \in events[m] : x \in born
  BY DEF GraphInv, OnlySigned
<1>10. ChildrenExact'
  BY <1>5, <1>9 DEF SignAndPut, GraphInv, ChildrenExact
<1>11. HeadsExact'
  BY <1>5, <1>9 DEF SignAndPut, GraphInv, HeadsExact
<1>12. HeadsDominate'
  <2>1. \A m \in Node : \A h \in heads[m] : h \in born
    BY <1>9 DEF GraphInv, HeadsExact
  <2> QED
    BY <1>5, <1>9, <2>1 DEF SignAndPut, GraphInv, HeadsDominate
<1> QED
  BY <1>3, <1>4, <1>7, <1>8, <1>10, <1>11, <1>12 DEF GraphInv

(* Storing an object received from another node.                           *)
LEMMA PutInv ==
  ASSUME GraphInv, NEW n \in Node, NEW e \in Id, Put(n, e)
  PROVE  GraphInv'
BY DEF Put, graph, objects, GraphInv, TypeOK, OnlySigned, SignedLater, UnsignedEmpty,
       ChildrenExact, HeadsExact, HeadsDominate

(* The Lamport checks hold for every signed object that is not present.    *)
LEMMA ChecksHold == GraphInv => NeverRejected
BY DEF GraphInv, TypeOK, OnlySigned, SignedLater, ChildrenExact, NeverRejected,
       LamportRespected

(* Linking a signed object in, whichever of its parents and children are   *)
(* already present.                                                        *)
LEMMA LinkInv ==
  ASSUME GraphInv, NEW n \in Node, NEW e \in store[n], e \notin events[n],
         LamportRespected(n, e), Link(n, e), UNCHANGED <<objects, store>>
  PROVE  GraphInv'
<1> USE DEF objects
<1>1. e \in Id /\ e \in born /\ parents[e] \subseteq Id
  BY DEF GraphInv, TypeOK, OnlySigned
<1>2. TypeOK'
  BY <1>1 DEF Link, GraphInv, TypeOK
<1>3. OnlySigned' /\ SignedLater' /\ UnsignedEmpty'
  BY DEF Link, GraphInv, TypeOK, OnlySigned, SignedLater, UnsignedEmpty
<1>4. /\ events'[n] = events[n] \cup {e}
      /\ heads'[n] = (heads[n] \ parents[e])
                       \cup (IF children[n][e] = {} THEN {e} ELSE {})
      /\ \A i \in Id : children'[n][i] = IF i \in parents[e]
                                         THEN children[n][i] \cup {e}
                                         ELSE children[n][i]
  BY DEF Link, GraphInv, TypeOK
<1>5. \A m \in Node : m # n => /\ events'[m] = events[m]
                               /\ heads'[m] = heads[m]
                               /\ children'[m] = children[m]
  BY DEF Link, GraphInv, TypeOK
<1>6. e \notin parents[e]
  BY <1>1 DEF GraphInv, TypeOK, SignedLater
<1>7. ChildrenExact'
  <2>1. \A i \in Id : children[n][i] = {c \in events[n] : i \in parents[c]}
    BY DEF GraphInv, ChildrenExact
  <2>2. ASSUME NEW i \in Id
        PROVE  children'[n][i] = {c \in events'[n] : i \in parents'[c]}
    <3>0. parents' = parents
      OBVIOUS
    <3>1. CASE i \in parents[e]
      <4>1. {c \in events[n] \cup {e} : i \in parents[c]}
              = {c \in events[n] : i \in parents[c]} \cup {e}
        BY <3>1
      <4> QED BY <1>4, <2>1, <3>0, <3>1, <4>1
    <3>2. CASE i \notin parents[e]
      <4>1. {c \in events[n] \cup {e} : i \in parents[c]} = {c \in events[n] : i \in parents[c]}
        BY <3>2
      <4> QED BY <1>4, <2>1, <3>0, <3>2, <4>1
    <3> QED
      BY <3>1, <3>2
  <2>3. ASSUME NEW m \in Node, m # n, NEW i \in Id
        PROVE  children'[m][i] = {c \in events'[m] : i \in parents'[c]}
    BY <1>5, <2>3 DEF GraphInv, ChildrenExact
  <2> QED
    BY <2>2, <2>3 DEF ChildrenExact
<1>8. HeadsExact'
  <2>1. children[n][e] = {c \in events[n] : e \in parents[c]}
    BY <1>1 DEF GraphInv, ChildrenExact
  <2>2. heads[n] = {x \in events[n] : \A c \in events[n] : x \notin parents[c]}
    BY DEF GraphInv, HeadsExact
  <2>3. heads'[n] = {x \in events'[n] : \A c \in events'[n] : x \notin parents'[c]}
    BY <1>4, <1>6, <2>1, <2>2
  <2> QED
    BY <1>5, <2>3 DEF GraphInv, HeadsExact
<1>9. HeadsDominate'
  <2>1. SUFFICES ASSUME NEW x \in events'[n]
                 PROVE  \E h \in heads'[n] : lamport[x] <= lamport[h]
    BY <1>5 DEF GraphInv, HeadsDominate
  <2>2. \A y \in Id : lamport[y] \in Nat
    BY DEF GraphInv, TypeOK
  <2>3. events[n] \subseteq Id /\ heads[n] \subseteq Id
    BY DEF GraphInv, TypeOK
  <2>4. \A p \in parents[e] : lamport[p] < lamport[e]
    BY <1>1 DEF GraphInv, SignedLater
  <2>5. \A y \in events[n] : \E h \in heads[n] : lamport[y] <= lamport[h]
    BY DEF GraphInv, HeadsDominate
  <2>6. CASE children[n][e] = {}
    <3>1. heads'[n] = (heads[n] \ parents[e]) \cup {e}
      BY <1>4, <2>6
    <3>2. CASE x = e
      BY <3>1, <3>2, <1>1, <2>2
    <3>3. CASE x \in events[n]
      <4>1. PICK h \in heads[n] : lamport[x] <= lamport[h]
        BY <3>3, <2>5
      <4> QED
        BY <4>1, <3>1, <3>3, <1>1, <2>2, <2>3, <2>4
    <3> QED
      BY <3>2, <3>3, <1>4
  <2>7. CASE children[n][e] # {}
    <3>1. heads'[n] = heads[n] \ parents[e]
      BY <1>4, <2>7
    <3>2. PICK c \in children[n][e] : TRUE
      BY <2>7
    <3>3. c \in events[n] /\ lamport[e] < lamport[c]
      BY <3>2, <1>1 DEF GraphInv, ChildrenExact, LamportRespected
    <3>4. PICK g \in heads[n] : lamport[c] <= lamport[g]
      BY <3>3, <2>5
    <3>5. g \in heads'[n] /\ lamport[e] < lamport[g]
      BY <3>1, <3>3, <3>4, <1>1, <2>2, <2>3, <2>4
    <3>6. CASE x = e
      BY <3>5, <3>6, <1>1, <2>2, <2>3
    <3>7. CASE x \in events[n]
      <4>1. PICK h \in heads[n] : lamport[x] <= lamport[h]
        BY <3>7, <2>5
      <4>2. CASE h \in parents[e]
        BY <4>1, <4>2, <3>5, <3>7, <1>1, <2>2, <2>3, <2>4
      <4> QED
        BY <4>1, <4>2, <3>1
    <3> QED
      BY <3>6, <3>7, <1>4
  <2> QED
    BY <2>6, <2>7
<1> QED
  BY <1>2, <1>3, <1>7, <1>8, <1>9 DEF GraphInv

(* Losing the memory of a node.                                            *)
LEMMA CrashInv ==
  ASSUME GraphInv, NEW n \in Node, Crash(n)
  PROVE  GraphInv'
BY DEF Crash, objects, GraphInv, TypeOK, OnlySigned, SignedLater, UnsignedEmpty,
       ChildrenExact, HeadsExact, HeadsDominate

(* Every step keeps the invariant.                                         *)
LEMMA GraphStepInv == GraphInv /\ [GraphNext]_graphVars => GraphInv'
<1> SUFFICES ASSUME GraphInv, [GraphNext]_graphVars PROVE GraphInv'
  OBVIOUS
<1>1. CASE UNCHANGED graphVars
  BY <1>1 DEF graphVars, objects, graph, GraphInv, TypeOK, OnlySigned, SignedLater,
              UnsignedEmpty, ChildrenExact, HeadsExact, HeadsDominate
<1>2. ASSUME NEW n \in Node, NEW e \in Id, SignAndPut(n, e) PROVE GraphInv'
  BY <1>2, SignAndPutInv
<1>3. ASSUME NEW n \in Node, NEW e \in Id, Put(n, e) PROVE GraphInv'
  BY <1>3, PutInv
<1>4. ASSUME NEW n \in Node, NEW e \in store[n], Insert(n, e) PROVE GraphInv'
  <2>1. CASE UNCHANGED graph
    BY <1>4, <2>1 DEF Insert, graph, objects, GraphInv, TypeOK, OnlySigned, SignedLater,
                 UnsignedEmpty, ChildrenExact, HeadsExact, HeadsDominate
  <2>2. CASE e \notin events[n] /\ LamportRespected(n, e) /\ Link(n, e)
    BY <1>4, <2>2, LinkInv DEF Insert
  <2> QED
    BY <1>4, <2>1, <2>2 DEF Insert
<1>5. ASSUME NEW n \in Node, Crash(n) PROVE GraphInv'
  BY <1>5, CrashInv
<1> QED
  BY <1>1, <1>2, <1>3, <1>4, <1>5 DEF GraphNext

(* The invariant implies the properties the model checker checks.          *)
LEMMA GraphInvImplies ==
  GraphInv => TypeOK /\ HeadsExact /\ ChildrenExact /\ NeverRejected /\ AppendIsLast
<1>1. ASSUME GraphInv PROVE AppendIsLast
  <2> SUFFICES ASSUME NEW n \in Node, NEW e \in events[n], NEW l \in NextLamport(n)
               PROVE  lamport[e] < l
    BY DEF AppendIsLast
  <2>1. PICK h \in heads[n] : lamport[e] <= lamport[h]
    BY <1>1 DEF GraphInv, HeadsDominate
  <2>2. lamport[e] \in Nat /\ lamport[h] \in Nat /\ l \in Nat /\ lamport[h] < l
    BY <1>1 DEF GraphInv, TypeOK, NextLamport
  <2> QED
    BY <2>1, <2>2
<1> QED
  BY <1>1, ChecksHold DEF GraphInv

(* A signed object never changes and never leaves a store.                 *)
LEMMA GraphStepImmutable ==
  GraphInv /\ [GraphNext]_graphVars =>
    [ /\ \A n \in Node : store[n] \subseteq store'[n]
      /\ \A e \in born : parents'[e] = parents[e] /\ lamport'[e] = lamport[e]
    ]_graphVars
<1> SUFFICES ASSUME GraphInv, GraphNext
             PROVE  /\ \A n \in Node : store[n] \subseteq store'[n]
                    /\ \A e \in born : parents'[e] = parents[e] /\ lamport'[e] = lamport[e]
  OBVIOUS
<1> USE DEF GraphInv, TypeOK, objects
<1>1. ASSUME NEW n \in Node, NEW e \in Id, SignAndPut(n, e)
      PROVE  /\ \A m \in Node : store[m] \subseteq store'[m]
             /\ \A x \in born : parents'[x] = parents[x] /\ lamport'[x] = lamport[x]
  BY <1>1 DEF SignAndPut
<1>2. ASSUME NEW n \in Node, NEW e \in Id, Put(n, e)
      PROVE  /\ \A m \in Node : store[m] \subseteq store'[m]
             /\ \A x \in born : parents'[x] = parents[x] /\ lamport'[x] = lamport[x]
  BY <1>2 DEF Put
<1>3. ASSUME NEW n \in Node, Crash(n) \/ \E e \in store[n] : Insert(n, e)
      PROVE  /\ \A m \in Node : store[m] \subseteq store'[m]
             /\ \A x \in born : parents'[x] = parents[x] /\ lamport'[x] = lamport[x]
  BY <1>3 DEF Insert, Crash
<1> QED
  BY <1>1, <1>2, <1>3 DEF GraphNext

(* The inductive invariant holds in every state.                           *)
THEOREM GraphInvariant == GraphSpec => []GraphInv
<1> QED
  BY GraphInitInv, GraphStepInv, PTL DEF GraphSpec

(* EventGraph::insert keeps the heads exact whatever the arrival order.    *)
THEOREM HeadsAlwaysExact == GraphSpec => []HeadsExact
BY GraphInvariant, GraphInvImplies, PTL

(* No signed object is ever refused by the Lamport checks.                 *)
THEOREM SignedNeverRejected == GraphSpec => []NeverRejected
BY GraphInvariant, GraphInvImplies, PTL

(* An append is later than everything its node has inserted.               *)
THEOREM AppendAlwaysLast == GraphSpec => []AppendIsLast
BY GraphInvariant, GraphInvImplies, PTL

-------------------------------------------------------------------------------
(* Induction over the natural numbers, and recursion up to one of them, in   *)
(* the form that needs no operator: a nonempty set of naturals has a least   *)
(* element, and a step given as a function can be iterated.                  *)

(* A nonempty set of naturals has a least element.                           *)
LEMMA LeastNat ==
  ASSUME NEW T, T \subseteq Nat, T # {}
  PROVE  \E m \in T : \A k \in T : m =< k
<1>1. PICK m \in T : \A k \in T : ~(<<k, m>> \in OpToRel(<, Nat))
  BY NatLessThanWellFounded, WFMin
<1>2. ASSUME NEW k \in T PROVE m =< k
  <2>1. ~(<<k, m>> \in {ss \in Nat \X Nat : ss[1] < ss[2]})
    BY <1>1 DEF OpToRel
  <2> QED BY <2>1
<1> QED BY <1>2

(* step[k] is the k-th step of a recursion over X.                           *)
IsStep(step, N, X) == step \in [1 .. N -> [X -> X]]

(* The steps can be iterated: the recursion has a value at each of 0 .. N.   *)
LEMMA Iteration ==
  ASSUME NEW N \in Nat, NEW X, NEW x0 \in X, NEW step, IsStep(step, N, X)
  PROVE  \E f \in [0 .. N -> X] :
           f[0] = x0 /\ \A k \in 1 .. N : f[k] = step[k][f[k - 1]]
<1> DEFINE Iterates(f, m) == /\ f \in [0 .. m -> X]
                             /\ f[0] = x0
                             /\ \A k \in 1 .. m : f[k] = step[k][f[k - 1]]
           T == {m \in 0 .. N : ~\E f : Iterates(f, m)}
<1>1. T = {}
  <2> SUFFICES ASSUME T # {} PROVE FALSE
    OBVIOUS
  <2>1. PICK m \in T : \A k \in T : m =< k
    <3>1. T \subseteq Nat
      OBVIOUS
    <3> HIDE DEF T
    <3> QED BY <3>1, LeastNat
  <2>2. CASE m = 0
    <3>1. Iterates([k \in 0 .. 0 |-> x0], 0)
      OBVIOUS
    <3> QED BY <2>1, <2>2, <3>1
  <2>3. CASE m # 0
    <3>1. m - 1 \in 0 .. N /\ m \in 1 .. N /\ m - 1 \notin T
      <4>1. m \in 0 .. N
        BY <2>1
      <4>2. m - 1 \in 0 .. N /\ m \in 1 .. N /\ ~(m =< m - 1)
        BY <2>3, <4>1
      <4> HIDE DEF T
      <4> QED BY <2>1, <4>2
    <3>2. PICK f : Iterates(f, m - 1)
      <4> HIDE DEF Iterates
      <4> QED BY <3>1
    <3> DEFINE g == [k \in 0 .. m |-> IF k = m THEN step[m][f[m - 1]] ELSE f[k]]
    <3>3. step[m][f[m - 1]] \in X
      <4>1. f[m - 1] \in X
        BY <3>1, <3>2
      <4> QED BY <3>1, <4>1 DEF IsStep
    <3>4. g \in [0 .. m -> X]
      <4>1. \A k \in 0 .. m : k # m => f[k] \in X
        BY <3>1, <3>2
      <4> QED BY <3>3, <4>1
    <3>5. g[0] = x0
      BY <2>3, <3>1, <3>2
    <3>6. ASSUME NEW k \in 1 .. m PROVE g[k] = step[k][g[k - 1]]
      <4>1. CASE k = m
        BY <3>1, <4>1
      <4>2. CASE k # m
        BY <3>1, <3>2, <4>2
      <4> QED BY <4>1, <4>2
    <3>7. Iterates(g, m)
      BY <3>4, <3>5, <3>6
    <3> QED BY <2>1, <3>7
  <2> QED BY <2>2, <2>3
<1>2. PICK f : Iterates(f, N)
  <2>1. N \in 0 .. N
    OBVIOUS
  <2> HIDE DEF Iterates
  <2> QED BY <1>1, <2>1
<1> QED BY <1>2

-------------------------------------------------------------------------------
(* The order of topological_sort is a strict total order of the ids.         *)
Ordered == lamport \in [Id -> Nat]

(* The order is by Lamport time and, for equal times, by id: it is total     *)
(* because ids are ordered.                                                  *)
LEMMA BeforeIsOrder ==
  ASSUME Ordered
  PROVE  /\ \A e \in Id : ~Before(e, e)
         /\ \A e, f \in Id : e = f \/ Before(e, f) \/ Before(f, e)
         /\ \A e, f \in Id : Before(e, f) => ~Before(f, e)
         /\ \A e, f, g \in Id : Before(e, f) /\ Before(f, g) => Before(e, g)
<1>1. \A e \in Id : e \in Nat /\ lamport[e] \in Nat
  BY IdsAreOrdered DEF Ordered
<1> QED BY <1>1 DEF Before

(* A nonempty set of ids has a first one.                                    *)
LEMMA FirstId ==
  ASSUME Ordered, NEW T, T \subseteq Id, T # {}
  PROVE  \E m \in T : \A e \in T : e = m \/ Before(m, e)
<1>1. \A e \in Id : e \in Nat /\ lamport[e] \in Nat
  BY IdsAreOrdered DEF Ordered
<1> DEFINE L == {lamport[e] : e \in T}
<1>2. PICK l \in L : \A k \in L : l =< k
  <2>1. L \subseteq Nat /\ L # {}
    BY <1>1
  <2> HIDE DEF L
  <2> QED BY <2>1, LeastNat
<1> DEFINE U == {e \in T : lamport[e] = l}
<1>3. PICK m \in U : \A e \in U : m =< e
  <2>1. U \subseteq Nat /\ U # {}
    BY <1>1, <1>2
  <2> HIDE DEF U
  <2> QED BY <2>1, LeastNat
<1>4. ASSUME NEW e \in T PROVE e = m \/ Before(m, e)
  <2>1. lamport[m] = l /\ l =< lamport[e] /\ lamport[e] \in Nat /\ l \in Nat /\ e \in Nat /\ m \in Nat
    BY <1>1, <1>2, <1>3
  <2>2. CASE lamport[e] = l
    <3>1. m =< e
      BY <1>3, <2>2
    <3> QED BY <2>1, <2>2, <3>1 DEF Before
  <2>3. CASE lamport[e] # l
    BY <2>1, <2>3 DEF Before
  <2> QED BY <2>2, <2>3
<1> QED BY <1>3, <1>4

(* A nonempty finite set of ids has a last one.                              *)
LEMMA LastId ==
  ASSUME Ordered, NEW S, S \subseteq Id, S # {}, IsFiniteSet(S)
  PROVE  \E m \in S : \A e \in S : e = m \/ Before(e, m)
<1> DEFINE Last(m, T) == m \in T /\ \A e \in T : e = m \/ Before(e, m)
           Bad == {T \in SUBSET S : T # {} /\ ~\E m : Last(m, T)}
           Sizes == {Cardinality(T) : T \in Bad}
<1>0. \A T \in SUBSET S : IsFiniteSet(T) /\ Cardinality(T) \in Nat
  BY FS_Subset, FS_CardinalityType
<1>1. Bad = {}
  <2> SUFFICES ASSUME Bad # {} PROVE FALSE
    OBVIOUS
  <2>1. PICK c \in Sizes : \A k \in Sizes : c =< k
    <3>1. Sizes \subseteq Nat /\ Sizes # {}
      BY <1>0
    <3> HIDE DEF Sizes
    <3> QED BY <3>1, LeastNat
  <2>2. PICK T \in Bad : c = Cardinality(T)
    BY <2>1
  <2>3. PICK x \in T : TRUE
    BY <2>2
  <2>4. T \subseteq S /\ T \subseteq Id /\ T \ {x} \in SUBSET S
    BY <2>2
  <2>5. Cardinality(T \ {x}) = Cardinality(T) - 1
    BY <1>0, <2>2, <2>3, FS_RemoveElement
  <2>6. T \ {x} \notin Bad
    <3>1. Cardinality(T \ {x}) \in Nat /\ Cardinality(T) \in Nat
      BY <1>0, <2>4
    <3>2. ASSUME T \ {x} \in Bad PROVE FALSE
      <4>1. Cardinality(T \ {x}) \in Sizes
        BY <3>2
      <4>2. c =< Cardinality(T \ {x})
        BY <2>1, <4>1
      <4> QED BY <2>2, <2>5, <3>1, <4>2
    <3> QED BY <3>2
  <2>7. CASE T \ {x} = {}
    <3>1. Last(x, T)
      BY <2>3, <2>7
    <3> QED BY <2>2, <3>1
  <2>8. CASE T \ {x} # {}
    <3>1. PICK m : Last(m, T \ {x})
      BY <2>4, <2>6, <2>8
    <3>2. Last(m, T) \/ Last(x, T)
      BY <2>3, <2>4, <3>1, BeforeIsOrder
    <3> QED BY <2>2, <3>2
  <2> QED BY <2>7, <2>8
<1>2. S \in SUBSET S /\ S \notin Bad
  BY <1>1
<1> QED BY <1>2

-------------------------------------------------------------------------------
(* What apply_event does to an aggregate, and to a whole state.              *)
Aggregate ==
  {NoTicket} \cup [state : TicketState, revision : Nat,
                   entries : Seq((EntryKind \cup {"SHELL_ENDED"}) \X Item)]

(* What TicketStateStore can hold.                                           *)
TicketStates == [Ticket -> Aggregate]

(* An entry of a ticket: its kind and the item it is about.                  *)
EntryOf == (EntryKind \cup {"SHELL_ENDED"}) \X Item

(* The two ways a ticket is updated, as records.                             *)
LEMMA AggregateUpdates ==
  ASSUME NEW s, NEW r, NEW l, NEW agg, agg = [state |-> s, revision |-> r, entries |-> l],
         NEW v
  PROVE  /\ \A q : [agg EXCEPT !.revision = v, !.entries = q]
                     = [state |-> s, revision |-> v, entries |-> q]
         /\ \A q : [agg EXCEPT !.state = q, !.revision = v]
                     = [state |-> q, revision |-> v, entries |-> l]
<1>1. ASSUME NEW q
      PROVE  [agg EXCEPT !.revision = v, !.entries = q]
               = [state |-> s, revision |-> v, entries |-> q]
  <2> DEFINE x == [agg EXCEPT !.revision = v]
  <2>1. x = [state |-> s, revision |-> v, entries |-> l]
    OBVIOUS
  <2>2. [agg EXCEPT !.revision = v, !.entries = q] = [x EXCEPT !.entries = q]
    OBVIOUS
  <2> HIDE DEF x
  <2>3. [x EXCEPT !.entries = q] = [state |-> s, revision |-> v, entries |-> q]
    BY <2>1
  <2> QED BY <2>2, <2>3
<1>2. ASSUME NEW q
      PROVE  [agg EXCEPT !.state = q, !.revision = v]
               = [state |-> q, revision |-> v, entries |-> l]
  <2> DEFINE x == [agg EXCEPT !.state = q]
  <2>1. x = [state |-> q, revision |-> r, entries |-> l]
    OBVIOUS
  <2>2. [agg EXCEPT !.state = q, !.revision = v] = [x EXCEPT !.revision = v]
    OBVIOUS
  <2> HIDE DEF x
  <2>3. [x EXCEPT !.revision = v] = [state |-> q, revision |-> v, entries |-> l]
    BY <2>1
  <2> QED BY <2>2, <2>3
<1> QED BY <1>1, <1>2

(* The fields of an aggregate that exists.                                   *)
LEMMA AggregateFields ==
  ASSUME NEW agg \in Aggregate, agg # NoTicket
  PROVE  /\ agg = [state |-> agg.state, revision |-> agg.revision, entries |-> agg.entries]
         /\ agg.state \in TicketState /\ agg.revision \in Nat /\ agg.entries \in Seq(EntryOf)
<1>1. agg \in [state : TicketState, revision : Nat, entries : Seq(EntryOf)]
  BY DEF Aggregate, EntryOf
<1> QED BY <1>1

(* add_event keeps the ticket state of the aggregate.                        *)
LEMMA AddType ==
  ASSUME NEW agg \in Aggregate, agg # NoTicket, NEW entry \in EntryOf
  PROVE  Add(agg, entry) \in Aggregate /\ Add(agg, entry).state = agg.state
<1> DEFINE list == IF Has(agg, entry) THEN agg.entries ELSE Append(agg.entries, entry)
<1>1. list \in Seq(EntryOf)
  BY AggregateFields
<1>2. Add(agg, entry) = [agg EXCEPT !.revision = agg.revision + 1, !.entries = list]
  BY DEF Add
<1> HIDE DEF list
<1>3. Add(agg, entry)
        = [state |-> agg.state, revision |-> agg.revision + 1, entries |-> list]
  <2>1. agg = [state |-> agg.state, revision |-> agg.revision, entries |-> agg.entries]
    BY AggregateFields
  <2> DEFINE s == agg.state
             r == agg.revision
             l == agg.entries
  <2>2. agg = [state |-> s, revision |-> r, entries |-> l]
    BY <2>1
  <2>3. Add(agg, entry) = [agg EXCEPT !.revision = r + 1, !.entries = list]
    BY <1>2
  <2> HIDE DEF s, r, l
  <2>4. Add(agg, entry) = [state |-> s, revision |-> r + 1, entries |-> list]
    BY <2>2, <2>3, AggregateUpdates
  <2> QED BY <2>4 DEF s, r
<1> QED BY <1>1, <1>3, AggregateFields DEF Aggregate, EntryOf

(* An aggregate stays one, and no event brings a ticket back to OPEN or out  *)
(* of CLOSED.                                                                *)
LEMMA AppliedType ==
  ASSUME NEW agg \in Aggregate, NEW p \in Payload, Accepts(agg, p)
  PROVE  /\ Applied(agg, p) \in Aggregate
         /\ p.kind = "CREATED" => agg = NoTicket /\ Applied(agg, p).state = "OPEN"
         /\ p.kind = "STATUS" => /\ agg # NoTicket /\ p.new_state \in TicketState
                                 /\ can_transition_to(agg.state, p.new_state)
                                 /\ Applied(agg, p).state = p.new_state
         /\ p.kind \notin {"CREATED", "STATUS"} =>
              agg # NoTicket /\ Applied(agg, p).state = agg.state
<1>1. CASE p \in [kind : {"CREATED"}, ticket : Ticket]
  <2>1. p.kind = "CREATED"
    BY <1>1
  <2>2. agg = NoTicket
    BY <2>1, Zenon DEF Accepts
  <2>3. Applied(agg, p) = [state |-> "OPEN", revision |-> 1, entries |-> <<>>]
    BY <2>1 DEF Applied, EntryKind
  <2>4. <<>> \in Seq(EntryOf) /\ "OPEN" \in TicketState
    BY DEF TicketState
  <2>5. Applied(agg, p) \in Aggregate
    BY <2>3, <2>4 DEF Aggregate, EntryOf
  <2> QED BY <2>1, <2>2, <2>3, <2>5
<1>2. CASE p \in [kind : {"STATUS"}, ticket : Ticket, new_state : TicketState]
  <2>1. p.kind = "STATUS" /\ p.kind # "CREATED" /\ p.new_state \in TicketState
    BY <1>2
  <2>2. agg # NoTicket /\ can_transition_to(agg.state, p.new_state)
    BY <2>1, Zenon DEF Accepts
  <2>3. Applied(agg, p) = [agg EXCEPT !.state = p.new_state, !.revision = agg.revision + 1]
    BY <2>1 DEF Applied, EntryKind
  <2>4. Applied(agg, p) = [state |-> p.new_state, revision |-> agg.revision + 1,
                           entries |-> agg.entries]
    BY <2>2, <2>3, AggregateFields, AggregateUpdates
  <2>5. Applied(agg, p) \in Aggregate
    BY <2>1, <2>2, <2>4, AggregateFields DEF Aggregate, EntryOf
  <2> QED BY <2>1, <2>2, <2>4, <2>5
<1>3. CASE p \in [kind : EntryKind \cup {"SHELL_ENDED"}, ticket : Ticket, item : Item]
  <2>1. agg # NoTicket /\ p.kind \notin {"CREATED", "STATUS"}
    BY <1>3 DEF Accepts, EntryKind
  <2>2. <<p.kind, p.item>> \in EntryOf
    BY <1>3 DEF EntryOf
  <2>3. Applied(agg, p) = agg \/ Applied(agg, p) = Add(agg, <<p.kind, p.item>>)
    BY <1>3, <2>1 DEF Applied, EntryKind
  <2> QED BY <2>1, <2>2, <2>3, AddType
<1> QED BY <1>1, <1>2, <1>3 DEF Payload

(* apply_event leaves a state, whether or not it accepts the event.          *)
LEMMA ApplyType ==
  ASSUME NEW x \in TicketStates, NEW e, payload[e] \in Payload
  PROVE  apply_event(x, e) \in TicketStates
<1> DEFINE p == payload[e]
<1>1. p.ticket \in Ticket
  BY DEF Payload
<1>2. x[p.ticket] \in Aggregate
  BY <1>1 DEF TicketStates
<1>3. Accepts(x[p.ticket], p) => Applied(x[p.ticket], p) \in Aggregate
  BY <1>2, AppliedType
<1> QED BY <1>1, <1>3 DEF apply_event, TicketStates

(* The store starts empty.                                                   *)
LEMMA EmptyType == EmptyState \in TicketStates
BY DEF EmptyState, TicketStates, Aggregate

-------------------------------------------------------------------------------
(* The reduction of a set of events, without the algorithm that computes it: *)
(* h gives the state after each event when the events are applied in their   *)
(* order, and x is the state after the last.                                 *)
NextIn(S, d, e) == Before(d, e) /\ \A c \in S : ~(Before(d, c) /\ Before(c, e))

(* h follows apply_event from each event of S to the next.                   *)
Trace(S, h) ==
  /\ h \in [S -> TicketStates]
  /\ \A e \in S : (\A c \in S : ~Before(c, e)) => h[e] = apply_event(EmptyState, e)
  /\ \A d, e \in S : NextIn(S, d, e) => h[e] = apply_event(h[d], e)

(* x is the state after the last event of S.                                 *)
EndsIn(S, h, x) ==
  /\ S = {} => x = EmptyState
  /\ \A d \in S : (\A c \in S : ~Before(d, c)) => x = h[d]

(* x is the reduction of the events of S.                                    *)
ReducesTo(S, x) == \E h : Trace(S, h) /\ EndsIn(S, h, x)

(* Events of which all nodes know the same content.                          *)
Known(S) == S \subseteq Id /\ IsFiniteSet(S) /\ \A e \in S : payload[e] \in Payload

(* A reduction is a state.                                                   *)
LEMMA ReducesToType ==
  ASSUME Ordered, NEW S, Known(S), NEW x, ReducesTo(S, x)
  PROVE  x \in TicketStates
<1>1. PICK h : Trace(S, h) /\ EndsIn(S, h, x)
  BY DEF ReducesTo
<1>2. CASE S = {}
  BY <1>1, <1>2, EmptyType DEF EndsIn
<1>3. CASE S # {}
  <2>1. PICK m \in S : \A e \in S : e = m \/ Before(e, m)
    BY <1>3, LastId DEF Known
  <2>2. \A c \in S : ~Before(m, c)
    BY <2>1, BeforeIsOrder DEF Known
  <2> QED BY <1>1, <2>2 DEF EndsIn, Trace
<1> QED BY <1>2, <1>3

(* An event that is not the first has one that comes directly before it.     *)
LEMMA Predecessor ==
  ASSUME Ordered, NEW S, Known(S), NEW e \in Id, NEW c \in S, Before(c, e)
  PROVE  \E d \in S : NextIn(S, d, e) /\ (c = d \/ Before(c, d))
<1> DEFINE T == {b \in S : Before(b, e)}
<1>1. IsFiniteSet(T) /\ T \subseteq Id /\ c \in T
  BY FS_Subset DEF Known
<1>2. PICK d \in T : \A b \in T : b = d \/ Before(b, d)
  <2> HIDE DEF T
  <2> QED BY <1>1, LastId
<1>3. NextIn(S, d, e)
  BY <1>2, BeforeIsOrder DEF NextIn, Known
<1> QED BY <1>1, <1>2, <1>3

(* There is at most one reduction.                                           *)
LEMMA TraceUnique ==
  ASSUME Ordered, NEW S, Known(S), NEW h, NEW g, Trace(S, h), Trace(S, g)
  PROVE  \A e \in S : h[e] = g[e]
<1> DEFINE T == {e \in S : h[e] # g[e]}
<1> SUFFICES ASSUME T # {} PROVE FALSE
  OBVIOUS
<1>1. PICK m \in T : \A e \in T : e = m \/ Before(m, e)
  <2>1. T \subseteq Id
    BY DEF Known
  <2> HIDE DEF T
  <2> QED BY <2>1, FirstId
<1>2. CASE \A c \in S : ~Before(c, m)
  BY <1>1, <1>2 DEF Trace
<1>3. CASE \E c \in S : Before(c, m)
  <2>1. PICK d \in S : NextIn(S, d, m)
    BY <1>1, <1>3, Predecessor DEF Known
  <2>2. d \notin T
    BY <1>1, <2>1, BeforeIsOrder DEF NextIn, Known
  <2> QED BY <1>1, <2>1, <2>2 DEF Trace
<1> QED BY <1>2, <1>3

(* A set of events has one reduction, whatever the graph they sit in and the *)
(* order they came in.                                                       *)
LEMMA ReductionUnique ==
  ASSUME Ordered, NEW S, Known(S), NEW x, NEW y, ReducesTo(S, x), ReducesTo(S, y)
  PROVE  x = y
<1>1. PICK h : Trace(S, h) /\ EndsIn(S, h, x)
  BY DEF ReducesTo
<1>2. PICK g : Trace(S, g) /\ EndsIn(S, g, y)
  BY DEF ReducesTo
<1>3. CASE S = {}
  BY <1>1, <1>2, <1>3 DEF EndsIn
<1>4. CASE S # {}
  <2>1. PICK m \in S : \A e \in S : e = m \/ Before(e, m)
    BY <1>4, LastId DEF Known
  <2>2. \A c \in S : ~Before(m, c)
    BY <2>1, BeforeIsOrder DEF Known
  <2>3. h[m] = g[m]
    BY <1>1, <1>2, TraceUnique
  <2> QED BY <1>1, <1>2, <2>2, <2>3 DEF EndsIn
<1> QED BY <1>3, <1>4

(* An event after all others may be applied to the reduction of the others.  *)
LEMMA ReductionAppends ==
  ASSUME Ordered, NEW S, Known(S), NEW e \in Id, payload[e] \in Payload,
         \A c \in S : Before(c, e), NEW x, ReducesTo(S, x)
  PROVE  ReducesTo(S \cup {e}, apply_event(x, e))
<1>1. PICK h : Trace(S, h) /\ EndsIn(S, h, x)
  BY DEF ReducesTo
<1> DEFINE y == apply_event(x, e)
           U == S \cup {e}
           g == [c \in U |-> IF c = e THEN y ELSE h[c]]
<1>2. e \notin S /\ \A c \in S : ~Before(e, c)
  BY BeforeIsOrder DEF Known
<1>3. y \in TicketStates
  BY ReducesToType, ApplyType
<1>4. g \in [U -> TicketStates] /\ g[e] = y /\ \A c \in S : g[c] = h[c]
  BY <1>1, <1>2, <1>3 DEF Trace
<1> HIDE DEF g
<1>5. ASSUME NEW f \in U, \A c \in U : ~Before(c, f) PROVE g[f] = apply_event(EmptyState, f)
  <2>1. CASE f = e
    <3>1. S = {}
      BY <1>5, <2>1
    <3>2. x = EmptyState
      BY <1>1, <3>1 DEF EndsIn
    <3> QED BY <1>4, <2>1, <3>2
  <2>2. CASE f \in S
    BY <1>1, <1>4, <1>5, <2>2 DEF Trace
  <2> QED BY <2>1, <2>2
<1>6. ASSUME NEW d \in U, NEW f \in U, NextIn(U, d, f) PROVE g[f] = apply_event(g[d], f)
  <2>1. d \in S
    BY <1>2, <1>6, BeforeIsOrder DEF NextIn
  <2>2. CASE f = e
    <3>1. \A c \in S : ~Before(d, c)
      BY <1>6, <2>2 DEF NextIn
    <3>2. x = h[d]
      BY <1>1, <2>1, <3>1 DEF EndsIn
    <3> QED BY <1>4, <2>1, <2>2, <3>2
  <2>3. CASE f \in S
    <3>1. NextIn(S, d, f)
      BY <1>6 DEF NextIn
    <3> QED BY <1>1, <1>4, <2>1, <2>3, <3>1 DEF Trace
  <2> QED BY <2>2, <2>3
<1>7. Trace(U, g)
  BY <1>4, <1>5, <1>6 DEF Trace
<1>8. EndsIn(U, g, y)
  BY <1>4 DEF EndsIn
<1> QED BY <1>7, <1>8 DEF ReducesTo

(* The reduction of signed events does not change.                           *)
LEMMA ReductionStays ==
  ASSUME NEW S, NEW x, ReducesTo(S, x),
         \A e \in S : lamport'[e] = lamport[e] /\ payload'[e] = payload[e]
  PROVE  ReducesTo(S, x)'
<1>1. PICK h : Trace(S, h) /\ EndsIn(S, h, x)
  BY DEF ReducesTo
<1>2. \A d, e \in S : Before(d, e)' <=> Before(d, e)
  BY DEF Before
<1>3. \A z, e : e \in S => apply_event(z, e)' = apply_event(z, e)
  BY DEF apply_event
<1>4. \A d, e \in S : NextIn(S, d, e)' <=> NextIn(S, d, e)
  BY <1>2 DEF NextIn
<1>5. Trace(S, h)'
  <2>1. h \in [S -> TicketStates]
    BY <1>1 DEF Trace
  <2>2. ASSUME NEW e \in S, \A c \in S : ~Before(c, e)'
        PROVE  h[e] = apply_event(EmptyState, e)'
    <3>1. \A c \in S : ~Before(c, e)
      BY <1>2, <2>2
    <3>2. h[e] = apply_event(EmptyState, e)
      BY <1>1, <3>1 DEF Trace
    <3> QED BY <1>3, <3>2
  <2>3. ASSUME NEW d \in S, NEW e \in S, NextIn(S, d, e)'
        PROVE  h[e] = apply_event(h[d], e)'
    <3>1. NextIn(S, d, e)
      BY <1>4, <2>3
    <3>2. h[e] = apply_event(h[d], e)
      BY <1>1, <3>1 DEF Trace
    <3> QED BY <1>3, <3>2
  <2> QED BY <2>1, <2>2, <2>3 DEF Trace
<1>6. EndsIn(S, h, x)'
  BY <1>1, <1>2 DEF EndsIn
<1> QED BY <1>5, <1>6 DEF ReducesTo

-------------------------------------------------------------------------------
(* What an event does to the state of the ticket t, as a function of the     *)
(* state alone.                                                              *)
Moved(s, p, t) ==
  IF p.ticket # t THEN s
  ELSE IF p.kind = "CREATED" THEN (IF s = "NONE" THEN "OPEN" ELSE s)
  ELSE IF p.kind = "STATUS" /\ s # "NONE" /\ can_transition_to(s, p.new_state) THEN p.new_state
  ELSE s

(* "NONE" is shown of a ticket exactly when there is none.                   *)
LEMMA StateOfAggregate ==
  ASSUME NEW agg \in Aggregate
  PROVE  /\ agg.state \in TicketState \cup {"NONE"}
         /\ agg = NoTicket <=> agg.state = "NONE"
<1>1. CASE agg = NoTicket
  BY <1>1 DEF NoTicket
<1>2. CASE agg # NoTicket
  BY <1>2, AggregateFields DEF TicketState
<1> QED BY <1>1, <1>2

(* What apply_event does to the ticket state of each ticket.                 *)
LEMMA ApplyMoves ==
  ASSUME NEW x \in TicketStates, NEW e, payload[e] \in Payload, NEW t \in Ticket
  PROVE  apply_event(x, e)[t].state = Moved(x[t].state, payload[e], t)
<1> DEFINE p == payload[e]
           agg == x[p.ticket]
<1>1. p.ticket \in Ticket /\ p \in Payload
  BY DEF Payload
<1>2. agg \in Aggregate
  BY <1>1 DEF TicketStates
<1>3. apply_event(x, e) = IF Accepts(agg, p) THEN [x EXCEPT ![p.ticket] = Applied(agg, p)] ELSE x
  BY DEF apply_event
<1>4. CASE p.ticket # t
  BY <1>1, <1>3, <1>4 DEF TicketStates, Moved
<1>5. CASE p.ticket = t /\ Accepts(agg, p)
  <2>1. apply_event(x, e)[t] = Applied(agg, p)
    BY <1>1, <1>3, <1>5 DEF TicketStates
  <2>2. agg = x[t]
    BY <1>5
  <2>3. CASE p.kind = "CREATED"
    <3>1. agg = NoTicket /\ Applied(agg, p).state = "OPEN"
      BY <1>1, <1>2, <1>5, <2>3, AppliedType
    <3>2. agg.state = "NONE"
      BY <1>2, <3>1, StateOfAggregate
    <3> QED BY <1>5, <2>1, <2>2, <2>3, <3>1, <3>2 DEF Moved
  <2>4. CASE p.kind = "STATUS"
    <3>1. /\ agg # NoTicket /\ Applied(agg, p).state = p.new_state
          /\ can_transition_to(agg.state, p.new_state)
      BY <1>1, <1>2, <1>5, <2>4, AppliedType
    <3>2. agg.state # "NONE"
      BY <1>2, <3>1, StateOfAggregate
    <3> QED BY <1>5, <2>1, <2>2, <2>4, <3>1, <3>2 DEF Moved
  <2>5. CASE p.kind \notin {"CREATED", "STATUS"}
    BY <1>1, <1>2, <1>5, <2>1, <2>2, <2>5, AppliedType DEF Moved
  <2> QED BY <2>3, <2>4, <2>5
<1>6. CASE p.ticket = t /\ ~Accepts(agg, p)
  <2>1. apply_event(x, e)[t] = x[t] /\ agg = x[t]
    BY <1>3, <1>6
  <2>2. CASE p.kind = "CREATED"
    <3>1. agg # NoTicket
      BY <1>6, <2>2, Zenon DEF Accepts
    <3> QED BY <1>2, <2>1, <2>2, <3>1, StateOfAggregate DEF Moved
  <2>3. CASE p.kind = "STATUS"
    <3>0. p.kind # "CREATED"
      BY <2>3
    <3>1. ~(agg # NoTicket /\ can_transition_to(agg.state, p.new_state))
      BY <1>6, <2>3, <3>0, Zenon DEF Accepts
    <3> QED BY <1>2, <2>1, <2>3, <3>1, StateOfAggregate DEF Moved
  <2>4. CASE p.kind \notin {"CREATED", "STATUS"}
    BY <2>1, <2>4 DEF Moved
  <2> QED BY <2>2, <2>3, <2>4
<1> QED BY <1>4, <1>5, <1>6

(* b may be shown of a ticket after a: what TicketLifecycle allows.          *)
Follows(a, b) ==
  \/ a = "NONE"
  \/ a = "OPEN" /\ b # "NONE"
  \/ a \in {"IN_PROGRESS", "RESOLVED"} /\ b \in {"IN_PROGRESS", "RESOLVED", "CLOSED"}
  \/ a = "CLOSED" /\ b = "CLOSED"

(* What y shows of each ticket may be shown after what x shows.              *)
FollowsAll(x, y) == \A t \in Ticket : Follows(x[t].state, y[t].state)

(* The same event applied to both keeps them in this relation, and so does   *)
(* one applied to the second only.                                           *)
LEMMA FollowsMoves ==
  ASSUME NEW a \in TicketState \cup {"NONE"}, NEW b \in TicketState \cup {"NONE"},
         Follows(a, b), NEW p \in Payload, NEW t
  PROVE  Follows(Moved(a, p, t), Moved(b, p, t)) /\ Follows(a, Moved(b, p, t))
<1>1. CASE p.ticket # t \/ p.kind \notin {"CREATED", "STATUS"}
  BY <1>1 DEF Moved
<1>2. CASE p.ticket = t /\ p.kind = "CREATED"
  BY <1>2 DEF Moved, Follows, TicketState
<1>3. CASE p.ticket = t /\ p.kind = "STATUS"
  <2>1. p.new_state \in TicketState
    BY <1>3 DEF Payload, EntryKind
  <2> DEFINE s == p.new_state
             move(c) == IF c # "NONE" /\ can_transition_to(c, s) THEN s ELSE c
  <2>2. Moved(a, p, t) = move(a) /\ Moved(b, p, t) = move(b)
    BY <1>3 DEF Moved
  <2> HIDE DEF s
  <2>3. Follows(move(a), move(b)) /\ Follows(a, move(b))
    BY <2>1 DEF Follows, can_transition_to, TicketState, s
  <2> QED BY <2>2, <2>3
<1> QED BY <1>1, <1>2, <1>3

(* So for whole states, and for an event that only the second has.           *)
LEMMA FollowsApplied ==
  ASSUME NEW x \in TicketStates, NEW y \in TicketStates, FollowsAll(x, y),
         NEW e, payload[e] \in Payload
  PROVE  FollowsAll(apply_event(x, e), apply_event(y, e)) /\ FollowsAll(x, apply_event(y, e))
<1> SUFFICES ASSUME NEW t \in Ticket
             PROVE  /\ Follows(apply_event(x, e)[t].state, apply_event(y, e)[t].state)
                    /\ Follows(x[t].state, apply_event(y, e)[t].state)
  BY DEF FollowsAll
<1>1. x[t].state \in TicketState \cup {"NONE"} /\ y[t].state \in TicketState \cup {"NONE"}
  BY StateOfAggregate DEF TicketStates
<1>2. Follows(x[t].state, y[t].state)
  BY DEF FollowsAll
<1>3. /\ Follows(Moved(x[t].state, payload[e], t), Moved(y[t].state, payload[e], t))
      /\ Follows(x[t].state, Moved(y[t].state, payload[e], t))
  BY <1>1, <1>2, FollowsMoves
<1> QED BY <1>3, ApplyMoves

(* Anything may be shown after nothing.                                      *)
LEMMA EmptyFollowed == \A y : FollowsAll(EmptyState, y)
BY DEF FollowsAll, Follows, EmptyState, NoTicket

(* More events, whatever their place in the order, never take a ticket back: *)
(* the reduction of a set follows the one of each of its subsets.            *)
LEMMA ReductionFollows ==
  ASSUME Ordered, NEW B, Known(B), NEW A, A \subseteq B,
         NEW x, NEW y, ReducesTo(A, x), ReducesTo(B, y)
  PROVE  FollowsAll(x, y)
<1>0. Known(A)
  BY FS_Subset DEF Known
<1>1. PICK h : Trace(A, h) /\ EndsIn(A, h, x)
  BY DEF ReducesTo
<1>2. PICK g : Trace(B, g) /\ EndsIn(B, g, y)
  BY DEF ReducesTo
<1> DEFINE UpTo(c, e) == c = e \/ Before(c, e)
           LastUpTo(d, e) == UpTo(d, e) /\ \A c \in A : ~(Before(d, c) /\ UpTo(c, e))
           T == {e \in B : \E d \in A : LastUpTo(d, e) /\ ~FollowsAll(h[d], g[e])}
<1>3. T = {}
  <2> SUFFICES ASSUME T # {} PROVE FALSE
    OBVIOUS
  <2>1. PICK e \in T : \A f \in T : f = e \/ Before(e, f)
    <3>1. T \subseteq Id
      BY DEF Known
    <3> HIDE DEF T
    <3> QED BY <3>1, FirstId
  <2>2. PICK d \in A : LastUpTo(d, e) /\ ~FollowsAll(h[d], g[e])
    BY <2>1
  <2>3. e \in B /\ e \in Id /\ d \in Id /\ payload[e] \in Payload /\ g[e] \in TicketStates
    BY <1>2, <2>1, <2>2 DEF Known, Trace
  <2>4. ASSUME NEW c \in A, NEW b \in B, NextIn(B, b, e), LastUpTo(c, b)
        PROVE  FollowsAll(h[c], g[b])
    <3>1. b \notin T
      BY <2>1, <2>3, <2>4, BeforeIsOrder DEF NextIn, Known
    <3> QED BY <2>4, <3>1
  <2>5. \A c \in A : h[c] \in TicketStates
    BY <1>1 DEF Trace
  <2>6. \A c \in B : g[c] \in TicketStates
    BY <1>2 DEF Trace
  <2>7. CASE e \in A
    <3>1. d = e
      BY <2>2, <2>3, <2>7, BeforeIsOrder
    <3>2. CASE \A c \in A : ~Before(c, e)
      <4>1. h[e] = apply_event(EmptyState, e)
        BY <1>1, <2>7, <3>2 DEF Trace
      <4>2. PICK z \in TicketStates : g[e] = apply_event(z, e)
        <5>1. CASE \A c \in B : ~Before(c, e)
          BY <1>2, <2>3, <5>1, EmptyType DEF Trace
        <5>2. CASE \E c \in B : Before(c, e)
          <6>1. PICK b \in B : NextIn(B, b, e)
            BY <2>3, <5>2, Predecessor
          <6> QED BY <1>2, <2>3, <2>6, <6>1 DEF Trace
        <5> QED BY <5>1, <5>2
      <4>3. FollowsAll(h[e], g[e])
        BY <2>3, <4>1, <4>2, EmptyType, EmptyFollowed, FollowsApplied
      <4> QED BY <2>2, <3>1, <4>3
    <3>3. CASE \E c \in A : Before(c, e)
      <4>1. PICK c \in A : NextIn(A, c, e)
        BY <1>0, <2>3, <3>3, Predecessor
      <4>2. PICK b \in B : NextIn(B, b, e) /\ UpTo(c, b)
        <5>1. c \in B /\ Before(c, e)
          BY <4>1 DEF NextIn
        <5> QED BY <2>3, <5>1, Predecessor
      <4>3. LastUpTo(c, b)
        BY <2>3, <4>1, <4>2, BeforeIsOrder DEF NextIn, Known
      <4>4. FollowsAll(h[c], g[b])
        BY <2>4, <4>2, <4>3
      <4>5. h[e] = apply_event(h[c], e) /\ g[e] = apply_event(g[b], e)
        BY <1>1, <1>2, <2>3, <2>7, <4>1, <4>2 DEF Trace
      <4> QED BY <2>2, <2>3, <2>5, <2>6, <3>1, <4>4, <4>5, FollowsApplied
    <3> QED BY <3>2, <3>3
  <2>8. CASE e \notin A
    <3>1. Before(d, e) /\ d \in B
      BY <2>2, <2>8
    <3>2. PICK b \in B : NextIn(B, b, e) /\ UpTo(d, b)
      BY <2>3, <3>1, Predecessor
    <3>3. LastUpTo(d, b)
      BY <2>2, <2>3, <3>2, BeforeIsOrder DEF NextIn, Known
    <3>4. FollowsAll(h[d], g[b])
      BY <2>4, <3>2, <3>3
    <3>5. g[e] = apply_event(g[b], e)
      BY <1>2, <2>3, <3>2 DEF Trace
    <3> QED BY <2>2, <2>3, <2>5, <2>6, <3>4, <3>5, FollowsApplied
  <2> QED BY <2>7, <2>8
<1>4. CASE A = {}
  BY <1>1, <1>4, EmptyFollowed DEF EndsIn
<1>5. CASE A # {}
  <2>1. PICK d \in A : \A c \in A : c = d \/ Before(c, d)
    BY <1>0, <1>5, LastId DEF Known
  <2>2. PICK e \in B : \A c \in B : c = e \/ Before(c, e)
    BY <1>5, LastId DEF Known
  <2>3. (\A c \in A : ~Before(d, c)) /\ (\A c \in B : ~Before(e, c))
    BY <1>0, <2>1, <2>2, BeforeIsOrder DEF Known
  <2>4. x = h[d] /\ y = g[e]
    BY <1>1, <1>2, <2>3 DEF EndsIn
  <2>5. LastUpTo(d, e)
    BY <2>2, <2>3
  <2>6. e \notin T
    BY <1>3
  <2> QED BY <2>4, <2>5, <2>6
<1> QED BY <1>4, <1>5

-------------------------------------------------------------------------------
(* topological_sort emits the events of a graph in their order: the first    *)
(* event that has not been emitted is ready, because its parents come before *)
(* it, so Kahn's algorithm takes it.                                         *)
NextEmitted(n, s) ==
  LET ready == ReadyAfter(n, Emitted(s))
  IN  IF ready = {} THEN s ELSE Append(s, Earliest(ready))

(* Earliest picks what the priority queue of topological_sort would pop.     *)
LEMMA EarliestIsFirst ==
  ASSUME Ordered, NEW S, S \subseteq Id, S # {}
  PROVE  Earliest(S) \in S /\ \A f \in S : f = Earliest(S) \/ Before(Earliest(S), f)
<1>1. \E e \in S : \A f \in S \ {e} : Before(e, f)
  BY FirstId
<1> QED BY <1>1 DEF Earliest

(* topological_sort emits one event after the other, each from what it has   *)
(* emitted before.                                                           *)
LEMMA SortRecursion ==
  ASSUME Ordered, NEW n \in Node, events[n] \subseteq Id, IsFiniteSet(events[n])
  PROVE  \E f : /\ DOMAIN f = 0 .. Cardinality(events[n])
                /\ f[0] = <<>>
                /\ \A k \in 1 .. Cardinality(events[n]) : f[k] = NextEmitted(n, f[k - 1])
                /\ topological_sort(n) = f[Cardinality(events[n])]
<1> DEFINE N == Cardinality(events[n])
           Body(g) == [k \in 0 .. N |->
                         IF k = 0 THEN <<>>
                         ELSE LET done == g[k - 1]
                                  ready == ReadyAfter(n, Emitted(done))
                              IN  IF ready = {} THEN done ELSE Append(done, Earliest(ready))]
           step == [k \in 1 .. N |-> [s \in Seq(Id) |-> NextEmitted(n, s)]]
<1>1. N \in Nat
  BY FS_CardinalityType
<1>2. ASSUME NEW s \in Seq(Id) PROVE NextEmitted(n, s) \in Seq(Id)
  <2> DEFINE ready == ReadyAfter(n, Emitted(s))
  <2>1. ready \subseteq Id
    BY DEF ReadyAfter
  <2>2. ready # {} => Earliest(ready) \in Id
    <3> HIDE DEF ready
    <3> QED BY <2>1, EarliestIsFirst
  <2> QED BY <2>2 DEF NextEmitted
<1>3. step \in [1 .. N -> [Seq(Id) -> Seq(Id)]]
  BY <1>2
<1>4. PICK f \in [0 .. N -> Seq(Id)] :
        f[0] = <<>> /\ \A k \in 1 .. N : f[k] = step[k][f[k - 1]]
  <2> DEFINE X == Seq(Id)
             x0 == <<>>
  <2>1. x0 \in X /\ IsStep(step, N, X)
    BY <1>3 DEF IsStep
  <2> HIDE DEF step, N, X, x0
  <2>2. \E f \in [0 .. N -> X] : f[0] = x0 /\ \A k \in 1 .. N : f[k] = step[k][f[k - 1]]
    BY <1>1, <2>1, Iteration
  <2> QED BY <2>2 DEF X, x0
<1>5. f = Body(f)
  <2>1. ASSUME NEW k \in 1 .. N PROVE f[k] = NextEmitted(n, f[k - 1])
    <3>1. f[k - 1] \in Seq(Id) /\ k \in 0 .. N /\ k # 0
      <4>1. k - 1 \in 0 .. N /\ k \in 0 .. N /\ k # 0
        BY <1>1
      <4> QED BY <4>1
    <3>2. f[k] = step[k][f[k - 1]]
      BY <1>4
    <3> QED BY <3>1, <3>2
  <2>2. ASSUME NEW k \in 0 .. N
        PROVE  f[k] = IF k = 0 THEN <<>>
                      ELSE LET done == f[k - 1]
                               ready == ReadyAfter(n, Emitted(done))
                           IN  IF ready = {} THEN done ELSE Append(done, Earliest(ready))
    <3>1. CASE k = 0
      <4> HIDE DEF step
      <4> QED BY <1>1, <1>4, <3>1
    <3>2. CASE k # 0
      <4>1. k \in 1 .. N
        BY <1>1, <3>2
      <4> QED BY <2>1, <3>2, <4>1 DEF NextEmitted
    <3> QED BY <3>1, <3>2
  <2>3. f \in [0 .. N -> Seq(Id)]
    BY <1>4
  <2> QED BY <2>2, <2>3
<1> DEFINE prefix == CHOOSE g : g = Body(g)
<1>6. prefix = Body(prefix)
  <2> HIDE DEF Body
  <2> QED BY <1>5
<1>7. topological_sort(n) = prefix[N]
  BY DEF topological_sort
<1> HIDE DEF prefix
<1>8. DOMAIN prefix = 0 .. N /\ prefix[0] = <<>>
  BY <1>1, <1>6
<1>9. ASSUME NEW k \in 1 .. N PROVE prefix[k] = NextEmitted(n, prefix[k - 1])
  <2>1. k \in 0 .. N /\ k # 0
    BY <1>1
  <2>2. prefix[k] = Body(prefix)[k]
    BY <1>6
  <2> QED BY <2>1, <2>2 DEF NextEmitted
<1> QED BY <1>7, <1>8, <1>9

(* s holds the first k events of n in their order.                           *)
SortedPrefix(n, s, k) ==
  /\ s \in Seq(events[n]) /\ Len(s) = k
  /\ \A i, j \in 1 .. k : i < j => Before(s[i], s[j])
  /\ \A i \in 1 .. k : \A c \in events[n] \ Emitted(s) : Before(s[i], c)
  /\ IsFiniteSet(Emitted(s)) /\ Cardinality(Emitted(s)) = k

(* What the graph of a node has to be for this: a set of known events, each  *)
(* later than its parents.                                                   *)
GraphOf(n) ==
  /\ Ordered /\ Known(events[n])
  /\ \A e \in events[n] : \A p \in parents[e] \cap events[n] : lamport[p] < lamport[e]

(* The next event emitted is the earliest of the rest: the parents of that   *)
(* one are earlier still, so they have been emitted and it is ready.         *)
LEMMA SortStep ==
  ASSUME NEW n \in Node, GraphOf(n), NEW k \in Nat, k < Cardinality(events[n]),
         NEW s, SortedPrefix(n, s, k)
  PROVE  SortedPrefix(n, NextEmitted(n, s), k + 1)
<1> DEFINE rest == events[n] \ Emitted(s)
           ready == ReadyAfter(n, Emitted(s))
           next == NextEmitted(n, s)
<1>1. Emitted(s) \subseteq events[n] /\ Emitted(s) # events[n] /\ events[n] \subseteq Id
  <2>1. \A i \in 1 .. k : s[i] \in events[n]
    BY DEF SortedPrefix
  <2>2. DOMAIN s = 1 .. k
    BY DEF SortedPrefix
  <2>3. Cardinality(Emitted(s)) # Cardinality(events[n])
    BY DEF SortedPrefix
  <2> QED BY <2>1, <2>2, <2>3 DEF Emitted, GraphOf, Known
<1>2. PICK m \in rest : \A e \in rest : e = m \/ Before(m, e)
  <2>1. rest \subseteq Id /\ rest # {}
    BY <1>1
  <2> HIDE DEF rest
  <2> QED BY <2>1, FirstId DEF GraphOf
<1>3. m \in ready /\ ready \subseteq rest
  <2>1. ASSUME NEW p \in parents[m] \cap events[n], p \notin Emitted(s) PROVE FALSE
    <3>1. lamport[p] < lamport[m] /\ lamport[p] \in Nat /\ lamport[m] \in Nat
      BY <1>1, <1>2, <2>1 DEF GraphOf, Ordered
    <3>2. p = m \/ Before(m, p)
      BY <1>2, <2>1
    <3> QED BY <3>1, <3>2 DEF Before
  <2>2. ready \subseteq rest
    BY DEF ReadyAfter
  <2> QED BY <1>2, <2>1, <2>2 DEF ReadyAfter
<1>4. Earliest(ready) = m
  <2>1. ready \subseteq Id /\ ready # {}
    BY <1>1, <1>3
  <2>2. Earliest(ready) \in ready /\ \A f \in ready : f = Earliest(ready) \/ Before(Earliest(ready), f)
    <3> HIDE DEF ready
    <3> QED BY <2>1, EarliestIsFirst DEF GraphOf
  <2> HIDE DEF ready, rest
  <2> QED BY <1>2, <1>3, <2>1, <2>2, BeforeIsOrder DEF GraphOf
<1>5. next = Append(s, m)
  BY <1>3, <1>4 DEF NextEmitted
<1>6. /\ m \in events[n] /\ m \notin Emitted(s)
      /\ s \in Seq(events[n]) /\ Len(s) = k
  BY <1>2 DEF SortedPrefix
<1> HIDE DEF rest, ready, next
<1>7. /\ next \in Seq(events[n]) /\ Len(next) = k + 1
      /\ \A i \in 1 .. k : next[i] = s[i]
      /\ next[k + 1] = m
      /\ DOMAIN next = 1 .. k + 1 /\ DOMAIN s = 1 .. k
  BY <1>5, <1>6
<1>8. Emitted(next) = Emitted(s) \cup {m}
  <2>1. \A i \in 1 .. k + 1 : i \in 1 .. k \/ i = k + 1
    OBVIOUS
  <2>2. 1 .. k \subseteq 1 .. k + 1 /\ k + 1 \in 1 .. k + 1
    OBVIOUS
  <2> QED BY <1>7, <2>1, <2>2 DEF Emitted
<1>9. \A i \in 1 .. k : Before(s[i], m)
  BY <1>6 DEF SortedPrefix
<1>10. ASSUME NEW i \in 1 .. k + 1, NEW j \in 1 .. k + 1, i < j PROVE Before(next[i], next[j])
  <2>1. i \in 1 .. k
    BY <1>10
  <2>2. CASE j = k + 1
    BY <1>7, <1>9, <2>1, <2>2
  <2>3. CASE j \in 1 .. k
    BY <1>7, <1>10, <2>1, <2>3 DEF SortedPrefix
  <2> QED BY <2>2, <2>3
<1>11. ASSUME NEW i \in 1 .. k + 1, NEW c \in events[n] \ Emitted(next) PROVE Before(next[i], c)
  <2>1. c \in events[n] \ Emitted(s) /\ c # m
    BY <1>8
  <2>2. CASE i = k + 1
    BY <1>2, <1>7, <2>1, <2>2 DEF rest
  <2>3. CASE i \in 1 .. k
    BY <1>7, <2>1, <2>3 DEF SortedPrefix
  <2> QED BY <2>2, <2>3
<1>12. IsFiniteSet(Emitted(next)) /\ Cardinality(Emitted(next)) = k + 1
  <2>1. IsFiniteSet(Emitted(s)) /\ Cardinality(Emitted(s)) = k
    BY DEF SortedPrefix
  <2> QED BY <1>6, <1>8, <2>1, FS_AddElement
<1>13. SortedPrefix(n, next, k + 1)
  BY <1>7, <1>10, <1>11, <1>12 DEF SortedPrefix
<1> QED BY <1>13 DEF next

(* The result holds every event of the graph once, in order.                 *)
LEMMA SortIsSorted ==
  ASSUME NEW n \in Node, GraphOf(n)
  PROVE  /\ SortedPrefix(n, topological_sort(n), Cardinality(events[n]))
         /\ Emitted(topological_sort(n)) = events[n]
<1> DEFINE N == Cardinality(events[n])
<1>1. N \in Nat /\ IsFiniteSet(events[n]) /\ events[n] \subseteq Id /\ Ordered
  BY FS_CardinalityType DEF GraphOf, Known
<1>2. PICK f : /\ f[0] = <<>>
               /\ \A k \in 1 .. N : f[k] = NextEmitted(n, f[k - 1])
               /\ topological_sort(n) = f[N]
  BY <1>1, SortRecursion
<1> DEFINE T == {k \in 0 .. N : ~SortedPrefix(n, f[k], k)}
<1>3. T = {}
  <2> SUFFICES ASSUME T # {} PROVE FALSE
    OBVIOUS
  <2>1. PICK k \in T : \A j \in T : k =< j
    <3>1. T \subseteq Nat
      BY <1>1
    <3> HIDE DEF T
    <3> QED BY <3>1, LeastNat
  <2>2. k \in 0 .. N /\ ~SortedPrefix(n, f[k], k)
    BY <2>1
  <2>3. CASE k = 0
    <3>1. Emitted(<<>>) = {} /\ <<>> \in Seq(events[n]) /\ Len(<<>>) = 0
      BY DEF Emitted
    <3>2. IsFiniteSet({}) /\ Cardinality({}) = 0
      BY FS_EmptySet
    <3>3. \A i \in 1 .. 0 : FALSE
      OBVIOUS
    <3>4. SortedPrefix(n, <<>>, 0)
      BY <3>1, <3>2, <3>3 DEF SortedPrefix
    <3> QED BY <1>2, <2>2, <2>3, <3>4
  <2>4. CASE k # 0
    <3>1. k - 1 \in 0 .. N /\ k \in 1 .. N /\ k - 1 \in Nat /\ k - 1 < N /\ (k - 1) + 1 = k
          /\ ~(k =< k - 1)
      BY <1>1, <2>2, <2>4
    <3>2. SortedPrefix(n, f[k - 1], k - 1)
      <4>1. k - 1 \notin T
        <5> HIDE DEF T
        <5> QED BY <2>1, <3>1
      <4> QED BY <3>1, <4>1
    <3>3. SortedPrefix(n, NextEmitted(n, f[k - 1]), (k - 1) + 1)
      <4> DEFINE j == k - 1
                 s == f[k - 1]
      <4>1. j \in Nat /\ j < N /\ SortedPrefix(n, s, j)
        BY <3>1, <3>2
      <4> HIDE DEF j, s
      <4>2. SortedPrefix(n, NextEmitted(n, s), j + 1)
        BY <4>1, SortStep
      <4> QED BY <4>2 DEF j, s
    <3> QED BY <1>2, <2>2, <3>1, <3>3
  <2> QED BY <2>3, <2>4
<1>4. SortedPrefix(n, topological_sort(n), N)
  <2>1. N \in 0 .. N
    BY <1>1
  <2> HIDE DEF N
  <2> QED BY <1>2, <1>3, <2>1
<1>5. Emitted(topological_sort(n)) = events[n]
  <2> DEFINE s == topological_sort(n)
  <2>1. s \in Seq(events[n]) /\ Cardinality(Emitted(s)) = Cardinality(events[n])
    BY <1>4 DEF SortedPrefix
  <2> HIDE DEF s
  <2>2. Emitted(s) \in SUBSET events[n]
    BY <2>1 DEF Emitted
  <2>3. Emitted(s) = events[n]
    BY <1>1, <2>1, <2>2, FS_Subset
  <2> QED BY <2>3 DEF s
<1> QED BY <1>4, <1>5

(* reduce gives the reduction of the events of the node, whatever the order  *)
(* in which they were inserted.                                              *)
LEMMA FoldRecursion ==
  ASSUME NEW n \in Node, GraphOf(n)
  PROVE  \E f : /\ f \in [0 .. Len(topological_sort(n)) -> TicketStates]
                /\ f[0] = EmptyState
                /\ \A k \in 1 .. Len(topological_sort(n)) :
                     f[k] = apply_event(f[k - 1], topological_sort(n)[k])
                /\ reduce(n) = f[Len(topological_sort(n))]
<1> DEFINE order == topological_sort(n)
           N == Len(order)
           Body(g) == [k \in 0 .. N |->
                         IF k = 0 THEN EmptyState ELSE apply_event(g[k - 1], order[k])]
           step == [k \in 1 .. N |-> [x \in TicketStates |-> apply_event(x, order[k])]]
<1>1. order \in Seq(events[n]) /\ N \in Nat
  <2>1. SortedPrefix(n, order, Cardinality(events[n]))
    BY SortIsSorted
  <2> HIDE DEF order
  <2>2. order \in Seq(events[n])
    BY <2>1 DEF SortedPrefix
  <2> QED BY <2>2
<1> DEFINE fold == CHOOSE g : g = Body(g)
<1>2. reduce(n) = fold[N]
  BY DEF reduce
<1> HIDE DEF order
<1>3. ASSUME NEW k \in 1 .. N PROVE payload[order[k]] \in Payload
  <2>1. order[k] \in events[n]
    BY <1>1
  <2> QED BY <2>1 DEF GraphOf, Known
<1>4. IsStep(step, N, TicketStates)
  <2>1. ASSUME NEW k \in 1 .. N, NEW x \in TicketStates
        PROVE  apply_event(x, order[k]) \in TicketStates
    BY <1>3, ApplyType
  <2> QED BY <2>1 DEF IsStep
<1>5. PICK f \in [0 .. N -> TicketStates] :
        f[0] = EmptyState /\ \A k \in 1 .. N : f[k] = step[k][f[k - 1]]
  <2> HIDE DEF step, N
  <2> QED BY <1>1, <1>4, EmptyType, Iteration
<1>6. ASSUME NEW k \in 1 .. N PROVE f[k] = apply_event(f[k - 1], order[k])
  <2>1. k - 1 \in 0 .. N
    BY <1>1
  <2>2. f[k - 1] \in TicketStates
    BY <2>1
  <2> QED BY <1>5, <2>2
<1>7. f = Body(f)
  <2>1. ASSUME NEW k \in 0 .. N
        PROVE  f[k] = IF k = 0 THEN EmptyState ELSE apply_event(f[k - 1], order[k])
    <3>1. CASE k = 0
      BY <1>5, <3>1
    <3>2. CASE k # 0
      <4>1. k \in 1 .. N
        BY <1>1, <3>2
      <4> QED BY <1>6, <3>2, <4>1
    <3> QED BY <3>1, <3>2
  <2> QED BY <2>1
<1>8. fold = Body(fold)
  <2> HIDE DEF Body
  <2> QED BY <1>7
<1> HIDE DEF fold
<1> DEFINE T == {k \in 0 .. N : fold[k] # f[k]}
<1>9. T = {}
  <2> SUFFICES ASSUME T # {} PROVE FALSE
    OBVIOUS
  <2>1. PICK k \in T : \A j \in T : k =< j
    <3>1. T \subseteq Nat
      BY <1>1
    <3> HIDE DEF T
    <3> QED BY <3>1, LeastNat
  <2>2. k \in 0 .. N /\ fold[k] # f[k]
    BY <2>1
  <2>3. CASE k = 0
    BY <1>5, <1>8, <2>2, <2>3
  <2>4. CASE k # 0
    <3>1. k - 1 \in 0 .. N /\ k \in 1 .. N /\ ~(k =< k - 1)
      BY <1>1, <2>2, <2>4
    <3>2. k - 1 \notin T
      <4> HIDE DEF T
      <4> QED BY <2>1, <3>1
    <3>3. fold[k - 1] = f[k - 1]
      BY <3>1, <3>2
    <3>4. fold[k] = apply_event(fold[k - 1], order[k])
      BY <1>8, <2>2, <2>4
    <3> QED BY <1>6, <2>2, <3>1, <3>3, <3>4
  <2> QED BY <2>3, <2>4
<1>10. reduce(n) = f[N]
  <2>1. N \in 0 .. N
    BY <1>1
  <2> QED BY <1>2, <1>9, <2>1
<1> QED BY <1>5, <1>6, <1>10 DEF order

(* reduce computes the reduction of the graph: its topological order is the  *)
(* order of the ids whatever the parents are, and its fold follows           *)
(* apply_event along it.                                                     *)
THEOREM ReduceReduces ==
  ASSUME NEW n \in Node, GraphOf(n)
  PROVE  ReducesTo(events[n], reduce(n))
<1> DEFINE s == topological_sort(n)
           N == Cardinality(events[n])
<1>1. SortedPrefix(n, s, N) /\ Emitted(s) = events[n]
  BY SortIsSorted
<1>2. N \in Nat /\ Ordered /\ events[n] \subseteq Id
  BY FS_CardinalityType DEF GraphOf, Known
<1>3. Len(s) = N /\ s \in Seq(events[n])
  BY <1>1 DEF SortedPrefix
<1>4. PICK f : /\ f \in [0 .. N -> TicketStates]
               /\ f[0] = EmptyState
               /\ \A k \in 1 .. N : f[k] = apply_event(f[k - 1], s[k])
               /\ reduce(n) = f[N]
  BY <1>3, FoldRecursion
<1> HIDE DEF s, N
<1>5. \A i, j \in 1 .. N : i < j => Before(s[i], s[j])
  BY <1>1 DEF SortedPrefix
<1>6. \A e \in events[n] : \E i \in 1 .. N : s[i] = e
  BY <1>1, <1>3 DEF Emitted
<1>7. \A i \in 1 .. N : s[i] \in events[n] /\ s[i] \in Id
  BY <1>2, <1>3
<1>8. \A i, j \in 1 .. N : Before(s[i], s[j]) => i < j
  BY <1>2, <1>5, <1>7, BeforeIsOrder
<1> DEFINE at(e) == CHOOSE i \in 1 .. N : s[i] = e
           h == [e \in events[n] |-> f[at(e)]]
<1>9. \A e \in events[n] : at(e) \in 1 .. N /\ s[at(e)] = e
  BY <1>6
<1> HIDE DEF at
<1>10. h \in [events[n] -> TicketStates]
  BY <1>2, <1>4, <1>9
<1>11. ASSUME NEW e \in events[n], \A c \in events[n] : ~Before(c, e)
       PROVE  h[e] = apply_event(EmptyState, e)
  <2>1. at(e) = 1
    <3>1. at(e) \in Nat /\ at(e) >= 1 /\ (at(e) # 1 => 1 \in 1 .. N /\ 1 < at(e))
      BY <1>2, <1>9
    <3> QED BY <1>5, <1>7, <1>9, <1>11, <3>1
  <2>2. f[1] = apply_event(f[1 - 1], s[1])
    BY <1>4, <1>9, <2>1
  <2> QED BY <1>4, <1>9, <2>1, <2>2
<1>12. ASSUME NEW d \in events[n], NEW e \in events[n], NextIn(events[n], d, e)
       PROVE  h[e] = apply_event(h[d], e)
  <2>1. at(d) < at(e)
    BY <1>8, <1>9, <1>12 DEF NextIn
  <2>2. at(d) = at(e) - 1
    <3>1. ASSUME at(d) # at(e) - 1 PROVE FALSE
      <4>1. at(e) - 1 \in 1 .. N /\ at(d) < at(e) - 1 /\ at(e) - 1 < at(e)
        BY <1>2, <1>9, <2>1, <3>1
      <4> QED BY <1>5, <1>7, <1>9, <1>12, <4>1 DEF NextIn
    <3> QED BY <3>1
  <2>3. f[at(e)] = apply_event(f[at(e) - 1], s[at(e)])
    BY <1>4, <1>9
  <2> QED BY <1>9, <2>2, <2>3
<1>13. Trace(events[n], h)
  BY <1>10, <1>11, <1>12 DEF Trace
<1>14. EndsIn(events[n], h, reduce(n))
  <2>1. ASSUME events[n] = {} PROVE reduce(n) = EmptyState
    <3>1. N = 0
      BY <2>1, FS_EmptySet DEF N
    <3> QED BY <1>4, <3>1
  <2>2. ASSUME NEW d \in events[n], \A c \in events[n] : ~Before(d, c) PROVE reduce(n) = h[d]
    <3>1. at(d) = N
      <4>1. ASSUME at(d) # N PROVE FALSE
        <5>1. N \in 1 .. N /\ at(d) < N
          BY <1>2, <1>9, <4>1
        <5> QED BY <1>5, <1>7, <1>9, <2>2, <5>1
      <4> QED BY <4>1
    <3> QED BY <1>4, <3>1
  <2> QED BY <2>1, <2>2 DEF EndsIn
<1> QED BY <1>13, <1>14 DEF ReducesTo
===============================================================================

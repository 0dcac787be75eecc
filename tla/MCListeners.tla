------------------------------ MODULE MCListeners ------------------------------
(***************************************************************************)
(* Aborts and events on the state MCWeb gives them, and the proofs about   *)
(* them: both keep lists of listeners, which they part with as they are    *)
(* called.                                                                 *)
(***************************************************************************)
EXTENDS SequenceTheorems, NaturalsInduction, WellFoundedInduction, TLAPS

CONSTANTS
    Sources, Composite, MaxListeners,                   \* of AbortSignals
    Events, Callbacks, MaxAdded, MaxDepth, MaxEmits     \* of Emitters

VARIABLES s1, s2, s3, s4, s5, s6, s7

Aborts == INSTANCE AbortSignals WITH
    signals <- s1, listeners <- s2, stack <- s3, made <- s4, added <- s5, due <- s6, missed <- s7

Emitter == INSTANCE Emitters WITH
    tables <- s1, made <- s2, stack <- s3, added <- s4, emits <- s5, missed <- s6

\* The signal AbortSignal.any makes is none of its sources.
ASSUME AbortsAssumption ==
    MaxListeners \in Nat /\ Composite \notin Sources /\ Aborts!NoReason \notin Sources

-----------------------------------------------------------------------------
(* Parts of sequences *)

\* A set of natural numbers has a least one.
LEMMA Least ==
  ASSUME NEW S, S \subseteq Nat, S # {}
  PROVE  \E n \in S : \A m \in S : n <= m
<1> DEFINE R == OpToRel(<, Nat)
<1>1. IsWellFoundedOn(R, Nat) BY NatLessThanWellFounded
<1>2. PICK n \in S : \A m \in S : ~(<<m, n>> \in R) BY <1>1, WFMin
<1>3. \A m \in S : ~(m < n) BY <1>2 DEF OpToRel
<1> QED BY <1>3

\* A set that has zero and every successor has every natural number.
LEMMA Induction ==
  ASSUME NEW S, 0 \in S, \A n \in Nat : n \in S => n + 1 \in S
  PROVE  Nat \subseteq S
<1> SUFFICES ASSUME Nat \ S # {} PROVE FALSE OBVIOUS
<1>1. PICK n \in Nat \ S : \A m \in Nat \ S : n <= m BY Least
<1>2. n # 0 /\ n - 1 \in Nat BY <1>1
<1>3. n - 1 \in S BY <1>1, <1>2
<1> QED BY <1>1, <1>2, <1>3

\* There is a function as Picked defines it.
LEMMA PickedExists ==
  ASSUME NEW E, NEW list \in Seq(E), NEW places
  PROVE  \E f : f = [i \in 0..Len(list) |->
            IF i = 0 THEN <<>>
            ELSE IF i \in places THEN Append(f[i - 1], list[i]) ELSE f[i - 1]]
<1> DEFINE Step(f, i) == IF i = 0 THEN <<>>
            ELSE IF i \in places THEN Append(f[i - 1], list[i]) ELSE f[i - 1]
           Up(n) == \E f : f = [i \in 0..n |-> Step(f, i)]
<1>1. Up(0)
  <2>1. [i \in 0..0 |-> <<>>] = [i \in 0..0 |-> Step([j \in 0..0 |-> <<>>], i)] OBVIOUS
  <2> QED BY <2>1
<1>2. ASSUME NEW n \in Nat, Up(n) PROVE Up(n + 1)
  <2>1. PICK f : f = [i \in 0..n |-> Step(f, i)] BY <1>2
  <2> DEFINE g == [i \in 0..(n + 1) |-> IF i <= n THEN f[i] ELSE Step(f, i)]
  <2>2. \A i \in 0..(n + 1) : g[i] = Step(g, i)
    <3> SUFFICES ASSUME NEW i \in 0..(n + 1) PROVE g[i] = Step(g, i) OBVIOUS
    <3>1. i # 0 => i - 1 \in 0..n /\ g[i - 1] = f[i - 1] OBVIOUS
    <3>2. i <= n => f[i] = Step(f, i)
      <4>1. \A k \in 0..n : f[k] = Step(f, k) BY <2>1
      <4> HIDE DEF Step
      <4> QED BY <4>1
    <3> QED BY <3>1, <3>2
  <2>3. g = [i \in 0..(n + 1) |-> Step(g, i)] BY <2>2
  <2> QED BY <2>3
<1>3. Nat \subseteq {n \in Nat : Up(n)}
  <2> HIDE DEF Up
  <2> DEFINE S == {n \in Nat : Up(n)}
  <2>1. 0 \in S /\ \A n \in Nat : n \in S => n + 1 \in S BY <1>1, <1>2
  <2> HIDE DEF S
  <2>2. Nat \subseteq S BY <2>1, Induction
  <2> QED BY <2>2 DEF S
<1>4. Up(Len(list))
  <2> HIDE DEF Up
  <2>1. Len(list) \in Nat OBVIOUS
  <2> QED BY <1>3, <2>1
<1> QED BY <1>4

\* The function Picked takes the last value of.
LEMMA PickedStep ==
  ASSUME NEW E, NEW list \in Seq(E), NEW places
  PROVE  \E f : /\ Aborts!Picked(list, places) = f[Len(list)] /\ f[0] = <<>>
                /\ \A i \in 1..Len(list) :
                      f[i] = IF i \in places THEN Append(f[i - 1], list[i]) ELSE f[i - 1]
<1> DEFINE f == CHOOSE f : f = [i \in 0..Len(list) |->
            IF i = 0 THEN <<>>
            ELSE IF i \in places THEN Append(f[i - 1], list[i]) ELSE f[i - 1]]
<1>1. f = [i \in 0..Len(list) |->
            IF i = 0 THEN <<>>
            ELSE IF i \in places THEN Append(f[i - 1], list[i]) ELSE f[i - 1]]
  <2>1. \E g : g = [i \in 0..Len(list) |->
            IF i = 0 THEN <<>>
            ELSE IF i \in places THEN Append(g[i - 1], list[i]) ELSE g[i - 1]]
    BY PickedExists
  <2> QED BY <2>1, Zenon
<1>2. Aborts!Picked(list, places) = f[Len(list)] BY DEF Aborts!Picked
<1> HIDE DEF f
<1>3. f[0] = <<>> BY <1>1
<1>4. ASSUME NEW i \in 1..Len(list)
      PROVE  f[i] = IF i \in places THEN Append(f[i - 1], list[i]) ELSE f[i - 1]
  <2>1. i \in 0..Len(list) /\ i # 0 OBVIOUS
  <2> QED BY <1>1, <2>1
<1> QED BY <1>2, <1>3, <1>4

\* `at' says where the elements of `part' are in the first n of `list': at the places, in order.
Located(part, list, n, places, at) ==
    /\ at \in [1..Len(part) -> 1..n]
    /\ \A k \in 1..Len(part) : at[k] \in places /\ part[k] = list[at[k]]
    /\ \A k, l \in 1..Len(part) : k < l => at[k] < at[l]
    /\ \A i \in 1..n : i \in places => \E k \in 1..Len(part) : at[k] = i

\* Picked is the elements at the places, in order.
LEMMA PickedIs ==
  ASSUME NEW E, NEW list \in Seq(E), NEW places
  PROVE  /\ Aborts!Picked(list, places) \in Seq(E)
         /\ \E at : Located(Aborts!Picked(list, places), list, Len(list), places, at)
<1>1. PICK f : /\ Aborts!Picked(list, places) = f[Len(list)] /\ f[0] = <<>>
               /\ \A i \in 1..Len(list) :
                      f[i] = IF i \in places THEN Append(f[i - 1], list[i]) ELSE f[i - 1]
  BY PickedStep
<1> DEFINE Good(n) ==
       n <= Len(list) => f[n] \in Seq(E) /\ \E at : Located(f[n], list, n, places, at)
<1>2. Good(0)
  <2>1. f[0] \in Seq(E) /\ Len(f[0]) = 0 BY <1>1
  <2>2. [k \in 1..0 |-> 0] \in [1..Len(f[0]) -> 1..0] BY <2>1
  <2>3. Located(f[0], list, 0, places, [k \in 1..0 |-> 0]) BY <2>1, <2>2 DEF Located
  <2> QED BY <2>1, <2>3
<1>3. ASSUME NEW n \in Nat, Good(n) PROVE Good(n + 1)
  <2> SUFFICES ASSUME n + 1 <= Len(list) PROVE Good(n + 1) OBVIOUS
  <2>0. n + 1 \in 1..Len(list) /\ (n + 1) - 1 = n /\ n <= Len(list) /\ list[n + 1] \in E OBVIOUS
  <2>1. f[n + 1] = IF n + 1 \in places THEN Append(f[n], list[n + 1]) ELSE f[n] BY <1>1, <2>0
  <2>2. f[n] \in Seq(E) BY <1>3, <2>0
  <2>3. PICK at : Located(f[n], list, n, places, at) BY <1>3, <2>0
  <2>5. CASE n + 1 \in places
    <3>1. PICK m \in Nat : Len(f[n]) = m BY <2>2
    <3>2. PICK g : g = f[n + 1] OBVIOUS
    <3>3. g = Append(f[n], list[n + 1]) BY <2>1, <2>5, <3>2
    <3>4. g \in Seq(E) /\ Len(g) = m + 1 /\ g[m + 1] = list[n + 1] /\ \A k \in 1..m : g[k] = f[n][k]
      BY <2>0, <2>2, <3>1, <3>3
    <3>a. PICK new : new = [k \in 1..(m + 1) |-> IF k = m + 1 THEN n + 1 ELSE at[k]] OBVIOUS
    <3>5. new \in [1..(m + 1) -> 1..(n + 1)] /\ new[m + 1] = n + 1 /\ \A k \in 1..m : new[k] = at[k]
      <4>1. [k \in 1..(m + 1) |-> IF k = m + 1 THEN n + 1 ELSE at[k]] \in [1..(m + 1) -> 1..(n + 1)]
        <5>1. \A k \in 1..(m + 1) : k # m + 1 => k \in 1..m OBVIOUS
        <5> QED BY <2>3, <3>1, <5>1 DEF Located
      <4>2. \A k \in 1..m : k \in 1..(m + 1) /\ k # m + 1 OBVIOUS
      <4>3. new[m + 1] = n + 1 BY <3>a
      <4>4. \A k \in 1..m : new[k] = at[k] BY <3>a, <4>2
      <4> QED BY <3>a, <4>1, <4>3, <4>4
    <3>6. \A k \in 1..(m + 1) : k = m + 1 \/ k \in 1..m OBVIOUS
    <3>7. ASSUME NEW k \in 1..(m + 1) PROVE new[k] \in places /\ g[k] = list[new[k]]
      <4>1. CASE k = m + 1 BY <2>5, <3>4, <3>5, <4>1
      <4>2. CASE k \in 1..m BY <2>3, <3>1, <3>4, <3>5, <4>2 DEF Located
      <4> QED BY <3>6, <4>1, <4>2
    <3>8. ASSUME NEW k \in 1..(m + 1), NEW l \in 1..(m + 1), k < l PROVE new[k] < new[l]
      <4>1. k \in 1..m BY <3>8
      <4>2. new[k] = at[k] /\ at[k] \in 1..n BY <2>3, <3>1, <3>5, <4>1 DEF Located
      <4>3. CASE l = m + 1
        <5>1. new[l] = n + 1 BY <3>5, <4>3
        <5> QED BY <4>2, <5>1
      <4>4. CASE l \in 1..m
        <5>1. at[k] < at[l] BY <2>3, <3>1, <3>8, <4>1, <4>4 DEF Located
        <5> QED BY <3>5, <4>2, <4>4, <5>1
      <4> QED BY <3>6, <4>3, <4>4
    <3>9. ASSUME NEW i \in 1..(n + 1), i \in places PROVE \E k \in 1..(m + 1) : new[k] = i
      <4>1. CASE i = n + 1
        <5>1. m + 1 \in 1..(m + 1) OBVIOUS
        <5> QED BY <3>5, <4>1, <5>1
      <4>2. CASE i \in 1..n
        <5>1. PICK k \in 1..m : at[k] = i BY <2>3, <3>1, <3>9, <4>2 DEF Located
        <5>2. k \in 1..(m + 1) OBVIOUS
        <5> QED BY <3>5, <5>1, <5>2
      <4>3. i = n + 1 \/ i \in 1..n OBVIOUS
      <4> QED BY <4>1, <4>2, <4>3
    <3>10. Located(g, list, n + 1, places, new) BY <3>4, <3>5, <3>7, <3>8, <3>9 DEF Located
    <3> QED BY <3>2, <3>4, <3>10
  <2>6. CASE n + 1 \notin places
    <3>1. f[n + 1] = f[n] BY <2>1, <2>6
    <3>2. at \in [1..Len(f[n + 1]) -> 1..(n + 1)] BY <2>3, <3>1 DEF Located
    <3>3. \A i \in 1..(n + 1) : i \in places => i \in 1..n BY <2>6
    <3>4. Located(f[n + 1], list, n + 1, places, at) BY <2>3, <3>1, <3>2, <3>3 DEF Located
    <3> QED BY <2>2, <3>1, <3>4
  <2> QED BY <2>5, <2>6
<1>4. Good(Len(list))
  <2> HIDE DEF Good
  <2> DEFINE S == {n \in Nat : Good(n)}
  <2>1. 0 \in S /\ \A n \in Nat : n \in S => n + 1 \in S BY <1>2, <1>3
  <2> HIDE DEF S
  <2>2. Len(list) \in S BY <2>1, Induction
  <2> QED BY <2>2 DEF S
<1> QED BY <1>1, <1>4

\* The elements of `part' are those of `list' but at some places, each at one.
PartBut(part, list, but) ==
    \E at \in [DOMAIN part -> DOMAIN list \ but] :
        /\ \A k \in DOMAIN part : part[k] = list[at[k]]
        /\ \A k, l \in DOMAIN part : at[k] = at[l] => k = l
        /\ \A i \in DOMAIN list : i \notin but => \E k \in DOMAIN part : at[k] = i

LEMMA PickedWithin ==
  ASSUME NEW E, NEW list \in Seq(E), NEW places
  PROVE  Aborts!Picked(list, places) \in Seq(E)
           /\ PartBut(Aborts!Picked(list, places), list, DOMAIN list \ places)
<1> DEFINE p == Aborts!Picked(list, places)
<1>1. p \in Seq(E) /\ \E at : Located(p, list, Len(list), places, at) BY PickedIs
<1>2. PICK at : Located(p, list, Len(list), places, at) BY <1>1
<1> HIDE DEF p
<1>3. DOMAIN p = 1..Len(p) /\ DOMAIN list = 1..Len(list) /\ Len(p) \in Nat /\ Len(list) \in Nat BY <1>1
<1>4. /\ at \in [DOMAIN p -> DOMAIN list \ (DOMAIN list \ places)]
      /\ \A k \in DOMAIN p : p[k] = list[at[k]]
      /\ \A i \in DOMAIN list : i \notin DOMAIN list \ places => \E k \in DOMAIN p : at[k] = i
  BY <1>2, <1>3 DEF Located
<1>5. \A k, l \in DOMAIN p : at[k] = at[l] => k = l
  <2> SUFFICES ASSUME NEW k \in DOMAIN p, NEW l \in DOMAIN p, k # l PROVE at[k] # at[l] OBVIOUS
  <2>1. k < l \/ l < k BY <1>3
  <2>2. at[k] \in Nat /\ at[l] \in Nat BY <1>3, <1>4
  <2> QED BY <1>2, <1>3, <2>1, <2>2 DEF Located
<1>6. PartBut(p, list, DOMAIN list \ places) BY <1>4, <1>5 DEF PartBut
<1> QED BY <1>1, <1>6 DEF p

LEMMA RemoveAtIs ==
  ASSUME NEW E, NEW list \in Seq(E), NEW i \in DOMAIN list
  PROVE  /\ Aborts!RemoveAt(list, i) \in Seq(E) /\ Len(Aborts!RemoveAt(list, i)) = Len(list) - 1
         /\ \A k \in 1..(Len(list) - 1) :
              Aborts!RemoveAt(list, i)[k] = IF k < i THEN list[k] ELSE list[k + 1]
<1> DEFINE a == SubSeq(list, 1, i - 1)
           b == SubSeq(list, i + 1, Len(list))
<1>1. i \in 1..Len(list) /\ Len(list) \in Nat OBVIOUS
<1>2. a \in Seq(E) /\ Len(a) = i - 1 /\ \A k \in 1..(i - 1) : a[k] = list[k] BY <1>1
<1>3. b \in Seq(E) /\ Len(b) = Len(list) - i /\ \A k \in 1..(Len(list) - i) : b[k] = list[i + k] BY <1>1
<1> HIDE DEF a, b
<1>4. a \o b \in Seq(E) /\ Len(a \o b) = Len(list) - 1 BY <1>1, <1>2, <1>3
<1>5. ASSUME NEW k \in 1..(Len(list) - 1)
      PROVE  (a \o b)[k] = IF k < i THEN list[k] ELSE list[k + 1]
  <2>1. CASE k < i
    <3>1. k \in 1..(i - 1) BY <1>1, <2>1
    <3> QED BY <1>1, <1>2, <1>3, <2>1, <3>1
  <2>2. CASE ~(k < i)
    <3>1. k - (i - 1) \in 1..(Len(list) - i) /\ k + 1 = i + (k - (i - 1)) BY <1>1, <2>2
    <3>2. (a \o b)[k] = b[k - (i - 1)] BY <1>1, <1>2, <1>3, <2>2
    <3> QED BY <1>3, <2>2, <3>1, <3>2
  <2> QED BY <2>1, <2>2
<1> QED BY <1>4, <1>5 DEF Aborts!RemoveAt, a, b

LEMMA RemoveAtWithin ==
  ASSUME NEW E, NEW list \in Seq(E), NEW i \in DOMAIN list
  PROVE  Aborts!RemoveAt(list, i) \in Seq(E) /\ PartBut(Aborts!RemoveAt(list, i), list, {i})
<1>0. PICK p : p = Aborts!RemoveAt(list, i) OBVIOUS
<1>1. /\ p \in Seq(E) /\ Len(p) = Len(list) - 1
      /\ \A k \in 1..(Len(list) - 1) : p[k] = IF k < i THEN list[k] ELSE list[k + 1]
  BY <1>0, RemoveAtIs
<1>2. i \in 1..Len(list) /\ Len(list) \in Nat /\ DOMAIN list = 1..Len(list)
        /\ DOMAIN p = 1..(Len(list) - 1) BY <1>1
<1>3. PICK at : at = [k \in DOMAIN p |-> IF k < i THEN k ELSE k + 1] OBVIOUS
<1>4. at \in [DOMAIN p -> DOMAIN list \ {i}] BY <1>2, <1>3
<1>5. \A k \in DOMAIN p : p[k] = list[at[k]] BY <1>1, <1>2, <1>3
<1>6. \A k, l \in DOMAIN p : at[k] = at[l] => k = l BY <1>2, <1>3
<1>7. ASSUME NEW j \in DOMAIN list, j # i PROVE \E k \in DOMAIN p : at[k] = j
  <2>1. CASE j < i
    <3>1. j \in DOMAIN p /\ at[j] = j BY <1>2, <1>3, <2>1
    <3> QED BY <3>1
  <2>2. CASE j > i
    <3>1. j - 1 \in DOMAIN p /\ ~(j - 1 < i) /\ (j - 1) + 1 = j BY <1>2, <2>2
    <3>2. at[j - 1] = j BY <1>3, <3>1
    <3> QED BY <3>1, <3>2
  <2> QED BY <1>2, <1>7, <2>1, <2>2
<1>8. PartBut(p, list, {i}) BY <1>4, <1>5, <1>6, <1>7 DEF PartBut
<1> QED BY <1>0, <1>1, <1>8

LEMMA TailIs ==
  ASSUME NEW E, NEW list \in Seq(E), list # <<>>
  PROVE  /\ Tail(list) \in Seq(E) /\ Len(list) \in Nat \ {0} /\ Len(Tail(list)) = Len(list) - 1
         /\ \A k \in 1..(Len(list) - 1) : Tail(list)[k] = list[k + 1]
         /\ list[1] \in E
  OBVIOUS

LEMMA TailWithin ==
  ASSUME NEW E, NEW list \in Seq(E), list # <<>>
  PROVE  Tail(list) \in Seq(E) /\ PartBut(Tail(list), list, {1}) /\ 1 \in DOMAIN list
<1>0. PICK p : p = Tail(list) OBVIOUS
<1>1. /\ p \in Seq(E) /\ Len(list) \in Nat \ {0} /\ Len(p) = Len(list) - 1
      /\ \A k \in 1..(Len(list) - 1) : p[k] = list[k + 1]
  BY <1>0, TailIs
<1>2. DOMAIN list = 1..Len(list) /\ DOMAIN p = 1..(Len(list) - 1) BY <1>1
<1>3. PICK at : at = [k \in DOMAIN p |-> k + 1] OBVIOUS
<1>4. at \in [DOMAIN p -> DOMAIN list \ {1}] BY <1>1, <1>2, <1>3
<1>5. \A k \in DOMAIN p : p[k] = list[at[k]] BY <1>1, <1>2, <1>3
<1>6. \A k, l \in DOMAIN p : at[k] = at[l] => k = l BY <1>1, <1>2, <1>3
<1>7. ASSUME NEW j \in DOMAIN list, j # 1 PROVE \E k \in DOMAIN p : at[k] = j
  <2>1. j - 1 \in DOMAIN p /\ (j - 1) + 1 = j BY <1>1, <1>2, <1>7
  <2>2. at[j - 1] = j BY <1>3, <2>1
  <2> QED BY <2>1, <2>2
<1>8. PartBut(p, list, {1}) BY <1>4, <1>5, <1>6, <1>7 DEF PartBut
<1> QED BY <1>0, <1>1, <1>2, <1>8

LEMMA PrependWithin ==
  ASSUME NEW E, NEW old \in Seq(E), NEW new \in E
  PROVE  LET list == <<new>> \o old
         IN  list \in Seq(E) /\ 1 \in DOMAIN list /\ list[1] = new /\ PartBut(old, list, {1})
<1>0. PICK list : list = <<new>> \o old OBVIOUS
<1>1. PICK n \in Nat : n = Len(old) OBVIOUS
<1>2. DOMAIN old = 1..n BY <1>1
<1>3. list \in Seq(E) /\ Len(list) = n + 1 /\ list[1] = new /\ \A i \in 1..n : list[i + 1] = old[i]
  BY <1>0, <1>1
<1>4. DOMAIN list = 1..(n + 1) BY <1>3
<1>5. PICK at : at = [k \in DOMAIN old |-> k + 1] OBVIOUS
<1>6. at \in [DOMAIN old -> DOMAIN list \ {1}] BY <1>2, <1>4, <1>5
<1>7. \A k \in DOMAIN old : old[k] = list[at[k]] BY <1>2, <1>3, <1>5
<1>8. \A k, l \in DOMAIN old : at[k] = at[l] => k = l BY <1>2, <1>5
<1>9. ASSUME NEW j \in DOMAIN list, j # 1 PROVE \E k \in DOMAIN old : at[k] = j
  <2>1. j - 1 \in DOMAIN old /\ (j - 1) + 1 = j BY <1>2, <1>4, <1>9
  <2>2. at[j - 1] = j BY <1>5, <2>1
  <2> QED BY <2>1, <2>2
<1>10. PartBut(old, list, {1}) BY <1>6, <1>7, <1>8, <1>9 DEF PartBut
<1> QED BY <1>0, <1>3, <1>4, <1>10

LEMMA AppendWithin ==
  ASSUME NEW E, NEW old \in Seq(E), NEW new \in E
  PROVE  LET list == Append(old, new)
         IN  /\ list \in Seq(E) /\ Len(old) + 1 \in DOMAIN list /\ list[Len(old) + 1] = new
             /\ PartBut(old, list, {Len(old) + 1})
<1>0. PICK list : list = Append(old, new) OBVIOUS
<1>1. PICK n \in Nat : n = Len(old) OBVIOUS
<1>2. DOMAIN old = 1..n BY <1>1
<1>3. list \in Seq(E) /\ Len(list) = n + 1 /\ list[n + 1] = new /\ \A i \in 1..n : list[i] = old[i]
  BY <1>0, <1>1
<1>4. DOMAIN list = 1..(n + 1) BY <1>3
<1>5. PICK at : at = [k \in DOMAIN old |-> k] OBVIOUS
<1>6. at \in [DOMAIN old -> DOMAIN list \ {n + 1}] BY <1>2, <1>4, <1>5
<1>7. \A k \in DOMAIN old : old[k] = list[at[k]] BY <1>2, <1>3, <1>5
<1>8. \A k, l \in DOMAIN old : at[k] = at[l] => k = l BY <1>5
<1>9. \A j \in DOMAIN list : j # n + 1 => j \in DOMAIN old /\ at[j] = j BY <1>2, <1>4, <1>5
<1>10. PartBut(old, list, {n + 1}) BY <1>6, <1>7, <1>8, <1>9 DEF PartBut
<1> QED BY <1>0, <1>1, <1>3, <1>4, <1>10

\* The two modules define them alike.
LEMMA SameOperators ==
  ASSUME NEW list, NEW places
  PROVE  /\ Emitter!Picked(list, places) = Aborts!Picked(list, places)
         /\ Emitter!RemoveAt(list, places) = Aborts!RemoveAt(list, places)
  BY DEF Emitter!Picked, Aborts!Picked, Emitter!RemoveAt, Aborts!RemoveAt

-----------------------------------------------------------------------------
(* Aborts *)

\* Part of a list: elements of it, each once.
PartOf(part, list) ==
    /\ \A k \in DOMAIN part : \E i \in DOMAIN list : part[k] = list[i]
    /\ Aborts!Distinct(list) => Aborts!Distinct(part)

LEMMA PartOfIs ==
  ASSUME NEW part, NEW list, NEW but, PartBut(part, list, but)
  PROVE  /\ PartOf(part, list)
         /\ \A k \in DOMAIN part : \E i \in DOMAIN list : i \notin but /\ part[k] = list[i]
         /\ Aborts!Ids(list) \subseteq Aborts!Ids(part) \union {list[i].id :
              i \in but \intersect DOMAIN list}
         /\ Aborts!Ids(part) \subseteq Aborts!Ids(list)
         /\ Aborts!Distinct(list) => \A i \in but \intersect DOMAIN list :
              list[i].id \notin Aborts!Ids(part)
<1>1. PICK at \in [DOMAIN part -> DOMAIN list \ but] :
        /\ \A k \in DOMAIN part : part[k] = list[at[k]]
        /\ \A k, l \in DOMAIN part : at[k] = at[l] => k = l
        /\ \A i \in DOMAIN list : i \notin but => \E k \in DOMAIN part : at[k] = i
  BY DEF PartBut
<1>2. \A k \in DOMAIN part : at[k] \in DOMAIN list /\ at[k] \notin but OBVIOUS
<1>3. \A k \in DOMAIN part : \E i \in DOMAIN list : i \notin but /\ part[k] = list[i] BY <1>1, <1>2
<1>4. Aborts!Distinct(list) => Aborts!Distinct(part) BY <1>1, <1>2 DEF Aborts!Distinct
<1>5. \A i \in DOMAIN list : i \notin but => \E k \in DOMAIN part : part[k] = list[i] BY <1>1
<1>6. Aborts!Ids(list) \subseteq Aborts!Ids(part) \union {list[i].id : i \in but \intersect DOMAIN list}
  BY <1>5 DEF Aborts!Ids
<1>7. Aborts!Ids(part) \subseteq Aborts!Ids(list) BY <1>3 DEF Aborts!Ids
<1>8. Aborts!Distinct(list) => \A i \in but \intersect DOMAIN list : list[i].id \notin Aborts!Ids(part)
  BY <1>1, <1>2 DEF Aborts!Distinct, Aborts!Ids
<1> QED BY <1>3, <1>4, <1>6, <1>7, <1>8 DEF PartOf

LEMMA RemainingIs ==
  ASSUME NEW list \in Seq(Aborts!Entries)
  PROVE  /\ Aborts!Remaining(list) \in Seq(Aborts!Entries) /\ PartOf(Aborts!Remaining(list), list)
         /\ \A k \in DOMAIN Aborts!Remaining(list) : ~Aborts!Remaining(list)[k].once
<1>1. PICK places : places = {i \in DOMAIN list : ~list[i].once} OBVIOUS
<1>2. PICK part : part = Aborts!Remaining(list) OBVIOUS
<1>3. part = Aborts!Picked(list, places) BY <1>1, <1>2 DEF Aborts!Remaining
<1>4. part \in Seq(Aborts!Entries) /\ PartBut(part, list, DOMAIN list \ places) BY <1>3, PickedWithin
<1>5. PartOf(part, list) /\ \A k \in DOMAIN part : ~part[k].once BY <1>1, <1>4, PartOfIs
<1> QED BY <1>2, <1>4, <1>5

LEMMA RemovedIs ==
  ASSUME NEW list \in Seq(Aborts!Entries), NEW i \in DOMAIN list
  PROVE  /\ Aborts!RemoveAt(list, i) \in Seq(Aborts!Entries) /\ PartOf(Aborts!RemoveAt(list, i), list)
         /\ Aborts!Ids(list) \subseteq Aborts!Ids(Aborts!RemoveAt(list, i)) \union {list[i].id}
<1>1. PICK part : part = Aborts!RemoveAt(list, i) OBVIOUS
<1>2. part \in Seq(Aborts!Entries) /\ PartBut(part, list, {i}) BY <1>1, RemoveAtWithin
<1>3. {list[j].id : j \in {i} \intersect DOMAIN list} = {list[i].id} OBVIOUS
<1>4. PartOf(part, list) /\ Aborts!Ids(list) \subseteq Aborts!Ids(part) \union {list[i].id}
  BY <1>2, <1>3, PartOfIs
<1> QED BY <1>1, <1>2, <1>4

LEMMA RestIs ==
  ASSUME NEW list \in Seq(Aborts!Entries), list # <<>>
  PROVE  /\ Tail(list) \in Seq(Aborts!Entries) /\ PartOf(Tail(list), list)
         /\ Aborts!Ids(list) = Aborts!Ids(Tail(list)) \union {list[1].id}
         /\ Aborts!Distinct(list) => list[1].id \notin Aborts!Ids(Tail(list))
<1>1. PICK part : part = Tail(list) OBVIOUS
<1>2. part \in Seq(Aborts!Entries) /\ PartBut(part, list, {1}) /\ 1 \in DOMAIN list BY <1>1, TailWithin
<1>3. {list[j].id : j \in {1} \intersect DOMAIN list} = {list[1].id} BY <1>2
<1>4. list[1].id \in Aborts!Ids(list) BY <1>2 DEF Aborts!Ids
<1>5. /\ PartOf(part, list) /\ Aborts!Ids(list) = Aborts!Ids(part) \union {list[1].id}
      /\ Aborts!Distinct(list) => list[1].id \notin Aborts!Ids(part)
  BY <1>2, <1>3, <1>4, PartOfIs
<1> QED BY <1>1, <1>2, <1>5

LEMMA PartOfIds == ASSUME NEW part, NEW list, PartOf(part, list) PROVE Aborts!Ids(part) \subseteq Aborts!Ids(list)
  BY DEF PartOf, Aborts!Ids

LEMMA TheirsStay ==
  ASSUME NEW list, NEW part, NEW s, NEW r, NEW r2, NEW any, NEW any2,
         Aborts!Theirs(list, s, r, any), PartOf(part, list), any = "follows" => any2 = "follows",
         \A id \in DOMAIN r : id \in DOMAIN r2 /\ r2[id].on = r[id].on /\ r2[id].once = r[id].once
  PROVE  Aborts!Theirs(part, s, r2, any2)
  BY DEF Aborts!Theirs, PartOf

LEMMA AbortsInit == Aborts!Init => Aborts!IInv
<1> SUFFICES ASSUME Aborts!Init PROVE Aborts!IInv OBVIOUS
<1>1. \A x : x \notin DOMAIN <<>> OBVIOUS
<1>2. Aborts!TypeOK
  <2>1. /\ <<>> \in Seq(Aborts!Entries) /\ <<>> \in Seq(Aborts!Frames) /\ <<>> \in Seq(Aborts!Registrations)
        /\ Len(<<>>) <= MaxListeners
    BY AbortsAssumption
  <2>2. s2 \in [Aborts!Signals -> Seq(Aborts!Entries)] BY <2>1 DEF Aborts!Init
  <2>3. s1 \in [Aborts!Signals -> [aborted : BOOLEAN, reason : Aborts!Reasons, sent : Aborts!Reasons]]
    BY DEF Aborts!Init, Aborts!Reasons
  <2> QED BY <2>1, <2>2, <2>3 DEF Aborts!TypeOK, Aborts!Init
<1>3. Aborts!ListsAreTheirs BY <1>1 DEF Aborts!Init, Aborts!ListsAreTheirs, Aborts!Theirs, Aborts!Distinct
<1>4. Aborts!Uncalled /\ Aborts!DueAreHeard BY <1>1 DEF Aborts!Init, Aborts!Uncalled, Aborts!DueAreHeard
<1>5. Aborts!AbortsPassOn BY <1>1 DEF Aborts!Init, Aborts!AbortsPassOn, Aborts!Signals
<1> QED BY <1>2, <1>3, <1>4, <1>5 DEF Aborts!IInv

LEMMA AbortsImpl == Aborts!IInv => Aborts!AbortsAreHeard
<1> SUFFICES ASSUME Aborts!IInv PROVE Aborts!AbortsAreHeard OBVIOUS
<1>1. s3 = <<>> => \A id : ~Aborts!Waits(id) BY DEF Aborts!Waits
<1>2. Aborts!NobodyIsSkipped BY <1>1 DEF Aborts!IInv, Aborts!DueAreHeard, Aborts!NobodyIsSkipped
<1>3. Aborts!OnceIsOnce BY DEF Aborts!IInv, Aborts!Uncalled, Aborts!Single, Aborts!OnceIsOnce
<1>4. Aborts!CompositeFollows BY <1>1 DEF Aborts!IInv, Aborts!AbortsPassOn, Aborts!CompositeFollows
<1> QED BY <1>2, <1>3, <1>4 DEF Aborts!AbortsAreHeard

\* A listener of a script is in the lists of the signal it was added to, as it was added.
LEMMA WhoListens ==
  ASSUME Aborts!IInv
  PROVE  /\ Aborts!FollowId \notin DOMAIN s5 /\ Composite \in Aborts!Signals
              /\ Sources \subseteq Aborts!Signals
         /\ \A t \in Aborts!Signals : s2[t] \in Seq(Aborts!Entries)
         /\ \A f \in DOMAIN s3 : s3[f] \in Aborts!Frames
         /\ \A id \in DOMAIN s5 :
               /\ s5[id].on \in Aborts!Signals /\ s5[id].once \in BOOLEAN /\ s5[id].calls \in Nat
               /\ \A t \in Aborts!Signals : \A i \in DOMAIN s2[t] :
                     s2[t][i].id = id => s5[id].on = t /\ s2[t][i].once = s5[id].once
               /\ \A f \in DOMAIN s3 : \A i \in DOMAIN s3[f].rest :
                     s3[f].rest[i].id = id => s5[id].on = s3[f].of /\ s3[f].rest[i].once = s5[id].once
<1>1. Aborts!FollowId \notin DOMAIN s5
  <2>1. s5 \in Seq(Aborts!Registrations) /\ Len(s5) <= MaxListeners BY DEF Aborts!IInv, Aborts!TypeOK
  <2>2. DOMAIN s5 = 1..Len(s5) /\ Len(s5) \in Nat BY <2>1
  <2> QED BY <2>1, <2>2, AbortsAssumption DEF Aborts!FollowId
<1>2. Composite \in Aborts!Signals /\ Sources \subseteq Aborts!Signals BY DEF Aborts!Signals
<1>3. \A t \in Aborts!Signals : s2[t] \in Seq(Aborts!Entries) BY DEF Aborts!IInv, Aborts!TypeOK
<1>4. \A f \in DOMAIN s3 : s3[f] \in Aborts!Frames BY DEF Aborts!IInv, Aborts!TypeOK
<1>5. ASSUME NEW id \in DOMAIN s5
      PROVE  s5[id].on \in Aborts!Signals /\ s5[id].once \in BOOLEAN /\ s5[id].calls \in Nat
  <2>1. s5[id] \in Aborts!Registrations BY DEF Aborts!IInv, Aborts!TypeOK
  <2> QED BY <2>1 DEF Aborts!Registrations
<1>6. ASSUME NEW id \in DOMAIN s5, NEW t \in Aborts!Signals, NEW i \in DOMAIN s2[t], s2[t][i].id = id
      PROVE  s5[id].on = t /\ s2[t][i].once = s5[id].once
  BY <1>1, <1>6 DEF Aborts!IInv, Aborts!ListsAreTheirs, Aborts!Theirs, Aborts!Follow
<1>7. ASSUME NEW id \in DOMAIN s5, NEW f \in DOMAIN s3, NEW i \in DOMAIN s3[f].rest, s3[f].rest[i].id = id
      PROVE  s5[id].on = s3[f].of /\ s3[f].rest[i].once = s5[id].once
  BY <1>1, <1>7 DEF Aborts!IInv, Aborts!ListsAreTheirs, Aborts!Theirs, Aborts!Follow
<1> QED BY <1>1, <1>2, <1>3, <1>4, <1>5, <1>6, <1>7

\* A dispatch whose ends leave the frames below it: what is gone of them is to no
\* one's account but whom a throw has kept from being called.
LEMMA Unwinds ==
  ASSUME Aborts!IInv, NEW d \in Nat, s3' \in Seq(Aborts!Frames),
         \A f \in DOMAIN s3' :
            f + d \in DOMAIN s3 /\ s3'[f].of = s3[f + d].of /\ s3'[f].rest = s3[f + d].rest,
         \A g \in DOMAIN s3 :
            \/ \E f \in DOMAIN s3' : s3'[f].rest = s3[g].rest
            \/ \A id \in Aborts!Ids(s3[g].rest) : id \in s7',
         s7 \subseteq s7',
         UNCHANGED <<s1, s2, s4, s5, s6>>
  PROVE  Aborts!IInv'
<1>1. Aborts!TypeOK' BY DEF Aborts!IInv, Aborts!TypeOK
<1>2. Aborts!ListsAreTheirs' BY DEF Aborts!IInv, Aborts!ListsAreTheirs
<1>3. \A id : Aborts!Waits(id) => Aborts!Waits(id)' \/ id \in s7' BY DEF Aborts!Waits
<1>4. \A f \in DOMAIN s3', g \in DOMAIN s3' : f + d = g + d => f = g
  <2>1. DOMAIN s3' = 1..Len(s3') OBVIOUS
  <2> QED BY <2>1
<1>5. Aborts!Uncalled'
  <2> SUFFICES ASSUME NEW id \in DOMAIN s5, Aborts!Single(id)
               PROVE  /\ s5[id].calls <= 1
                      /\ id \in Aborts!Ids(s2[s5[id].on]) /\ (s5[id].once \/ ~s1[s5[id].on].aborted)
                            => s5[id].calls = 0 /\ \A f \in DOMAIN s3' : id \notin Aborts!Ids(s3'[f].rest)
                      /\ \A f \in DOMAIN s3' :
                            id \in Aborts!Ids(s3'[f].rest)
                               => s5[id].calls = 0
                                    /\ \A g \in DOMAIN s3' : id \in Aborts!Ids(s3'[g].rest) => g = f
    BY DEF Aborts!Uncalled, Aborts!Single
  <2>1. \A f \in DOMAIN s3' : f + d \in DOMAIN s3
          /\ Aborts!Ids(s3'[f].rest) = Aborts!Ids(s3[f + d].rest) OBVIOUS
  <2> QED BY <1>4, <2>1 DEF Aborts!IInv, Aborts!Uncalled
<1>6. Aborts!DueAreHeard' BY <1>3 DEF Aborts!IInv, Aborts!DueAreHeard, Aborts!Called
<1>7. Aborts!AbortsPassOn'
  <2>1. \A f \in DOMAIN s3' : s3'[f].of \in Sources => s1'[s3'[f].of].aborted
    BY DEF Aborts!IInv, Aborts!AbortsPassOn
  <2> QED BY <1>3, <2>1 DEF Aborts!IInv, Aborts!AbortsPassOn
<1> QED BY <1>1, <1>2, <1>5, <1>6, <1>7 DEF Aborts!IInv

LEMMA FrameIs ==
  ASSUME NEW frame \in Aborts!Frames, NEW n \in Nat
  PROVE  LET g == [frame EXCEPT !.in = n] IN g \in Aborts!Frames /\ g.of = frame.of /\ g.rest = frame.rest
  BY DEF Aborts!Frames

LEMMA ListenerReturnKeeps == Aborts!IInv /\ Aborts!ListenerReturns => Aborts!IInv'
<1> SUFFICES ASSUME Aborts!IInv, Aborts!ListenerReturns PROVE Aborts!IInv' OBVIOUS
<1>1. s3 \in Seq(Aborts!Frames) /\ s3 # <<>> BY DEF Aborts!IInv, Aborts!TypeOK, Aborts!ListenerReturns
<1>2. s3' = [s3 EXCEPT ![1].in = 0] BY DEF Aborts!ListenerReturns
<1>3. 1 \in DOMAIN s3 /\ DOMAIN s3 = 1..Len(s3) BY <1>1
<1>4. s3' \in Seq(Aborts!Frames) /\ DOMAIN s3' = DOMAIN s3
  <2>0. s3[1] \in Aborts!Frames BY <1>1, <1>3
  <2>1. [s3[1] EXCEPT !.in = 0] \in Aborts!Frames BY <2>0, FrameIs
  <2>2. s3' = [s3 EXCEPT ![1] = [s3[1] EXCEPT !.in = 0]] BY <1>2
  <2> QED BY <1>1, <1>3, <2>1, <2>2
<1>5. \A f \in DOMAIN s3 : s3'[f].of = s3[f].of /\ s3'[f].rest = s3[f].rest
  <2>0. s3[1] \in Aborts!Frames BY <1>1, <1>3
  <2>1. PICK g : g = [s3[1] EXCEPT !.in = 0] OBVIOUS
  <2>2. g.of = s3[1].of /\ g.rest = s3[1].rest BY <2>0, <2>1, FrameIs
  <2>3. s3' = [s3 EXCEPT ![1] = g] BY <1>2, <2>1
  <2> QED BY <1>1, <1>3, <2>2, <2>3
<1>6. \A f \in DOMAIN s3' :
         f + 0 \in DOMAIN s3 /\ s3'[f].of = s3[f + 0].of /\ s3'[f].rest = s3[f + 0].rest
  BY <1>3, <1>4, <1>5
<1>7. \A g \in DOMAIN s3 : \E f \in DOMAIN s3' : s3'[f].rest = s3[g].rest BY <1>4, <1>5
<1>8. s7 \subseteq s7' /\ UNCHANGED <<s1, s2, s4, s5, s6>> BY DEF Aborts!ListenerReturns
<1>9. 0 \in Nat OBVIOUS
<1> HIDE DEF Aborts!ListenerReturns
<1> QED BY <1>4, <1>6, <1>7, <1>8, <1>9, Unwinds

LEMMA ListenerThrowKeeps == Aborts!IInv /\ Aborts!ListenerThrows => Aborts!IInv'
<1> SUFFICES ASSUME Aborts!IInv, Aborts!ListenerThrows PROVE Aborts!IInv' OBVIOUS
<1>1. s3 \in Seq(Aborts!Frames) /\ s3 # <<>> BY DEF Aborts!IInv, Aborts!TypeOK, Aborts!ListenerThrows
<1>2. PICK lost \in {1, 2} : /\ lost = 2 => Len(s3) > 1
                             /\ s3' = SubSeq(s3, lost + 1, Len(s3))
                             /\ s7' = s7 \union UNION {Aborts!Ids(s3[i].rest) : i \in 1..lost}
                             /\ UNCHANGED <<s1, s2, s4, s5, s6>>
  BY DEF Aborts!ListenerThrows
<1>3. Len(s3) \in Nat /\ lost \in Nat /\ lost <= Len(s3) /\ DOMAIN s3 = 1..Len(s3) BY <1>1, <1>2
<1>4. /\ s3' \in Seq(Aborts!Frames) /\ Len(s3') = Len(s3) - lost
      /\ \A f \in 1..(Len(s3) - lost) : s3'[f] = s3[lost + f]
  <2>1. \A i \in (lost + 1)..Len(s3) : s3[i] \in Aborts!Frames BY <1>1, <1>3
  <2>2. /\ SubSeq(s3, lost + 1, Len(s3)) \in Seq(Aborts!Frames)
        /\ Len(SubSeq(s3, lost + 1, Len(s3))) =
             IF lost + 1 <= Len(s3) THEN Len(s3) - (lost + 1) + 1 ELSE 0
        /\ \A i \in 1..(Len(s3) - (lost + 1) + 1) :
             SubSeq(s3, lost + 1, Len(s3))[i] = s3[(lost + 1) + i - 1]
    BY <1>3, <2>1, SubSeqProperties
  <2>3. PICK q : q = SubSeq(s3, lost + 1, Len(s3)) OBVIOUS
  <2>4. PICK n \in Nat : n = Len(s3) BY <1>3
  <2>a. Len(q) = IF lost + 1 <= n THEN n - (lost + 1) + 1 ELSE 0 BY <2>2, <2>3, <2>4
  <2>b. lost \in Nat /\ lost <= n BY <1>3, <2>4
  <2>5. Len(q) = n - lost BY <2>a, <2>b
  <2>6. \A i \in 1..(n - lost) : i \in 1..(n - (lost + 1) + 1) /\ (lost + 1) + i - 1 = lost + i BY <1>3
  <2>7. \A i \in 1..(n - lost) : q[i] = s3[lost + i] BY <2>2, <2>3, <2>4, <2>6
  <2> QED BY <1>2, <2>2, <2>3, <2>4, <2>5, <2>7
<1>5. \A f \in DOMAIN s3' : f + lost \in DOMAIN s3 /\ s3'[f] = s3[f + lost] BY <1>3, <1>4
<1>6. ASSUME NEW g \in DOMAIN s3
      PROVE  \/ \E f \in DOMAIN s3' : s3'[f].rest = s3[g].rest
             \/ \A id \in Aborts!Ids(s3[g].rest) : id \in s7'
  <2>1. CASE g \in 1..lost BY <1>2, <2>1
  <2>2. CASE g \notin 1..lost
    <3>1. g - lost \in DOMAIN s3' /\ (g - lost) + lost = g BY <1>3, <1>4, <2>2
    <3> QED BY <1>5, <3>1
  <2> QED BY <2>1, <2>2
<1>7. s7 \subseteq s7' BY <1>2
<1> QED BY <1>2, <1>3, <1>4, <1>5, <1>6, <1>7, Unwinds

LEMMA DispatchEndKeeps == Aborts!IInv /\ Aborts!DispatchEnds => Aborts!IInv'
<1> SUFFICES ASSUME Aborts!IInv, Aborts!DispatchEnds PROVE Aborts!IInv' OBVIOUS
<1>1. s3 \in Seq(Aborts!Frames) /\ s3 # <<>> /\ s3[1].rest = <<>>
  BY DEF Aborts!IInv, Aborts!TypeOK, Aborts!DispatchEnds, Aborts!Running
<1>2. /\ Tail(s3) \in Seq(Aborts!Frames) /\ Len(s3) \in Nat \ {0} /\ Len(Tail(s3)) = Len(s3) - 1
      /\ \A f \in 1..(Len(s3) - 1) : Tail(s3)[f] = s3[f + 1]
  BY <1>1, TailIs
<1>3. DOMAIN s3 = 1..Len(s3) /\ DOMAIN Tail(s3) = 1..(Len(s3) - 1) BY <1>2
<1>4. /\ s3' \in Seq(Aborts!Frames) /\ DOMAIN s3' = 1..(Len(s3) - 1)
      /\ \A f \in 1..(Len(s3) - 1) : s3'[f].of = s3[f + 1].of /\ s3'[f].rest = s3[f + 1].rest
  <2>1. CASE Len(s3) > 1 /\ s3[2].in = Aborts!FollowId
    <3>1. s3' = [Tail(s3) EXCEPT ![1].in = 0] BY <2>1 DEF Aborts!DispatchEnds
    <3>2. 1 \in DOMAIN Tail(s3) BY <1>2, <1>3, <2>1
    <3> DEFINE t == Tail(s3)
    <3>3. t \in Seq(Aborts!Frames) /\ 1 \in DOMAIN t BY <1>2, <3>2
    <3> HIDE DEF t
    <3>a. t[1] \in Aborts!Frames BY <3>3
    <3>b. PICK g : g = [t[1] EXCEPT !.in = 0] OBVIOUS
    <3>4. g \in Aborts!Frames /\ g.of = t[1].of /\ g.rest = t[1].rest BY <3>a, <3>b, FrameIs
    <3>5. s3' = [t EXCEPT ![1] = g] BY <3>1, <3>b DEF t
    <3>6. s3' \in Seq(Aborts!Frames) /\ DOMAIN s3' = DOMAIN t BY <3>3, <3>4, <3>5
    <3>7. \A f \in DOMAIN t : s3'[f].of = t[f].of /\ s3'[f].rest = t[f].rest BY <3>3, <3>4, <3>5
    <3> QED BY <1>2, <1>3, <3>6, <3>7 DEF t
  <2>2. CASE ~(Len(s3) > 1 /\ s3[2].in = Aborts!FollowId)
    <3>1. s3' = Tail(s3) BY <2>2 DEF Aborts!DispatchEnds
    <3> QED BY <1>2, <1>3, <3>1
  <2> QED BY <2>1, <2>2
<1>5. \A f \in DOMAIN s3' : f + 1 \in DOMAIN s3 BY <1>2, <1>3, <1>4
<1>6. ASSUME NEW g \in DOMAIN s3
      PROVE  \/ \E f \in DOMAIN s3' : s3'[f].rest = s3[g].rest
             \/ \A id \in Aborts!Ids(s3[g].rest) : id \in s7'
  <2>1. CASE g = 1
    <3>1. Aborts!Ids(s3[g].rest) = {} BY <1>1, <2>1 DEF Aborts!Ids
    <3> QED BY <3>1
  <2>2. CASE g # 1
    <3>1. g - 1 \in DOMAIN s3' /\ (g - 1) + 1 = g BY <1>2, <1>3, <1>4, <2>2
    <3> QED BY <1>4, <3>1
  <2> QED BY <2>1, <2>2
<1> QED BY <1>4, <1>5, <1>6, Unwinds DEF Aborts!DispatchEnds

\* A list may lose elements, but for the follow of a source that is not aborted.
LEMMA ListsShrink ==
  ASSUME Aborts!IInv, s2' \in [Aborts!Signals -> Seq(Aborts!Entries)],
         \A t \in Aborts!Signals : PartOf(s2'[t], s2[t]),
         \A t \in Sources : Aborts!FollowId \in Aborts!Ids(s2[t]) => Aborts!FollowId \in Aborts!Ids(s2'[t]),
         UNCHANGED <<s1, s3, s4, s5, s6, s7>>
  PROVE  Aborts!IInv'
<1>1. Aborts!TypeOK' BY DEF Aborts!IInv, Aborts!TypeOK
<1>2. Aborts!ListsAreTheirs' BY TheirsStay DEF Aborts!IInv, Aborts!ListsAreTheirs
<1>3. Aborts!Uncalled'
  <2>1. \A t \in Aborts!Signals : Aborts!Ids(s2'[t]) \subseteq Aborts!Ids(s2[t]) BY PartOfIds
  <2>2. \A id \in DOMAIN s5 : s5[id].on \in Aborts!Signals BY WhoListens
  <2> QED BY <2>1, <2>2 DEF Aborts!IInv, Aborts!Uncalled, Aborts!Single
<1>4. Aborts!DueAreHeard' BY DEF Aborts!IInv, Aborts!DueAreHeard, Aborts!Waits, Aborts!Called
<1>5. Aborts!AbortsPassOn' BY DEF Aborts!IInv, Aborts!AbortsPassOn, Aborts!Waits
<1> QED BY <1>1, <1>2, <1>3, <1>4, <1>5 DEF Aborts!IInv

LEMMA AbortUnlistenKeeps == Aborts!IInv /\ Aborts!RemoveListener => Aborts!IInv'
<1> SUFFICES ASSUME Aborts!IInv, Aborts!RemoveListener PROVE Aborts!IInv' OBVIOUS
<1>1. PICK s \in Aborts!Signals : \E i \in DOMAIN s2[s] :
        /\ s2[s][i].id # Aborts!FollowId
        /\ s2' = [s2 EXCEPT ![s] = Aborts!RemoveAt(@, i)]
        /\ UNCHANGED <<s1, s3, s4, s5, s6, s7>>
  BY DEF Aborts!RemoveListener
<1>2. PICK i \in DOMAIN s2[s] :
        /\ s2[s][i].id # Aborts!FollowId
        /\ s2' = [s2 EXCEPT ![s] = Aborts!RemoveAt(@, i)]
        /\ UNCHANGED <<s1, s3, s4, s5, s6, s7>>
  BY <1>1
<1>3. s2 \in [Aborts!Signals -> Seq(Aborts!Entries)] BY DEF Aborts!IInv, Aborts!TypeOK
<1>4. PICK p : p = Aborts!RemoveAt(s2[s], i) OBVIOUS
<1>5. p \in Seq(Aborts!Entries) /\ PartOf(p, s2[s])
        /\ Aborts!Ids(s2[s]) \subseteq Aborts!Ids(p) \union {s2[s][i].id}
  BY <1>3, <1>4, RemovedIs
<1>6. s2' = [s2 EXCEPT ![s] = p] BY <1>2, <1>4
<1>7. s2' \in [Aborts!Signals -> Seq(Aborts!Entries)] BY <1>3, <1>5, <1>6
<1>8. \A t \in Aborts!Signals : s2'[t] = IF t = s THEN p ELSE s2[t] BY <1>3, <1>6
<1>9. \A t \in Aborts!Signals : PartOf(s2'[t], s2[t])
  <2>1. \A t \in Aborts!Signals : PartOf(s2[t], s2[t]) BY DEF PartOf
  <2> QED BY <1>5, <1>8, <2>1
<1>10. \A t \in Sources : Aborts!FollowId \in Aborts!Ids(s2[t]) => Aborts!FollowId \in Aborts!Ids(s2'[t])
  BY <1>2, <1>5, <1>8 DEF Aborts!Signals
<1> QED BY <1>2, <1>7, <1>9, <1>10, ListsShrink

\* The first dispatch goes on to its next listener.
LEMMA EnteredIs ==
  ASSUME s3 \in Seq(Aborts!Frames), s3 # <<>>, s3[1].rest \in Seq(Aborts!Entries), s3[1].rest # <<>>
  PROVE  /\ Aborts!Entered \in Seq(Aborts!Frames) /\ DOMAIN Aborts!Entered = DOMAIN s3
              /\ Len(Aborts!Entered) = Len(s3)
         /\ Aborts!Entered[1].of = s3[1].of /\ Aborts!Entered[1].rest = Tail(s3[1].rest)
         /\ \A f \in DOMAIN s3 : f # 1 => Aborts!Entered[f] = s3[f]
<1>1. /\ Tail(s3) \in Seq(Aborts!Frames) /\ Len(s3) \in Nat \ {0} /\ Len(Tail(s3)) = Len(s3) - 1
      /\ \A f \in 1..(Len(s3) - 1) : Tail(s3)[f] = s3[f + 1]
      /\ s3[1] \in Aborts!Frames
  BY TailIs
<1>2. PICK t : t = Tail(s3) OBVIOUS
<1>3. PICK g : g = [s3[1] EXCEPT !.in = s3[1].rest[1].id, !.rest = Tail(@)] OBVIOUS
<1>4. g \in Aborts!Frames /\ g.of = s3[1].of /\ g.rest = Tail(s3[1].rest)
  <2>1. Tail(s3[1].rest) \in Seq(Aborts!Entries) /\ s3[1].rest[1].id \in Nat
    <3>1. s3[1].rest[1] \in Aborts!Entries /\ Tail(s3[1].rest) \in Seq(Aborts!Entries) BY TailIs
    <3> QED BY <3>1 DEF Aborts!Entries
  <2> QED BY <1>1, <1>3, <2>1 DEF Aborts!Frames
<1>5. PICK e : e = <<g>> \o t OBVIOUS
<1>6. e \in Seq(Aborts!Frames) /\ Len(e) = Len(s3) /\ e[1] = g /\ \A f \in 1..(Len(s3) - 1) :
        e[f + 1] = t[f]
  BY <1>1, <1>2, <1>4, <1>5
<1>7. DOMAIN e = 1..Len(s3) /\ DOMAIN s3 = 1..Len(s3) BY <1>6
<1>8. ASSUME NEW f \in DOMAIN s3, f # 1 PROVE e[f] = s3[f]
  <2>1. f - 1 \in 1..(Len(s3) - 1) /\ (f - 1) + 1 = f BY <1>1, <1>7, <1>8
  <2> QED BY <1>1, <1>2, <1>6, <2>1
<1>9. Aborts!Entered = e BY <1>2, <1>3, <1>5 DEF Aborts!Entered
<1> QED BY <1>4, <1>6, <1>7, <1>8, <1>9

LEMMA ListenerCallKeeps == Aborts!IInv /\ Aborts!CallListener => Aborts!IInv'
<1> SUFFICES ASSUME Aborts!IInv, Aborts!CallListener PROVE Aborts!IInv' OBVIOUS
<1>1. /\ s3 \in Seq(Aborts!Frames) /\ s3 # <<>> /\ s3[1].rest # <<>> /\ s3[1].rest[1].id # Aborts!FollowId
      /\ s3' = Aborts!Entered /\ s5' = [s5 EXCEPT ![s3[1].rest[1].id].calls = @ + 1]
      /\ UNCHANGED <<s1, s2, s4, s6, s7>>
  BY DEF Aborts!IInv, Aborts!TypeOK, Aborts!CallListener, Aborts!Running
<1>2. PICK me : me = s3[1].rest[1].id OBVIOUS
<1>3. DOMAIN s3 = 1..Len(s3) /\ Len(s3) \in Nat \ {0} /\ s3[1] \in Aborts!Frames BY <1>1
<1>4. s3[1].rest \in Seq(Aborts!Entries) BY <1>3 DEF Aborts!Frames
<1>5. /\ s3' \in Seq(Aborts!Frames) /\ DOMAIN s3' = DOMAIN s3
      /\ s3'[1].of = s3[1].of /\ s3'[1].rest = Tail(s3[1].rest)
      /\ \A f \in DOMAIN s3 : f # 1 => s3'[f] = s3[f]
  BY <1>1, <1>2, <1>3, <1>4, EnteredIs
<1>6. /\ Tail(s3[1].rest) \in Seq(Aborts!Entries) /\ PartOf(Tail(s3[1].rest), s3[1].rest)
      /\ Aborts!Ids(s3[1].rest) = Aborts!Ids(Tail(s3[1].rest)) \union {me}
      /\ me \notin Aborts!Ids(Tail(s3[1].rest))
  BY <1>1, <1>2, <1>3, <1>4, RestIs DEF Aborts!IInv, Aborts!ListsAreTheirs, Aborts!Theirs
<1>7. me \in DOMAIN s5
  <2>1. 1 \in DOMAIN s3[1].rest BY <1>1, <1>4
  <2>2. Aborts!Theirs(s3[1].rest, s3[1].of, s5, s4) BY <1>3 DEF Aborts!IInv, Aborts!ListsAreTheirs
  <2> QED BY <1>1, <1>2, <2>1, <2>2 DEF Aborts!Theirs, Aborts!Follow
<1>8. s5 \in Seq(Aborts!Registrations) /\ Len(s5) <= MaxListeners BY DEF Aborts!IInv, Aborts!TypeOK
<1>9. /\ s5' \in Seq(Aborts!Registrations) /\ Len(s5') = Len(s5) /\ DOMAIN s5' = DOMAIN s5
      /\ \A id \in DOMAIN s5 : /\ s5'[id].on = s5[id].on /\ s5'[id].once = s5[id].once
                                  /\ s5'[id].calls = IF id = me THEN s5[id].calls + 1 ELSE s5[id].calls
  <2>1. s5[me] \in Aborts!Registrations BY <1>7, <1>8
  <2>2. PICK r : r = [s5[me] EXCEPT !.calls = @ + 1] OBVIOUS
  <2>3. r \in Aborts!Registrations /\ r.on = s5[me].on /\ r.once = s5[me].once /\ r.calls = s5[me].calls + 1
    BY <2>1, <2>2 DEF Aborts!Registrations
  <2>4. s5' = [s5 EXCEPT ![me] = r] BY <1>1, <1>2, <2>2
  <2> QED BY <1>7, <1>8, <2>3, <2>4
<1>10. Aborts!TypeOK' BY <1>1, <1>5, <1>8, <1>9 DEF Aborts!IInv, Aborts!TypeOK
<1>11. \A f \in DOMAIN s3 : s3'[f].of = s3[f].of /\ PartOf(s3'[f].rest, s3[f].rest)
  <2>1. \A f \in DOMAIN s3 : PartOf(s3[f].rest, s3[f].rest) BY DEF PartOf
  <2> QED BY <1>5, <1>6, <2>1
<1>12. \A f \in DOMAIN s3 : Aborts!Ids(s3'[f].rest) \subseteq Aborts!Ids(s3[f].rest) BY <1>11, PartOfIds
<1>13. Aborts!ListsAreTheirs'
  <2>1. \A t \in Aborts!Signals : Aborts!Theirs(s2'[t], t, s5', s4')
    <3>1. \A t \in Aborts!Signals : PartOf(s2[t], s2[t]) BY DEF PartOf
    <3> QED BY <1>1, <1>9, <3>1, TheirsStay DEF Aborts!IInv, Aborts!ListsAreTheirs
  <2>2. \A f \in DOMAIN s3 : Aborts!Theirs(s3'[f].rest, s3'[f].of, s5', s4')
    BY <1>1, <1>9, <1>11, TheirsStay DEF Aborts!IInv, Aborts!ListsAreTheirs
  <2> QED BY <1>5, <2>1, <2>2 DEF Aborts!ListsAreTheirs
<1>14. Aborts!Uncalled'
  <2> SUFFICES ASSUME NEW id \in DOMAIN s5', Aborts!Single(id)'
               PROVE  /\ s5'[id].calls <= 1
                      /\ id \in Aborts!Ids(s2'[s5'[id].on]) /\ (s5'[id].once \/ ~s1'[s5'[id].on].aborted)
                            => s5'[id].calls = 0 /\ \A f \in DOMAIN s3' : id \notin Aborts!Ids(s3'[f].rest)
                      /\ \A f \in DOMAIN s3' :
                            id \in Aborts!Ids(s3'[f].rest)
                               => s5'[id].calls = 0
                                    /\ \A g \in DOMAIN s3' : id \in Aborts!Ids(s3'[g].rest) => g = f
    BY DEF Aborts!Uncalled
  <2>a. /\ id \in DOMAIN s5 /\ s5'[id].on = s5[id].on /\ s5'[id].once = s5[id].once
        /\ s2' = s2 /\ s1' = s1 /\ DOMAIN s3' = DOMAIN s3
    BY <1>1, <1>5, <1>9
  <2>b. Aborts!Single(id) BY <2>a DEF Aborts!Single
  <2>c. /\ s5[id].calls <= 1
        /\ id \in Aborts!Ids(s2[s5[id].on]) /\ (s5[id].once \/ ~s1[s5[id].on].aborted)
              => s5[id].calls = 0 /\ \A f \in DOMAIN s3 : id \notin Aborts!Ids(s3[f].rest)
        /\ \A f \in DOMAIN s3 :
              id \in Aborts!Ids(s3[f].rest)
                 => s5[id].calls = 0
                      /\ \A g \in DOMAIN s3 : id \in Aborts!Ids(s3[g].rest) => g = f
    BY <2>a, <2>b DEF Aborts!IInv, Aborts!Uncalled
  <2>1. CASE id # me
    <3>1. s5'[id].calls = s5[id].calls BY <1>9, <2>1, <2>a
    <3> QED BY <1>12, <2>a, <2>c, <3>1
  <2>2. CASE id = me
    <3>1. 1 \in DOMAIN s3 /\ id \in Aborts!Ids(s3[1].rest) BY <1>3, <1>6, <2>2
    <3>2. s5[id].calls = 0 /\ \A g \in DOMAIN s3 : id \in Aborts!Ids(s3[g].rest) => g = 1 BY <2>c, <3>1
    <3>3. \A f \in DOMAIN s3 : id \notin Aborts!Ids(s3'[f].rest) BY <1>5, <1>6, <1>12, <2>2, <3>2
    <3>4. ~(id \in Aborts!Ids(s2[s5[id].on]) /\ (s5[id].once \/ ~s1[s5[id].on].aborted))
      BY <2>c, <3>1
    <3>5. s5'[id].calls = 1 BY <1>9, <2>2, <2>a, <3>2
    <3> QED BY <2>a, <3>3, <3>4, <3>5
  <2> QED BY <2>1, <2>2
<1>15. \A id : id # me /\ Aborts!Waits(id) => Aborts!Waits(id)' BY <1>5, <1>6 DEF Aborts!Waits
<1>16. Aborts!DueAreHeard'
  <2> SUFFICES ASSUME NEW id \in s6
    PROVE id = Aborts!FollowId \/ id \in Aborts!Called' \/ id \in s7 \/ Aborts!Waits(id)'
    BY <1>1 DEF Aborts!DueAreHeard
  <2>1. id = Aborts!FollowId \/ id \in Aborts!Called \/ id \in s7 \/ Aborts!Waits(id) BY DEF Aborts!IInv,
        Aborts!DueAreHeard
  <2>2. Aborts!Called \subseteq Aborts!Called'
    <3>1. \A j \in DOMAIN s5 : s5[j].calls \in Nat BY WhoListens
    <3> QED BY <1>9, <3>1 DEF Aborts!Called
  <2>3. me \in Aborts!Called'
    <3>1. s5[me].calls \in Nat BY <1>7, WhoListens
    <3> QED BY <1>7, <1>9, <3>1 DEF Aborts!Called
  <2> QED BY <1>15, <2>1, <2>2, <2>3
<1>17. Aborts!AbortsPassOn'
  <2>1. Aborts!Waits(Aborts!FollowId) => Aborts!Waits(Aborts!FollowId)' BY <1>1, <1>2, <1>15
  <2>2. \A f \in DOMAIN s3' : s3'[f].of \in Sources => s1'[s3'[f].of].aborted
    BY <1>1, <1>5, <1>11 DEF Aborts!IInv, Aborts!AbortsPassOn
  <2> QED BY <1>1, <2>1, <2>2 DEF Aborts!IInv, Aborts!AbortsPassOn
<1> QED BY <1>10, <1>13, <1>14, <1>16, <1>17 DEF Aborts!IInv

\* A list with one element more, wherever it is.
Grown(list, old, new) ==
    /\ list \in Seq(Aborts!Entries)
    /\ \E n \in DOMAIN list :
          /\ list[n] = new
          /\ \A i \in DOMAIN list : i = n \/ \E j \in DOMAIN old : list[i] = old[j]
          /\ \A j \in DOMAIN old : \E i \in DOMAIN list : list[i] = old[j]
          /\ Aborts!Distinct(old) => \A i, j \in DOMAIN list : i # n /\ j # n /\ list[i].id = list[j].id
               => i = j

LEMMA WithinGrows ==
  ASSUME NEW old, NEW list \in Seq(Aborts!Entries), NEW p \in DOMAIN list, PartBut(old, list, {p})
  PROVE  Grown(list, old, list[p])
<1>1. PICK at \in [DOMAIN old -> DOMAIN list \ {p}] :
        /\ \A k \in DOMAIN old : old[k] = list[at[k]]
        /\ \A i \in DOMAIN list : i \notin {p} => \E k \in DOMAIN old : at[k] = i
  BY DEF PartBut
<1>2. \A i \in DOMAIN list : i # p => \E k \in DOMAIN old : at[k] = i /\ list[i] = old[k] BY <1>1
<1>3. \A k \in DOMAIN old : at[k] \in DOMAIN list OBVIOUS
<1>4. ASSUME Aborts!Distinct(old), NEW i \in DOMAIN list, NEW j \in DOMAIN list, i # p, j # p, list[i].id = list[j].id
      PROVE  i = j
  <2>1. PICK k \in DOMAIN old : at[k] = i /\ list[i] = old[k] BY <1>2, <1>4
  <2>2. PICK l \in DOMAIN old : at[l] = j /\ list[j] = old[l] BY <1>2, <1>4
  <2>3. k = l BY <1>4, <2>1, <2>2 DEF Aborts!Distinct
  <2> QED BY <2>1, <2>2, <2>3
<1> QED BY <1>1, <1>2, <1>3, <1>4 DEF Grown

LEMMA PrependGrows == ASSUME NEW old \in Seq(Aborts!Entries), NEW new \in Aborts!Entries PROVE Grown(<<new>> \o old, old, new)
<1>1. PICK list : list = <<new>> \o old OBVIOUS
<1>2. list \in Seq(Aborts!Entries) /\ 1 \in DOMAIN list /\ list[1] = new /\ PartBut(old, list, {1})
  BY <1>1, PrependWithin
<1>3. Grown(list, old, list[1]) BY <1>2, WithinGrows
<1> QED BY <1>1, <1>2, <1>3

LEMMA AppendGrows == ASSUME NEW old \in Seq(Aborts!Entries), NEW new \in Aborts!Entries PROVE Grown(Append(old, new), old, new)
<1>1. PICK list : list = Append(old, new) OBVIOUS
<1>2. PICK n : n = Len(old) + 1 OBVIOUS
<1>3. list \in Seq(Aborts!Entries) /\ n \in DOMAIN list /\ list[n] = new /\ PartBut(old, list, {n})
  BY <1>1, <1>2, AppendWithin
<1>4. Grown(list, old, list[n]) BY <1>3, WithinGrows
<1> QED BY <1>1, <1>3, <1>4

LEMMA GrownIs ==
  ASSUME NEW old, NEW list, NEW new \in Aborts!Entries, NEW s, NEW r, NEW r2, NEW any, NEW any2,
         Grown(list, old, new), Aborts!Theirs(old, s, r, any), new.id \notin Aborts!Ids(old),
         any = "follows" => any2 = "follows",
         \A id \in DOMAIN r : id \in DOMAIN r2 /\ r2[id].on = r[id].on /\ r2[id].once = r[id].once,
         \/ new = Aborts!Follow /\ s \in Sources /\ any2 = "follows"
         \/ new.id \in DOMAIN r2 /\ r2[new.id].on = s /\ r2[new.id].once = new.once
  PROVE  list \in Seq(Aborts!Entries) /\ Aborts!Ids(list) = Aborts!Ids(old) \union {new.id}
           /\ Aborts!Theirs(list, s, r2, any2)
<1>1. list \in Seq(Aborts!Entries) /\ Aborts!Ids(list) = Aborts!Ids(old) \union {new.id}
  BY DEF Grown, Aborts!Ids
<1>2. Aborts!Distinct(list)
  <2>1. Aborts!Distinct(old) /\ \A i \in DOMAIN old : old[i].id # new.id BY DEF Aborts!Theirs, Aborts!Ids
  <2> QED BY <2>1 DEF Grown, Aborts!Distinct
<1>3. Aborts!Theirs(list, s, r2, any2) BY <1>2 DEF Aborts!Theirs, Grown
<1> QED BY <1>1, <1>3

LEMMA AbortListenKeeps == Aborts!IInv /\ Aborts!AddListener => Aborts!IInv'
<1> SUFFICES ASSUME Aborts!IInv, Aborts!AddListener PROVE Aborts!IInv' OBVIOUS
<1>1. PICK s \in Aborts!Signals, once \in BOOLEAN, prepend \in BOOLEAN :
        /\ Len(s5) < MaxListeners /\ (s = Composite => s4 # "no")
        /\ s5' = Append(s5, [on |-> s, once |-> once, calls |-> 0])
        /\ s2' = [s2 EXCEPT ![s] =
                             IF prepend THEN <<[id |-> Len(s5) + 1, once |-> once]>> \o @
                             ELSE Append(@, [id |-> Len(s5) + 1, once |-> once])]
        /\ UNCHANGED <<s1, s3, s4, s6, s7>>
  BY DEF Aborts!AddListener
<1>2. s5 \in Seq(Aborts!Registrations) /\ s2 \in [Aborts!Signals -> Seq(Aborts!Entries)]
  BY DEF Aborts!IInv, Aborts!TypeOK
<1>3. PICK me \in Nat : me = Len(s5) + 1 BY <1>2
<1>4. PICK new : new = [id |-> me, once |-> once] OBVIOUS
<1>5. new \in Aborts!Entries /\ new.id = me /\ new.once = once BY <1>4 DEF Aborts!Entries
<1>6. PICK r : r = [on |-> s, once |-> once, calls |-> 0] OBVIOUS
<1>7. r \in Aborts!Registrations /\ r.on = s /\ r.once = once /\ r.calls = 0
  BY <1>6 DEF Aborts!Registrations
<1>8. s5' = Append(s5, r) BY <1>1, <1>6
<1>9. /\ s5' \in Seq(Aborts!Registrations) /\ Len(s5') = me /\ me <= MaxListeners
      /\ DOMAIN s5' = DOMAIN s5 \union {me} /\ me \notin DOMAIN s5
      /\ s5'[me] = r /\ \A id \in DOMAIN s5 : s5'[id] = s5[id]
  <2>1. Len(s5) \in Nat /\ DOMAIN s5 = 1..Len(s5) BY <1>2
  <2>2. s5' \in Seq(Aborts!Registrations) /\ Len(s5') = me BY <1>2, <1>3, <1>7, <1>8
  <2>3. me <= MaxListeners BY <1>1, <1>3, <2>1, AbortsAssumption
  <2>4. DOMAIN s5' = DOMAIN s5 \union {me} /\ me \notin DOMAIN s5 BY <1>3, <2>1, <2>2
  <2>5. s5'[me] = r /\ \A id \in DOMAIN s5 : s5'[id] = s5[id] BY <1>2, <1>3, <1>7, <1>8, <2>1
  <2> QED BY <2>2, <2>3, <2>4, <2>5
<1>10. PICK list : list = IF prepend THEN <<new>> \o s2[s] ELSE Append(s2[s], new) OBVIOUS
<1>11. s2' = [s2 EXCEPT ![s] = list] BY <1>1, <1>3, <1>4, <1>10
<1>12. \A t \in Aborts!Signals : s2'[t] = IF t = s THEN list ELSE s2[t] BY <1>2, <1>11
<1>13. me # Aborts!FollowId BY <1>9, AbortsAssumption DEF Aborts!FollowId
<1>14. \A t \in Aborts!Signals : me \notin Aborts!Ids(s2[t])
  <2>1. \A t \in Aborts!Signals : Aborts!Theirs(s2[t], t, s5, s4) BY DEF Aborts!IInv, Aborts!ListsAreTheirs
  <2> QED BY <1>9, <1>13, <2>1 DEF Aborts!Theirs, Aborts!Ids, Aborts!Follow
<1>15. \A f \in DOMAIN s3 : me \notin Aborts!Ids(s3[f].rest)
  <2>1. \A f \in DOMAIN s3 : Aborts!Theirs(s3[f].rest, s3[f].of, s5, s4) BY DEF Aborts!IInv,
        Aborts!ListsAreTheirs
  <2> QED BY <1>9, <1>13, <2>1 DEF Aborts!Theirs, Aborts!Ids, Aborts!Follow
<1>16. /\ list \in Seq(Aborts!Entries) /\ Aborts!Ids(list) = Aborts!Ids(s2[s]) \union {me}
       /\ Aborts!Theirs(list, s, s5', s4)
  <2>1. s2[s] \in Seq(Aborts!Entries) BY <1>2
  <2>2. Aborts!Theirs(s2[s], s, s5, s4) BY DEF Aborts!IInv, Aborts!ListsAreTheirs
  <2>4. PICK old \in Seq(Aborts!Entries) : old = s2[s] BY <2>1
  <2>9. Grown(list, old, new) BY <1>5, <1>10, <2>4, PrependGrows, AppendGrows
  <2>10. \A id \in DOMAIN s5 :
           id \in DOMAIN s5' /\ s5'[id].on = s5[id].on /\ s5'[id].once = s5[id].once
    BY <1>9
  <2>11. new.id \in DOMAIN s5' /\ s5'[new.id].on = s /\ s5'[new.id].once = new.once BY <1>5, <1>7, <1>9
  <2>12. new.id \notin Aborts!Ids(old) BY <1>5, <1>14, <2>4
  <2>13. Aborts!Theirs(old, s, s5, s4) BY <2>2, <2>4
  <2>14. list \in Seq(Aborts!Entries) /\ Aborts!Ids(list) = Aborts!Ids(old) \union {new.id}
           /\ Aborts!Theirs(list, s, s5', s4)
    <3>1. PICK r2 : r2 = s5' OBVIOUS
    <3>2. \A id \in DOMAIN s5 : id \in DOMAIN r2 /\ r2[id].on = s5[id].on /\ r2[id].once = s5[id].once
      BY <2>10, <3>1
    <3>3. new.id \in DOMAIN r2 /\ r2[new.id].on = s /\ r2[new.id].once = new.once BY <2>11, <3>1
    <3>4. new \in Aborts!Entries BY <1>5
    <3>5. list \in Seq(Aborts!Entries) /\ Aborts!Ids(list) = Aborts!Ids(old) \union {new.id}
            /\ Aborts!Theirs(list, s, r2, s4)
      BY <2>9, <2>12, <2>13, <3>2, <3>3, <3>4, GrownIs
    <3> QED BY <3>1, <3>5
  <2> QED BY <1>5, <2>4, <2>14
<1>17. Aborts!TypeOK' BY <1>1, <1>2, <1>9, <1>11, <1>16 DEF Aborts!IInv, Aborts!TypeOK
<1>18. Aborts!ListsAreTheirs'
  <2>1. \A x : PartOf(x, x) BY DEF PartOf
  <2>2. \A id \in DOMAIN s5 : id \in DOMAIN s5' /\ s5'[id] = s5[id] BY <1>9
  <2>3. \A t \in Aborts!Signals : Aborts!Theirs(s2'[t], t, s5', s4)
    BY <1>12, <1>16, <2>1, <2>2, TheirsStay DEF Aborts!IInv, Aborts!ListsAreTheirs
  <2>4. \A f \in DOMAIN s3 : Aborts!Theirs(s3[f].rest, s3[f].of, s5', s4)
    BY <2>1, <2>2, TheirsStay DEF Aborts!IInv, Aborts!ListsAreTheirs
  <2> QED BY <1>1, <2>3, <2>4 DEF Aborts!ListsAreTheirs
<1>19. Aborts!Uncalled'
  <2> SUFFICES ASSUME NEW id \in DOMAIN s5', Aborts!Single(id)'
               PROVE  /\ s5'[id].calls <= 1
                      /\ id \in Aborts!Ids(s2'[s5'[id].on]) /\ (s5'[id].once \/ ~s1'[s5'[id].on].aborted)
                            => s5'[id].calls = 0 /\ \A f \in DOMAIN s3' : id \notin Aborts!Ids(s3'[f].rest)
                      /\ \A f \in DOMAIN s3' :
                            id \in Aborts!Ids(s3'[f].rest)
                               => s5'[id].calls = 0
                                    /\ \A g \in DOMAIN s3' : id \in Aborts!Ids(s3'[g].rest) => g = f
    BY DEF Aborts!Uncalled
  <2>1. CASE id = me BY <1>1, <1>7, <1>9, <1>15, <2>1
  <2>2. CASE id # me
    <3>1. id \in DOMAIN s5 /\ s5'[id] = s5[id] /\ s5[id].on \in Aborts!Signals BY <1>9, <2>2, WhoListens
    <3>2. Aborts!Single(id) BY <3>1 DEF Aborts!Single
    <3>3. id \in Aborts!Ids(s2'[s5[id].on]) => id \in Aborts!Ids(s2[s5[id].on]) BY <1>12, <1>16, <2>2, <3>1
    <3> QED BY <1>1, <3>1, <3>2, <3>3 DEF Aborts!IInv, Aborts!Uncalled
  <2> QED BY <2>1, <2>2
<1>20. Aborts!DueAreHeard'
  <2>1. Aborts!Called \subseteq Aborts!Called' BY <1>9 DEF Aborts!Called
  <2> QED BY <1>1, <2>1 DEF Aborts!IInv, Aborts!DueAreHeard, Aborts!Waits
<1>21. Aborts!AbortsPassOn'
  <2>1. \A t \in Sources : Aborts!FollowId \in Aborts!Ids(s2[t]) => Aborts!FollowId \in Aborts!Ids(s2'[t])
    BY <1>12, <1>16 DEF Aborts!Signals
  <2> QED BY <1>1, <2>1 DEF Aborts!IInv, Aborts!AbortsPassOn, Aborts!Waits
<1> QED BY <1>17, <1>18, <1>19, <1>20, <1>21 DEF Aborts!IInv

LEMMA MakeAnyKeeps == Aborts!IInv /\ Aborts!MakeAny => Aborts!IInv'
<1> SUFFICES ASSUME Aborts!IInv, Aborts!MakeAny PROVE Aborts!IInv' OBVIOUS
<1> DEFINE aborted == {s \in Sources : s1[s].aborted}
<1>0. /\ s4 = "no" /\ UNCHANGED <<s3, s5, s6, s7>>
      /\ s1 \in [Aborts!Signals -> [aborted : BOOLEAN, reason : Aborts!Reasons, sent : Aborts!Reasons]]
      /\ s2 \in [Aborts!Signals -> Seq(Aborts!Entries)] /\ Sources \subseteq Aborts!Signals
           /\ Composite \in Aborts!Signals
  BY DEF Aborts!IInv, Aborts!TypeOK, Aborts!MakeAny, Aborts!Signals
<1>1. CASE aborted = {}
  <2>1. /\ s4' = "follows" /\ UNCHANGED s1
        /\ s2' = [s \in Aborts!Signals |-> IF s = Composite THEN <<>> ELSE Append(s2[s], Aborts!Follow)]
    BY <1>1 DEF Aborts!MakeAny
  <2>2. Aborts!Follow \in Aborts!Entries /\ Aborts!Follow.id = Aborts!FollowId
    BY AbortsAssumption DEF Aborts!Follow, Aborts!FollowId, Aborts!Entries
  <2>3. ASSUME NEW t \in Aborts!Signals
        PROVE  /\ s2'[t] \in Seq(Aborts!Entries)
                    /\ Aborts!Ids(s2'[t]) \subseteq Aborts!Ids(s2[t]) \union {Aborts!FollowId}
               /\ t # Composite => Aborts!FollowId \in Aborts!Ids(s2'[t])
               /\ Aborts!Theirs(s2'[t], t, s5', s4')
    <3>1. CASE t = Composite
      <4>1. s2'[t] = <<>> BY <2>1, <3>1
      <4>2. DOMAIN s2'[t] = {} BY <4>1
      <4>3. <<>> \in Seq(Aborts!Entries) OBVIOUS
      <4> QED BY <3>1, <4>1, <4>2, <4>3 DEF Aborts!Theirs, Aborts!Distinct, Aborts!Ids
    <3>2. CASE t # Composite
      <4>1. s2'[t] = Append(s2[t], Aborts!Follow) BY <2>1, <3>2
      <4>2. s2[t] \in Seq(Aborts!Entries) /\ Aborts!Theirs(s2[t], t, s5, s4) BY <1>0 DEF Aborts!IInv,
            Aborts!ListsAreTheirs
      <4>3. Grown(s2'[t], s2[t], Aborts!Follow) BY <2>2, <4>1, <4>2, AppendGrows
      <4>4. Aborts!FollowId \notin Aborts!Ids(s2[t]) BY <1>0, <4>2, WhoListens DEF Aborts!Theirs, Aborts!Ids
      <4>5. t \in Sources BY <3>2 DEF Aborts!Signals
      <4>6. s5' = s5 BY <1>0
      <4>7. /\ s2'[t] \in Seq(Aborts!Entries)
                 /\ Aborts!Ids(s2'[t]) = Aborts!Ids(s2[t]) \union {Aborts!FollowId}
            /\ Aborts!Theirs(s2'[t], t, s5', s4')
        BY <1>0, <2>1, <2>2, <4>2, <4>3, <4>4, <4>5, <4>6, GrownIs
      <4> QED BY <4>7
    <3> QED BY <3>1, <3>2
  <2>4. s2' \in [Aborts!Signals -> Seq(Aborts!Entries)] BY <2>1, <2>3
  <2>5. Aborts!TypeOK' BY <1>0, <2>1, <2>4 DEF Aborts!IInv, Aborts!TypeOK
  <2>6. Aborts!ListsAreTheirs'
    <3>1. \A x : PartOf(x, x) BY DEF PartOf
    <3>2. \A f \in DOMAIN s3 : Aborts!Theirs(s3[f].rest, s3[f].of, s5, s4')
      BY <1>0, <3>1, TheirsStay DEF Aborts!IInv, Aborts!ListsAreTheirs
    <3> QED BY <1>0, <2>3, <3>2 DEF Aborts!ListsAreTheirs
  <2>7. Aborts!Uncalled'
    <3>1. \A id \in DOMAIN s5 : id # Aborts!FollowId /\ s5[id].on \in Aborts!Signals BY WhoListens
    <3> QED BY <1>0, <2>1, <2>3, <3>1 DEF Aborts!IInv, Aborts!Uncalled, Aborts!Single
  <2>8. Aborts!DueAreHeard' BY <1>0 DEF Aborts!IInv, Aborts!DueAreHeard, Aborts!Waits, Aborts!Called
  <2>9. Aborts!AbortsPassOn'
    <3>1. \A t \in Sources : ~s1[t].aborted /\ Aborts!FollowId \in Aborts!Ids(s2'[t])
      BY <1>0, <1>1, <2>3, AbortsAssumption
    <3>2. ~s1[Composite].aborted BY <1>0 DEF Aborts!IInv, Aborts!AbortsPassOn
    <3> QED BY <1>0, <2>1, <3>1, <3>2 DEF Aborts!IInv, Aborts!AbortsPassOn
  <2> QED BY <2>5, <2>6, <2>7, <2>8, <2>9 DEF Aborts!IInv
<1>2. CASE aborted # {}
  <2>1. PICK s \in aborted :
          s1' = [s1 EXCEPT ![Composite].aborted = TRUE, ![Composite].reason = s]
    BY <1>2 DEF Aborts!MakeAny
  <2>2. s4' = "born" /\ UNCHANGED s2 BY <1>2 DEF Aborts!MakeAny
  <2>3. s \in Sources /\ s1[s].aborted OBVIOUS
  <2>4. /\ s1' \in [Aborts!Signals -> [aborted : BOOLEAN, reason : Aborts!Reasons, sent : Aborts!Reasons]]
        /\ s1'[Composite].aborted /\ s1'[Composite].reason = s
        /\ \A t \in Sources : s1'[t] = s1[t]
    <3>1. s1[Composite] \in [aborted : BOOLEAN, reason : Aborts!Reasons, sent : Aborts!Reasons]
            /\ s \in Aborts!Reasons
      BY <1>0, <2>3 DEF Aborts!Reasons
    <3>2. PICK c : c = [s1[Composite] EXCEPT !.aborted = TRUE, !.reason = s] OBVIOUS
    <3>3. c \in [aborted : BOOLEAN, reason : Aborts!Reasons, sent : Aborts!Reasons] /\ c.aborted
            /\ c.reason = s BY <3>1, <3>2
    <3>4. s1' = [s1 EXCEPT ![Composite] = c] BY <2>1, <3>2
    <3> QED BY <1>0, <3>3, <3>4, AbortsAssumption
  <2> HIDE DEF aborted
  <2>5. Aborts!TypeOK' BY <1>0, <2>2, <2>4 DEF Aborts!IInv, Aborts!TypeOK
  <2>6. Aborts!ListsAreTheirs'
    <3>1. \A x : PartOf(x, x) BY DEF PartOf
    <3>2. \A f \in DOMAIN s3 : Aborts!Theirs(s3[f].rest, s3[f].of, s5, s4')
      BY <1>0, <3>1, TheirsStay DEF Aborts!IInv, Aborts!ListsAreTheirs
    <3>3. \A t \in Aborts!Signals : Aborts!Theirs(s2[t], t, s5, s4')
      BY <1>0, <3>1, TheirsStay DEF Aborts!IInv, Aborts!ListsAreTheirs
    <3> QED BY <1>0, <2>2, <3>2, <3>3 DEF Aborts!ListsAreTheirs
  <2>7. Aborts!Uncalled'
    <3>1. \A id \in DOMAIN s5 : s5[id].on \in Aborts!Signals BY WhoListens
    <3>2. \A t \in Aborts!Signals : s1[t].aborted => s1'[t].aborted BY <2>4 DEF Aborts!Signals
    <3> QED BY <1>0, <2>2, <3>1, <3>2 DEF Aborts!IInv, Aborts!Uncalled, Aborts!Single
  <2>8. Aborts!DueAreHeard' BY <1>0 DEF Aborts!IInv, Aborts!DueAreHeard, Aborts!Waits, Aborts!Called
  <2>9. Aborts!AbortsPassOn' BY <1>0, <2>2, <2>3, <2>4 DEF Aborts!IInv, Aborts!AbortsPassOn
  <2> QED BY <2>5, <2>6, <2>7, <2>8, <2>9 DEF Aborts!IInv
<1> QED BY <1>1, <1>2

\* A dispatch of a source that is not aborted, or of the composite by a follow.
LEMMA Dispatches ==
  ASSUME Aborts!IInv, NEW s \in Aborts!Signals, NEW r \in Sources, NEW below \in Seq(Aborts!Frames),
         Aborts!SendAborted(s, r, below), UNCHANGED <<s4, s5, s7>>,
         Len(below) = Len(s3),
         \A f \in DOMAIN s3 :
            /\ below[f].of = s3[f].of /\ PartOf(below[f].rest, s3[f].rest)
            /\ Aborts!Ids(s3[f].rest) \subseteq Aborts!Ids(below[f].rest) \union (IF s = Composite THEN {Aborts!FollowId} ELSE {}),
         s # Composite => s = r /\ ~s1[s].aborted,
         s = Composite => s1[r].aborted /\ s4 = "follows"
  PROVE  Aborts!IInv'
<1>0. /\ s1 \in [Aborts!Signals -> [aborted : BOOLEAN, reason : Aborts!Reasons, sent : Aborts!Reasons]]
      /\ s2 \in [Aborts!Signals -> Seq(Aborts!Entries)] /\ Sources \subseteq Aborts!Signals
           /\ Composite \in Aborts!Signals
      /\ s3 \in Seq(Aborts!Frames)
  BY DEF Aborts!IInv, Aborts!TypeOK, Aborts!Signals
<1>1. /\ s1' \in [Aborts!Signals -> [aborted : BOOLEAN, reason : Aborts!Reasons, sent : Aborts!Reasons]]
      /\ s1'[s].aborted /\ s1'[s].reason = r /\ s1'[s].sent # Aborts!NoReason
      /\ \A t \in Aborts!Signals : t # s => s1'[t] = s1[t]
  <2>1. PICK c : c = [aborted |-> TRUE, reason |-> r,
                      sent |-> IF s1[s].sent = Aborts!NoReason THEN r ELSE s1[s].sent]
    OBVIOUS
  <2>2. s1[s].sent \in Aborts!Reasons /\ r \in Aborts!Reasons /\ r # Aborts!NoReason BY <1>0,
        AbortsAssumption DEF Aborts!Reasons
  <2>3. c \in [aborted : BOOLEAN, reason : Aborts!Reasons, sent : Aborts!Reasons] /\ c.aborted
          /\ c.reason = r /\ c.sent # Aborts!NoReason
    BY <2>1, <2>2
  <2>4. s1' = [s1 EXCEPT ![s] = c] BY <2>1 DEF Aborts!SendAborted
  <2> QED BY <1>0, <2>3, <2>4
<1>2. PICK kept : kept = Aborts!Remaining(s2[s]) OBVIOUS
<1>3. kept \in Seq(Aborts!Entries) /\ PartOf(kept, s2[s]) /\ \A k \in DOMAIN kept : ~kept[k].once
  BY <1>0, <1>2, RemainingIs
<1>4. s2' = [s2 EXCEPT ![s] = kept] BY <1>2 DEF Aborts!SendAborted
<1>5. /\ s2' \in [Aborts!Signals -> Seq(Aborts!Entries)]
      /\ \A t \in Aborts!Signals : s2'[t] = IF t = s THEN kept ELSE s2[t]
  BY <1>0, <1>3, <1>4
<1>6. PICK new : new = [of |-> s, rest |-> s2[s], in |-> 0] OBVIOUS
<1>7. new \in Aborts!Frames /\ new.of = s /\ new.rest = s2[s] BY <1>0, <1>6 DEF Aborts!Frames
<1>8. s3' = <<new>> \o below BY <1>6 DEF Aborts!SendAborted
<1>9. PICK n \in Nat : n = Len(below) /\ n = Len(s3) BY <1>0
<1>10. /\ s3' \in Seq(Aborts!Frames) /\ Len(s3') = n + 1 /\ s3'[1] = new
       /\ \A f \in 1..n : s3'[f + 1] = below[f]
  BY <1>7, <1>8, <1>9
<1>11. DOMAIN s3 = 1..n /\ DOMAIN s3' = 1..(n + 1) BY <1>0, <1>9, <1>10
<1>12. /\ 1 \in DOMAIN s3' /\ \A f \in DOMAIN s3 : f + 1 \in DOMAIN s3' /\ s3'[f + 1] = below[f]
       /\ \A g \in DOMAIN s3' : g # 1 => g - 1 \in DOMAIN s3 /\ s3'[g] = below[g - 1]
  <2>1. \A f \in DOMAIN s3 : f + 1 \in DOMAIN s3' /\ s3'[f + 1] = below[f] BY <1>10, <1>11
  <2>2. ASSUME NEW g \in DOMAIN s3', g # 1 PROVE g - 1 \in DOMAIN s3 /\ s3'[g] = below[g - 1]
    <3>1. g - 1 \in 1..n /\ (g - 1) + 1 = g BY <1>11, <2>2
    <3> QED BY <1>10, <1>11, <3>1
  <2> QED BY <1>11, <2>1, <2>2
<1>13. s6' = s6 \union Aborts!Ids(s2[s]) BY DEF Aborts!SendAborted
<1>14. Aborts!TypeOK' BY <1>1, <1>5, <1>10 DEF Aborts!IInv, Aborts!TypeOK
<1>15. \A id \in DOMAIN s5 : id \in DOMAIN s5' /\ s5'[id] = s5[id] OBVIOUS
<1>16. Aborts!ListsAreTheirs'
  <2>1. \A x : PartOf(x, x) BY DEF PartOf
  <2>2. \A t \in Aborts!Signals : Aborts!Theirs(s2[t], t, s5, s4) BY DEF Aborts!IInv, Aborts!ListsAreTheirs
  <2>3. \A f \in DOMAIN s3 : Aborts!Theirs(s3[f].rest, s3[f].of, s5, s4) BY DEF Aborts!IInv,
        Aborts!ListsAreTheirs
  <2>4. \A t \in Aborts!Signals : Aborts!Theirs(s2'[t], t, s5, s4) BY <1>3, <1>5, <2>1, <2>2, TheirsStay
  <2>5. \A g \in DOMAIN s3' : Aborts!Theirs(s3'[g].rest, s3'[g].of, s5, s4)
    <3>1. Aborts!Theirs(s3'[1].rest, s3'[1].of, s5, s4) BY <1>7, <1>10, <2>2
    <3>2. \A f \in DOMAIN s3 : Aborts!Theirs(below[f].rest, below[f].of, s5, s4) BY <2>3, TheirsStay
    <3> QED BY <1>12, <3>1, <3>2
  <2> QED BY <2>4, <2>5 DEF Aborts!ListsAreTheirs
<1>17. \A f \in DOMAIN s3 : Aborts!Ids(below[f].rest) \subseteq Aborts!Ids(s3[f].rest) BY PartOfIds
<1>18. Aborts!Uncalled'
  <2> SUFFICES ASSUME NEW id \in DOMAIN s5, Aborts!Single(id)
               PROVE  /\ s5[id].calls <= 1
                      /\ id \in Aborts!Ids(s2'[s5[id].on]) /\ (s5[id].once \/ ~s1'[s5[id].on].aborted)
                            => s5[id].calls = 0 /\ \A f \in DOMAIN s3' : id \notin Aborts!Ids(s3'[f].rest)
                      /\ \A f \in DOMAIN s3' :
                            id \in Aborts!Ids(s3'[f].rest)
                               => s5[id].calls = 0
                                    /\ \A g \in DOMAIN s3' : id \in Aborts!Ids(s3'[g].rest) => g = f
    BY DEF Aborts!Uncalled, Aborts!Single
  <2>1. /\ s5[id].calls <= 1
        /\ id \in Aborts!Ids(s2[s5[id].on]) /\ (s5[id].once \/ ~s1[s5[id].on].aborted)
              => s5[id].calls = 0 /\ \A f \in DOMAIN s3 : id \notin Aborts!Ids(s3[f].rest)
        /\ \A f \in DOMAIN s3 :
              id \in Aborts!Ids(s3[f].rest)
                 => s5[id].calls = 0
                      /\ \A g \in DOMAIN s3 : id \in Aborts!Ids(s3[g].rest) => g = f
    BY DEF Aborts!IInv, Aborts!Uncalled
  <2>2. /\ s5[id].on \in Aborts!Signals
        /\ \A t \in Aborts!Signals : \A i \in DOMAIN s2[t] :
               s2[t][i].id = id => s5[id].on = t /\ s2[t][i].once = s5[id].once
    BY WhoListens
  <2>3. id \in Aborts!Ids(s2[s]) => s5[id].on = s BY <2>2 DEF Aborts!Ids
  <2>4. id \in Aborts!Ids(kept) => ~s5[id].once
    <3>1. ASSUME NEW k \in DOMAIN kept, kept[k].id = id PROVE ~s5[id].once
      <4>1. PICK i \in DOMAIN s2[s] : kept[k] = s2[s][i] BY <1>3 DEF PartOf
      <4> QED BY <1>3, <2>2, <3>1, <4>1
    <3> QED BY <3>1 DEF Aborts!Ids
  <2>5. id \in Aborts!Ids(s2[s]) => s5[id].calls = 0 /\ \A f \in DOMAIN s3 :
          id \notin Aborts!Ids(s3[f].rest)
    <3>1. id \in Aborts!Ids(s2[s]) => s5[id].once \/ ~s1[s].aborted BY <2>3 DEF Aborts!Single
    <3> QED BY <2>1, <2>3, <3>1
  <2>6. \A g \in DOMAIN s3' : IF g = 1 THEN Aborts!Ids(s3'[g].rest) = Aborts!Ids(s2[s])
                                 ELSE g - 1 \in DOMAIN s3
                                   /\ Aborts!Ids(s3'[g].rest) \subseteq Aborts!Ids(s3[g - 1].rest)
    BY <1>7, <1>10, <1>12, <1>17
  <2>7. ASSUME id \in Aborts!Ids(s2'[s5[id].on]), s5[id].once \/ ~s1'[s5[id].on].aborted
        PROVE  s5[id].calls = 0 /\ \A f \in DOMAIN s3' : id \notin Aborts!Ids(s3'[f].rest)
    <3>1. s5[id].on # s
      <4>1. s5[id].on = s => id \in Aborts!Ids(kept) BY <1>5, <2>7
      <4> QED BY <1>1, <2>4, <2>7, <4>1
    <3>2. id \notin Aborts!Ids(s2[s]) BY <2>3, <3>1
    <3>3. id \in Aborts!Ids(s2[s5[id].on]) /\ s1'[s5[id].on] = s1[s5[id].on]
      BY <1>1, <1>5, <2>2, <2>7, <3>1
    <3> QED BY <2>1, <2>6, <2>7, <3>2, <3>3
  <2>8. ASSUME NEW f \in DOMAIN s3', id \in Aborts!Ids(s3'[f].rest)
        PROVE  s5[id].calls = 0 /\ \A g \in DOMAIN s3' : id \in Aborts!Ids(s3'[g].rest) => g = f
    <3>1. CASE f = 1
      <4>1. id \in Aborts!Ids(s2[s]) BY <2>6, <2>8, <3>1
      <4> QED BY <2>5, <2>6, <3>1, <4>1
    <3>2. CASE f # 1
      <4>1. f - 1 \in DOMAIN s3 /\ id \in Aborts!Ids(s3[f - 1].rest) BY <2>6, <2>8, <3>2
      <4>2. id \notin Aborts!Ids(s2[s]) BY <2>5, <4>1
      <4>3. ASSUME NEW g \in DOMAIN s3', id \in Aborts!Ids(s3'[g].rest) PROVE g = f
        <5>1. g # 1 /\ g - 1 \in DOMAIN s3 /\ id \in Aborts!Ids(s3[g - 1].rest) BY <2>6, <4>2, <4>3
        <5>2. g - 1 = f - 1 BY <2>1, <4>1, <5>1
        <5> QED BY <1>11, <5>2
      <4> QED BY <2>1, <4>1, <4>3
    <3> QED BY <3>1, <3>2
  <2> QED BY <2>1, <2>7, <2>8
<1>19. ASSUME NEW id, Aborts!Waits(id), s = Composite => id # Aborts!FollowId PROVE Aborts!Waits(id)'
  <2>1. PICK f \in DOMAIN s3 : id \in Aborts!Ids(s3[f].rest) BY <1>19 DEF Aborts!Waits
  <2>2. id \in Aborts!Ids(below[f].rest) BY <1>19, <2>1
  <2>3. f + 1 \in DOMAIN s3' /\ id \in Aborts!Ids(s3'[f + 1].rest) BY <1>12, <2>2
  <2> QED BY <2>3 DEF Aborts!Waits
<1>20. \A id \in Aborts!Ids(s2[s]) : Aborts!Waits(id)' BY <1>7, <1>10, <1>12 DEF Aborts!Waits
<1>21. Aborts!DueAreHeard'
  <2> SUFFICES ASSUME NEW id \in s6', id # Aborts!FollowId
    PROVE id \in Aborts!Called' \/ id \in s7' \/ Aborts!Waits(id)'
    BY DEF Aborts!DueAreHeard
  <2>1. Aborts!Called' = Aborts!Called BY DEF Aborts!Called
  <2> QED BY <1>13, <1>19, <1>20, <2>1 DEF Aborts!IInv, Aborts!DueAreHeard
<1>22. Aborts!AbortsPassOn'
  <2>1. \A g \in DOMAIN s3' : s3'[g].of \in Sources => s1'[s3'[g].of].aborted
    <3>1. \A f \in DOMAIN s3 : s3[f].of \in Sources => s1[s3[f].of].aborted BY DEF Aborts!IInv,
          Aborts!AbortsPassOn
    <3>2. \A f \in DOMAIN s3 : below[f].of \in Sources => s1'[below[f].of].aborted BY <1>0, <1>1, <3>1
    <3> QED BY <1>1, <1>7, <1>10, <1>12, <3>2
  <2>2. CASE s = Composite
    <3>1. \A t \in Sources : s1'[t] = s1[t] /\ s2'[t] = s2[t]
      BY <1>0, <1>1, <1>5, <2>2, AbortsAssumption
    <3> QED BY <1>1, <2>1, <2>2, <3>1 DEF Aborts!IInv, Aborts!AbortsPassOn
  <2>3. CASE s # Composite
    <3>1. s \in Sources /\ s = r /\ ~s1[s].aborted BY <2>3 DEF Aborts!Signals
    <3>2. s1'[Composite] = s1[Composite] BY <1>0, <1>1, <2>3
    <3>3. \A t \in Sources : t # s => s1'[t] = s1[t] /\ s2'[t] = s2[t]
      BY <1>0, <1>1, <1>5
    <3>4. s4 = "follows" => Aborts!Waits(Aborts!FollowId)' BY <1>20, <3>1 DEF Aborts!IInv,
          Aborts!AbortsPassOn
    <3>5. Aborts!Waits(Aborts!FollowId) => Aborts!Waits(Aborts!FollowId)' BY <1>19, <2>3
    <3>6. ASSUME s4 = "follows", NEW t \in Sources
          PROVE  IF s1'[t].aborted
                 THEN s1'[Composite].aborted \/ Aborts!FollowId \in s7' \/ Aborts!Waits(Aborts!FollowId)'
                 ELSE Aborts!FollowId \in Aborts!Ids(s2'[t])
      BY <1>1, <3>2, <3>3, <3>4, <3>6 DEF Aborts!IInv, Aborts!AbortsPassOn
    <3>7. \A t \in Sources : s1'[t].aborted => s1'[t].reason = t BY <1>1, <3>1, <3>3 DEF Aborts!IInv,
          Aborts!AbortsPassOn
    <3>8. s1'[Composite].aborted
             => \E t \in Sources : s1'[t].aborted /\ s1'[Composite].reason = t
      BY <1>1, <3>1, <3>2, <3>3 DEF Aborts!IInv, Aborts!AbortsPassOn
    <3> QED BY <2>1, <3>2, <3>6, <3>7, <3>8 DEF Aborts!IInv, Aborts!AbortsPassOn
  <2> QED BY <2>2, <2>3
<1> QED BY <1>14, <1>16, <1>18, <1>21, <1>22 DEF Aborts!IInv

LEMMA AbortKeeps == Aborts!IInv /\ Aborts!Abort => Aborts!IInv'
<1> SUFFICES ASSUME Aborts!IInv, Aborts!Abort PROVE Aborts!IInv' OBVIOUS
<1>1. PICK s \in Sources : ~s1[s].aborted /\ Aborts!SendAborted(s, s, s3) /\ UNCHANGED <<s4, s5, s7>>
  BY DEF Aborts!Abort
<1>2. s \in Aborts!Signals /\ s # Composite /\ s3 \in Seq(Aborts!Frames)
  BY AbortsAssumption DEF Aborts!Signals, Aborts!IInv, Aborts!TypeOK
<1>3. \A x : PartOf(x, x) BY DEF PartOf
<1> QED BY <1>1, <1>2, <1>3, Dispatches

LEMMA FollowKeeps == Aborts!IInv /\ Aborts!CallFollow => Aborts!IInv'
<1> SUFFICES ASSUME Aborts!IInv, Aborts!CallFollow PROVE Aborts!IInv' OBVIOUS
<1>1. /\ s3 \in Seq(Aborts!Frames) /\ s3 # <<>> /\ s3[1].rest # <<>> /\ s3[1].rest[1].id = Aborts!FollowId
      /\ Aborts!SendAborted(Composite, s1[s3[1].of].reason, Aborts!Entered)
      /\ UNCHANGED <<s4, s5, s7>>
  BY DEF Aborts!IInv, Aborts!TypeOK, Aborts!CallFollow, Aborts!Running
<1>2. 1 \in DOMAIN s3 /\ s3[1] \in Aborts!Frames BY <1>1
<1>3. s3[1].rest \in Seq(Aborts!Entries) BY <1>2 DEF Aborts!Frames
<1>4. Aborts!Theirs(s3[1].rest, s3[1].of, s5, s4) BY <1>2 DEF Aborts!IInv, Aborts!ListsAreTheirs
<1>5. s3[1].of \in Sources /\ s4 = "follows"
  <2>1. 1 \in DOMAIN s3[1].rest BY <1>1, <1>3
  <2> QED BY <1>1, <1>4, <2>1, WhoListens DEF Aborts!Theirs
<1>6. s1[s3[1].of].aborted /\ s1[s3[1].of].reason = s3[1].of BY <1>2, <1>5 DEF Aborts!IInv,
      Aborts!AbortsPassOn
<1>7. PICK below : below = Aborts!Entered OBVIOUS
<1>8. /\ below \in Seq(Aborts!Frames) /\ Len(below) = Len(s3)
      /\ below[1].of = s3[1].of /\ below[1].rest = Tail(s3[1].rest)
      /\ \A f \in DOMAIN s3 : f # 1 => below[f] = s3[f]
  BY <1>1, <1>3, <1>7, EnteredIs
<1>9. /\ PartOf(Tail(s3[1].rest), s3[1].rest)
      /\ Aborts!Ids(s3[1].rest) = Aborts!Ids(Tail(s3[1].rest)) \union {Aborts!FollowId}
  BY <1>1, <1>3, RestIs
<1>10. \A f \in DOMAIN s3 :
          /\ below[f].of = s3[f].of /\ PartOf(below[f].rest, s3[f].rest)
          /\ Aborts!Ids(s3[f].rest) \subseteq Aborts!Ids(below[f].rest) \union {Aborts!FollowId}
  <2>1. \A x : PartOf(x, x) BY DEF PartOf
  <2> QED BY <1>8, <1>9, <2>1
<1>11. PICK r \in Sources : r = s3[1].of BY <1>5
<1>12. Aborts!SendAborted(Composite, r, below) BY <1>1, <1>6, <1>7, <1>11
<1>13. PICK s \in Aborts!Signals : s = Composite BY DEF Aborts!Signals
<1>14. \A f \in DOMAIN s3 :
          /\ below[f].of = s3[f].of /\ PartOf(below[f].rest, s3[f].rest)
          /\ Aborts!Ids(s3[f].rest) \subseteq Aborts!Ids(below[f].rest) \union (IF s = Composite THEN {Aborts!FollowId} ELSE {})
  BY <1>10, <1>13
<1>15. Aborts!SendAborted(s, r, below) BY <1>12, <1>13
<1>16. s1[r].aborted /\ s4 = "follows" BY <1>5, <1>6, <1>11
<1>17. below \in Seq(Aborts!Frames) /\ Len(below) = Len(s3) /\ UNCHANGED <<s4, s5, s7>> BY <1>1, <1>8
<1> QED BY <1>13, <1>14, <1>15, <1>16, <1>17, Dispatches

LEMMA AbortsNext == Aborts!IInv /\ [Aborts!Next]_(Aborts!vars) => Aborts!IInv'
<1> SUFFICES ASSUME Aborts!IInv, [Aborts!Next]_(Aborts!vars) PROVE Aborts!IInv' OBVIOUS
<1>1. CASE UNCHANGED Aborts!vars
  BY <1>1 DEF Aborts!vars, Aborts!IInv, Aborts!TypeOK, Aborts!ListsAreTheirs, Aborts!Uncalled,
    Aborts!Single, Aborts!DueAreHeard, Aborts!Waits, Aborts!Called, Aborts!AbortsPassOn
<1>2. CASE Aborts!Next BY <1>2, AbortKeeps, MakeAnyKeeps, AbortListenKeeps, AbortUnlistenKeeps,
      ListenerCallKeeps, FollowKeeps, ListenerReturnKeeps,
                   ListenerThrowKeeps, DispatchEndKeeps DEF Aborts!Next
<1> QED BY <1>1, <1>2

-----------------------------------------------------------------------------
(* Emitters *)

\* What a part of a list has of it.
LEMMA PartIs ==
  ASSUME NEW part, NEW list, NEW but, PartBut(part, list, but)
  PROVE  /\ Emitter!Ids(part) \subseteq Emitter!Ids(list)
         /\ Emitter!Ids(list) \subseteq Emitter!Ids(part) \union {list[i].id :
              i \in but \intersect DOMAIN list}
         /\ Emitter!Distinct(list) => /\ Emitter!Distinct(part)
                              /\ \A i \in but \intersect DOMAIN list : list[i].id \notin Emitter!Ids(part)
         /\ \A k \in DOMAIN part : \E i \in DOMAIN list : i \notin but /\ part[k] = list[i]
<1>1. PICK at \in [DOMAIN part -> DOMAIN list \ but] :
        /\ \A k \in DOMAIN part : part[k] = list[at[k]]
        /\ \A k, l \in DOMAIN part : at[k] = at[l] => k = l
        /\ \A i \in DOMAIN list : i \notin but => \E k \in DOMAIN part : at[k] = i
  BY DEF PartBut
<1>2. \A k \in DOMAIN part : at[k] \in DOMAIN list /\ at[k] \notin but OBVIOUS
<1>3. Emitter!Ids(part) \subseteq Emitter!Ids(list) BY <1>1, <1>2 DEF Emitter!Ids
<1>4. Emitter!Ids(list) \subseteq Emitter!Ids(part) \union {list[i].id : i \in but \intersect DOMAIN list}
  <2>1. \A i \in DOMAIN list : i \notin but => \E k \in DOMAIN part : part[k] = list[i] BY <1>1
  <2> QED BY <2>1 DEF Emitter!Ids
<1>5. Emitter!Distinct(list) => Emitter!Distinct(part) BY <1>1, <1>2 DEF Emitter!Distinct
<1>6. Emitter!Distinct(list) => \A i \in but \intersect DOMAIN list : list[i].id \notin Emitter!Ids(part)
  BY <1>1, <1>2 DEF Emitter!Distinct, Emitter!Ids
<1>7. \A k \in DOMAIN part : \E i \in DOMAIN list : i \notin but /\ part[k] = list[i] BY <1>1, <1>2
<1> QED BY <1>3, <1>4, <1>5, <1>6, <1>7

LEMMA IndexIs ==
  ASSUME NEW table \in Seq(Emitter!TableEntries), NEW event
  PROVE  IF \E i \in DOMAIN table : table[i].event = event
         THEN Emitter!Index(table, event) \in DOMAIN table
           /\ table[Emitter!Index(table, event)].event = event
         ELSE Emitter!Index(table, event) = 0
<1> DEFINE I == {i \in 1..Len(table) : table[i].event = event}
<1>1. Emitter!Index(table, event) = IF I # {} THEN Emitter!Min(I) ELSE 0 BY DEF Emitter!Index,
      Emitter!SelectInSeq
<1>2. DOMAIN table = 1..Len(table) OBVIOUS
<1>3. CASE I # {}
  <2>1. I \subseteq Nat OBVIOUS
  <2>2. \E n \in I : \A m \in I : n <= m
    <3> HIDE DEF I
    <3> QED BY <1>3, <2>1, Least
  <2>3. Emitter!Min(I) \in I
    <3> HIDE DEF I
    <3> QED BY <2>2 DEF Emitter!Min
  <2> QED BY <1>1, <1>2, <1>3, <2>3
<1>4. CASE I = {} BY <1>1, <1>2, <1>4
<1> QED BY <1>3, <1>4

\* The listeners of an event that is in the table, and of one that is not.
LEMMA ListenersAre ==
  ASSUME NEW table \in Seq(Emitter!TableEntries), Emitter!Proper(table), NEW event
  PROVE  /\ Emitter!ListenersOf(table, event) \in Seq(Emitter!Items)
         /\ \A i \in DOMAIN table :
               table[i].event = event => Emitter!Index(table, event) = i
                 /\ Emitter!ListenersOf(table, event) = table[i].items
         /\ (\A i \in DOMAIN table : table[i].event # event)
               => Emitter!Index(table, event) = 0 /\ Emitter!ListenersOf(table, event) = <<>>
<1>1. ASSUME NEW i \in DOMAIN table, table[i].event = event
      PROVE  Emitter!Index(table, event) = i /\ Emitter!ListenersOf(table, event) = table[i].items
  <2>1. Emitter!Index(table, event) \in DOMAIN table /\ table[Emitter!Index(table, event)].event = event
    BY <1>1, IndexIs
  <2>2. Emitter!Index(table, event) = i BY <1>1, <2>1 DEF Emitter!Proper
  <2>3. i # 0 OBVIOUS
  <2> QED BY <2>2, <2>3 DEF Emitter!ListenersOf
<1>2. ASSUME \A i \in DOMAIN table : table[i].event # event
      PROVE  Emitter!Index(table, event) = 0 /\ Emitter!ListenersOf(table, event) = <<>>
  <2>1. Emitter!Index(table, event) = 0 BY <1>2, IndexIs
  <2> QED BY <2>1 DEF Emitter!ListenersOf
<1>3. Emitter!ListenersOf(table, event) \in Seq(Emitter!Items)
  <2>1. CASE \A i \in DOMAIN table : table[i].event # event
    <3>1. <<>> \in Seq(Emitter!Items) OBVIOUS
    <3> QED BY <1>2, <2>1, <3>1
  <2>2. CASE \E i \in DOMAIN table : table[i].event = event
    <3>1. PICK i \in DOMAIN table : table[i].event = event BY <2>2
    <3>2. table[i] \in Emitter!TableEntries OBVIOUS
    <3>3. table[i].items \in Seq(Emitter!Items) BY <3>2 DEF Emitter!TableEntries
    <3> QED BY <1>1, <3>1, <3>3
  <2> QED BY <2>1, <2>2
<1> QED BY <1>1, <1>2, <1>3

LEMMA PartIsProper ==
  ASSUME NEW table \in Seq(Emitter!TableEntries), Emitter!Proper(table), NEW part \in Seq(Emitter!TableEntries), NEW but,
         PartBut(part, table, but)
  PROVE  /\ Emitter!Proper(part)
         /\ \A event : Emitter!ListenersOf(part, event) =
               IF \E i \in DOMAIN table : i \in but /\ table[i].event = event THEN <<>>
               ELSE Emitter!ListenersOf(table, event)
<1>1. PICK at \in [DOMAIN part -> DOMAIN table \ but] :
        /\ \A k \in DOMAIN part : part[k] = table[at[k]]
        /\ \A k, l \in DOMAIN part : at[k] = at[l] => k = l
        /\ \A i \in DOMAIN table : i \notin but => \E k \in DOMAIN part : at[k] = i
  BY DEF PartBut
<1>2. \A k \in DOMAIN part : at[k] \in DOMAIN table /\ at[k] \notin but OBVIOUS
<1>3. Emitter!Proper(part) BY <1>1, <1>2 DEF Emitter!Proper
<1>4. ASSUME NEW event
      PROVE  Emitter!ListenersOf(part, event) =
               IF \E i \in DOMAIN table : i \in but /\ table[i].event = event THEN <<>>
               ELSE Emitter!ListenersOf(table, event)
  <2>1. CASE \E k \in DOMAIN part : part[k].event = event
    <3>1. PICK k \in DOMAIN part : part[k].event = event BY <2>1
    <3>2. Emitter!ListenersOf(part, event) = part[k].items BY <1>3, <3>1, ListenersAre
    <3>3. Emitter!ListenersOf(table, event) = table[at[k]].items BY <1>1, <1>2, <3>1, ListenersAre
    <3>4. ~\E i \in DOMAIN table : i \in but /\ table[i].event = event BY <1>1, <1>2,
          <3>1 DEF Emitter!Proper
    <3> QED BY <1>1, <3>2, <3>3, <3>4
  <2>2. CASE \A k \in DOMAIN part : part[k].event # event
    <3>1. Emitter!ListenersOf(part, event) = <<>> BY <1>3, <2>2, ListenersAre
    <3>2. \A i \in DOMAIN table : table[i].event = event => i \in but BY <1>1, <2>2
    <3> QED BY <3>1, <3>2, ListenersAre
  <2> QED BY <2>1, <2>2
<1> QED BY <1>3, <1>4

LEMMA WithListenersIs ==
  ASSUME NEW table \in Seq(Emitter!TableEntries), Emitter!Proper(table), NEW event \in Events, NEW items \in Seq(Emitter!Items),
         items # <<>> \/ Emitter!ListenersOf(table, event) # <<>>
  PROVE  LET t == Emitter!WithListeners(table, event, items)
         IN  /\ t \in Seq(Emitter!TableEntries) /\ Emitter!Proper(t)
           /\ Emitter!ListenersOf(t, event) = items
             /\ \A e : e # event => Emitter!ListenersOf(t, e) = Emitter!ListenersOf(table, e)
<1>0. PICK t : t = Emitter!WithListeners(table, event, items) OBVIOUS
<1>1. PICK row : row = [event |-> event, items |-> items] OBVIOUS
<1>2. row \in Emitter!TableEntries /\ row.event = event /\ row.items = items
  BY <1>1 DEF Emitter!TableEntries
<1>3. CASE Emitter!Index(table, event) = 0
  <2>0. \A i \in DOMAIN table : table[i].event # event
    <3>1. \A i \in DOMAIN table : i # 0 OBVIOUS
    <3> QED BY <1>3, <3>1, ListenersAre
  <2>1. t = Append(table, row) BY <1>0, <1>1, <1>3 DEF Emitter!WithListeners
  <2>2. PICK n : n = Len(table) + 1 OBVIOUS
  <2>3. t \in Seq(Emitter!TableEntries) /\ n \in DOMAIN t /\ t[n] = row /\ PartBut(table, t, {n})
    BY <1>2, <2>1, <2>2, AppendWithin
  <2>4. PICK at \in [DOMAIN table -> DOMAIN t \ {n}] :
          /\ \A k \in DOMAIN table : table[k] = t[at[k]]
          /\ \A i \in DOMAIN t : i \notin {n} => \E k \in DOMAIN table : at[k] = i
    BY <2>3 DEF PartBut
  <2>5. items # <<>> BY <2>0, ListenersAre
  <2>6. \A i \in DOMAIN t : i = n \/ \E k \in DOMAIN table : at[k] = i /\ t[i] = table[k] BY <2>4
  <2>7. Emitter!Proper(t)
    <3>1. ASSUME NEW i \in DOMAIN t, NEW j \in DOMAIN t, t[i].event = t[j].event PROVE i = j
      <4>1. i # n => t[i].event # event BY <2>0, <2>6
      <4>2. j # n => t[j].event # event BY <2>0, <2>6
      <4>3. CASE i = n BY <1>2, <2>3, <3>1, <4>2, <4>3
      <4>4. CASE j = n BY <1>2, <2>3, <3>1, <4>1, <4>4
      <4>5. CASE i # n /\ j # n
        <5>1. PICK k \in DOMAIN table : at[k] = i /\ t[i] = table[k] BY <2>6, <4>5
        <5>2. PICK l \in DOMAIN table : at[l] = j /\ t[j] = table[l] BY <2>6, <4>5
        <5>3. k = l BY <3>1, <5>1, <5>2 DEF Emitter!Proper
        <5> QED BY <5>1, <5>2, <5>3
      <4> QED BY <4>3, <4>4, <4>5
    <3>2. ASSUME NEW i \in DOMAIN t PROVE t[i].items # <<>>
      <4>1. CASE i = n BY <1>2, <2>3, <2>5, <4>1
      <4>2. CASE i # n BY <2>6, <4>2 DEF Emitter!Proper
      <4> QED BY <4>1, <4>2
    <3> QED BY <3>1, <3>2 DEF Emitter!Proper
  <2>8. Emitter!ListenersOf(t, event) = items BY <1>2, <2>3, <2>7, ListenersAre
  <2>9. ASSUME NEW e, e # event PROVE Emitter!ListenersOf(t, e) = Emitter!ListenersOf(table, e)
    <3>1. CASE \E k \in DOMAIN table : table[k].event = e
      <4>1. PICK k \in DOMAIN table : table[k].event = e BY <3>1
      <4>2. at[k] \in DOMAIN t /\ t[at[k]] = table[k] BY <2>4
      <4>3. Emitter!ListenersOf(t, e) = table[k].items BY <2>3, <2>7, <4>1, <4>2, ListenersAre
      <4> QED BY <4>1, <4>3, ListenersAre
    <3>2. CASE \A k \in DOMAIN table : table[k].event # e
      <4>1. ASSUME NEW i \in DOMAIN t PROVE t[i].event # e
        <5>1. CASE i = n BY <1>2, <2>3, <2>9, <5>1
        <5>2. CASE i # n BY <2>6, <3>2, <5>2
        <5> QED BY <5>1, <5>2
      <4> QED BY <2>3, <2>7, <3>2, <4>1, ListenersAre
    <3> QED BY <3>1, <3>2
  <2> QED BY <1>0, <2>3, <2>7, <2>8, <2>9
<1>4. CASE Emitter!Index(table, event) # 0
  <2>0. PICK n \in DOMAIN table : n = Emitter!Index(table, event) /\ table[n].event = event BY <1>4, IndexIs
  <2>1. \A i \in DOMAIN table : table[i].event = event => i = n BY <2>0 DEF Emitter!Proper
  <2>2. CASE items = <<>>
    <3>1. t = Emitter!RemoveAt(table, n) BY <1>0, <1>4, <2>0, <2>2 DEF Emitter!WithListeners
    <3>2. t \in Seq(Emitter!TableEntries) /\ PartBut(t, table, {n}) BY <2>0, <3>1, RemoveAtWithin,
          SameOperators
    <3>3. Emitter!Proper(t) /\ \A e : Emitter!ListenersOf(t, e) =
               IF \E i \in DOMAIN table : i \in {n} /\ table[i].event = e THEN <<>>
               ELSE Emitter!ListenersOf(table, e)
      BY <3>2, PartIsProper
    <3> QED BY <1>0, <2>0, <2>2, <3>2, <3>3
  <2>3. CASE items # <<>>
    <3>1. t = [table EXCEPT ![n].items = items] BY <1>0, <1>4, <2>0, <2>3 DEF Emitter!WithListeners
    <3>2. table[n] \in Emitter!TableEntries BY <2>0
    <3>a. \A q \in Emitter!TableEntries : [q EXCEPT !.items = items] = [event |-> q.event, items |-> items]
      BY DEF Emitter!TableEntries
    <3>3. [table[n] EXCEPT !.items = items] = row BY <1>1, <2>0, <3>2, <3>a
    <3>4. t = [table EXCEPT ![n] = row] BY <3>1, <3>3
    <3>5. /\ t \in Seq(Emitter!TableEntries) /\ DOMAIN t = DOMAIN table
          /\ \A i \in DOMAIN table : t[i] = IF i = n THEN row ELSE table[i]
      BY <1>2, <2>0, <3>4
    <3>6. \A i \in DOMAIN table : t[i].event = table[i].event BY <1>2, <2>0, <3>5
    <3>7. Emitter!Proper(t) BY <1>2, <2>3, <3>5, <3>6 DEF Emitter!Proper
    <3>8. Emitter!ListenersOf(t, event) = items BY <1>2, <2>0, <3>5, <3>7, ListenersAre
    <3>9. ASSUME NEW e, e # event PROVE Emitter!ListenersOf(t, e) = Emitter!ListenersOf(table, e)
      <4>1. CASE \E k \in DOMAIN table : table[k].event = e
        <5>1. PICK k \in DOMAIN table : table[k].event = e BY <4>1
        <5>2. t[k] = table[k] BY <2>0, <3>5, <3>9, <5>1
        <5>3. Emitter!ListenersOf(t, e) = table[k].items BY <3>5, <3>7, <5>1, <5>2, ListenersAre
        <5> QED BY <5>1, <5>3, ListenersAre
      <4>2. CASE \A k \in DOMAIN table : table[k].event # e
        <5>1. \A i \in DOMAIN t : t[i].event # e BY <3>5, <3>6, <4>2
        <5> QED BY <3>5, <3>7, <4>2, <5>1, ListenersAre
      <4> QED BY <4>1, <4>2
    <3> QED BY <1>0, <3>5, <3>7, <3>8, <3>9
  <2> QED BY <2>2, <2>3
<1> QED BY <1>3, <1>4

LEMMA EmittersInit == Emitter!Init => Emitter!IInv
<1> SUFFICES ASSUME Emitter!Init PROVE Emitter!IInv OBVIOUS
<1>1. \A x : x \notin DOMAIN <<>> OBVIOUS
<1>2. <<>> \in Seq(Emitter!TableEntries) /\ <<>> \in Seq(Emitter!Frames)
        /\ <<>> \in Seq(Emitter!Registrations) OBVIOUS
<1>3. Emitter!TypeOK BY <1>2 DEF Emitter!Init, Emitter!TypeOK, Emitter!Emitting
<1>4. Emitter!Proper(<<>>) BY <1>1 DEF Emitter!Proper
<1>5. \A e : Emitter!ListenersOf(<<>>, e) = <<>> BY <1>1, <1>2, <1>4, ListenersAre
<1>6. \A e : Emitter!Listed(<<>>, e, s4) /\ Emitter!Ids(<<>>) = {} BY <1>1 DEF Emitter!Listed,
      Emitter!Distinct, Emitter!Ids
<1>7. \A o \in Emitter!Emitting : s1[o] = <<>> BY DEF Emitter!Init
<1>8. Emitter!TablesHold BY <1>1, <1>4, <1>5, <1>6, <1>7 DEF Emitter!Init, Emitter!TablesHold
<1>9. Emitter!OnceUncalled /\ Emitter!EmitsHold BY <1>1 DEF Emitter!Init, Emitter!OnceUncalled,
      Emitter!EmitsHold
<1> QED BY <1>3, <1>8, <1>9 DEF Emitter!IInv

LEMMA EmittersImpl == Emitter!IInv => Emitter!EmittersAreTrue
<1> SUFFICES ASSUME Emitter!IInv PROVE Emitter!EmittersAreTrue OBVIOUS
<1>1. \A id \in DOMAIN s4 : /\ s4[id].through \in Emitter!Emitting /\ s4[id].event \in Events
                               /\ s4[id].stands \in BOOLEAN
                                    /\ Emitter!Home(s4[id].through) \in Emitter!Emitting
  <2>1. \A id \in DOMAIN s4 : s4[id] \in Emitter!Registrations BY DEF Emitter!IInv, Emitter!TypeOK
  <2> QED BY <2>1 DEF Emitter!Registrations, Emitter!Home, Emitter!HomeAmong, Emitter!Emitting
<1>2. Emitter!TablesAreTrue
  <2>1. \A o \in Emitter!Emitting :
          /\ \A i, j \in DOMAIN s1[o] : s1[o][i].event = s1[o][j].event => i = j
          /\ \A i \in DOMAIN s1[o] : s1[o][i].items # <<>>
    BY DEF Emitter!IInv, Emitter!TablesHold, Emitter!Proper
  <2>2. ASSUME NEW id \in DOMAIN s4
        PROVE  s4[id].stands
                 <=> id \in Emitter!Ids(Emitter!ListenersOf(s1[Emitter!Home(s4[id].through)], s4[id].event))
    BY <1>1 DEF Emitter!IInv, Emitter!TablesHold
  <2> QED BY <2>1, <2>2 DEF Emitter!TablesAreTrue
<1>3. Emitter!EmitsAreHeard
  <2>1. \A i \in DOMAIN s4 : s4[i].once => s4[i].calls <= 1 BY DEF Emitter!IInv, Emitter!OnceUncalled
  <2>2. ASSUME NEW f \in DOMAIN s3
        PROVE  /\ s3[f].due \subseteq s3[f].heard \union Emitter!Ids(s3[f].rest)
               /\ \A id \in s3[f].heard \union Emitter!Ids(s3[f].rest) : s4[id].event = s3[f].event
    BY DEF Emitter!IInv, Emitter!EmitsHold, Emitter!Listed, Emitter!Ids
  <2> QED BY <2>1, <2>2 DEF Emitter!EmitsAreHeard
<1> QED BY <1>2, <1>3 DEF Emitter!EmittersAreTrue

\* Whoever has a table keeps it, and finds it.
LEMMA HomeStays ==
  ASSUME NEW o \in Emitter!Emitting, s2 \subseteq Emitter!Emitting, s2' = s2 \union {Emitter!Home(o)}
  PROVE  /\ Emitter!Home(o) \in Emitter!Emitting /\ s2' \subseteq Emitter!Emitting
              /\ Emitter!Home(o)' = Emitter!Home(o) /\ Emitter!Home(o) \in s2'
         /\ \A x \in Emitter!Emitting : Emitter!Home(x) \in s2 => Emitter!Home(x)' = Emitter!Home(x)
              /\ Emitter!Home(x) \in s2'
  BY DEF Emitter!Home, Emitter!HomeAmong, Emitter!Emitting, Emitter!Native, Emitter!Parent,
    Emitter!Child

LEMMA GoneIs ==
  ASSUME s4 \in Seq(Emitter!Registrations), NEW gone, Emitter!Gone(gone)
  PROVE  /\ s4' \in Seq(Emitter!Registrations) /\ DOMAIN s4' = DOMAIN s4
         /\ \A id \in DOMAIN s4 :
               /\ s4'[id].through = s4[id].through /\ s4'[id].event = s4[id].event
               /\ s4'[id].once = s4[id].once /\ s4'[id].calls = s4[id].calls
               /\ s4'[id].stands <=> s4[id].stands /\ id \notin gone
<1>1. s4' = [i \in DOMAIN s4 |-> [s4[i] EXCEPT !.stands = @ /\ i \notin gone]] BY DEF Emitter!Gone
<1>2. PICK n \in Nat : n = Len(s4) OBVIOUS
<1>3. DOMAIN s4 = 1..n BY <1>2
<1>4. \A r \in Emitter!Registrations : \A b \in BOOLEAN :
         LET q == [r EXCEPT !.stands = b]
         IN  /\ q \in Emitter!Registrations /\ q.stands = b
             /\ q.through = r.through /\ q.event = r.event /\ q.once = r.once /\ q.calls = r.calls
  BY DEF Emitter!Registrations
<1>5. ASSUME NEW id \in DOMAIN s4
      PROVE  /\ s4'[id] \in Emitter!Registrations
             /\ s4'[id].through = s4[id].through /\ s4'[id].event = s4[id].event
             /\ s4'[id].once = s4[id].once /\ s4'[id].calls = s4[id].calls
             /\ s4'[id].stands <=> s4[id].stands /\ id \notin gone
  <2>1. PICK r \in Emitter!Registrations : r = s4[id] OBVIOUS
  <2>2. r.stands \in BOOLEAN BY DEF Emitter!Registrations
  <2>3. PICK b \in BOOLEAN : b <=> r.stands /\ id \notin gone OBVIOUS
  <2>4. (r.stands /\ id \notin gone) = b BY <2>2, <2>3
  <2>5. s4'[id] = [r EXCEPT !.stands = b]
    <3>1. s4'[id] = [s4[id] EXCEPT !.stands = s4[id].stands /\ id \notin gone] BY <1>1
    <3> QED BY <2>1, <2>4, <3>1
  <2> QED BY <1>4, <2>1, <2>3, <2>5
<1>6. DOMAIN s4' = 1..n BY <1>1, <1>3
<1>7. s4' \in [1..n -> Emitter!Registrations]
  <2>1. s4' = [i \in 1..n |-> s4'[i]] BY <1>1, <1>3
  <2> QED BY <1>3, <1>5, <2>1
<1>8. s4' \in Seq(Emitter!Registrations) BY <1>7
<1> QED BY <1>3, <1>5, <1>6, <1>8

\* A table that loses some of what it held, which does not stand any more.
LEMMA TablesChange ==
  ASSUME Emitter!TypeOK, Emitter!TablesHold, NEW o \in Emitter!Emitting, NEW t \in Seq(Emitter!TableEntries), Emitter!Proper(t), NEW gone,
         Emitter!Update(o, t), Emitter!Gone(gone),
         \A e \in Events :
            /\ \E but : PartBut(Emitter!ListenersOf(t, e), Emitter!ListenersOf(s1[Emitter!Home(o)], e), but)
            /\ Emitter!Ids(Emitter!ListenersOf(s1[Emitter!Home(o)], e)) \subseteq Emitter!Ids(Emitter!ListenersOf(t, e)) \union gone
            /\ \A id \in gone : id \notin Emitter!Ids(Emitter!ListenersOf(t, e)),
         \A id \in gone : \E e \in Events : id \in Emitter!Ids(Emitter!ListenersOf(s1[Emitter!Home(o)], e))
  PROVE  Emitter!TablesHold' /\ s1' \in [Emitter!Emitting -> Seq(Emitter!TableEntries)]
           /\ s2' \subseteq Emitter!Emitting
<1>1. PICK h \in Emitter!Emitting : h = Emitter!Home(o) BY HomeStays DEF Emitter!Home,
      Emitter!HomeAmong, Emitter!Emitting
<1>2. /\ s2 \subseteq Emitter!Emitting /\ s1 \in [Emitter!Emitting -> Seq(Emitter!TableEntries)]
           /\ s4 \in Seq(Emitter!Registrations)
      /\ s2' = s2 \union {h} /\ s1' = [s1 EXCEPT ![h] = t]
  BY <1>1 DEF Emitter!TypeOK, Emitter!Update
<1>3. /\ s2' \subseteq Emitter!Emitting /\ h \in s2'
      /\ \A x \in Emitter!Emitting : Emitter!Home(x) \in s2 => Emitter!Home(x)' = Emitter!Home(x)
           /\ Emitter!Home(x) \in s2'
  BY <1>1, <1>2, HomeStays
<1>4. s1' \in [Emitter!Emitting -> Seq(Emitter!TableEntries)] /\ \A p \in Emitter!Emitting :
        s1'[p] = IF p = h THEN t ELSE s1[p]
  BY <1>2
<1>5. /\ DOMAIN s4' = DOMAIN s4
      /\ \A id \in DOMAIN s4 :
               /\ s4'[id].through = s4[id].through /\ s4'[id].event = s4[id].event
               /\ s4'[id].once = s4[id].once
               /\ s4'[id].stands <=> s4[id].stands /\ id \notin gone
  BY <1>2, GoneIs
<1>6. \A id \in DOMAIN s4 : s4[id].through \in Emitter!Emitting /\ s4[id].event \in Events
  <2>1. \A id \in DOMAIN s4 : s4[id] \in Emitter!Registrations BY <1>2
  <2> QED BY <2>1 DEF Emitter!Registrations
<1>7. \A id \in DOMAIN s4 : /\ Emitter!HomeAmong(s2, s4[id].through) \in s2
                               /\ Emitter!HomeAmong(s2', s4'[id].through) = Emitter!HomeAmong(s2, s4[id].through)
  BY <1>3, <1>5, <1>6 DEF Emitter!TablesHold, Emitter!Home
<1>8. \A p \in Emitter!Emitting : \A e \in Events :
         /\ Emitter!Listed(Emitter!ListenersOf(s1[p], e), e, s4)
         /\ \A id \in Emitter!Ids(Emitter!ListenersOf(s1[p], e)) :
               id \in DOMAIN s4 /\ s4[id].stands /\ Emitter!HomeAmong(s2, s4[id].through) = p
  <2>1. \A items, e : Emitter!Listed(items, e, s4) => \A id \in Emitter!Ids(items) : id \in DOMAIN s4
    BY DEF Emitter!Listed, Emitter!Ids
  <2> QED BY <2>1 DEF Emitter!TablesHold, Emitter!Home
<1>9. \A id \in gone : id \in DOMAIN s4 /\ Emitter!HomeAmong(s2, s4[id].through) = h BY <1>1, <1>8
<1>10. \A items, e : Emitter!Listed(items, e, s4) => Emitter!Listed(items, e, s4')
  BY <1>5 DEF Emitter!Listed
<1>11. ASSUME NEW p \in Emitter!Emitting
       PROVE  /\ Emitter!Proper(s1'[p]) /\ (p \notin s2' => s1'[p] = <<>>)
              /\ \A e \in Events :
                    /\ Emitter!Listed(Emitter!ListenersOf(s1'[p], e), e, s4')
                    /\ \A id \in Emitter!Ids(Emitter!ListenersOf(s1'[p], e)) :
                          s4'[id].stands /\ Emitter!HomeAmong(s2', s4'[id].through) = p
  <2>1. CASE p # h
    <3>1. s1'[p] = s1[p] BY <1>4, <2>1
    <3>2. Emitter!Proper(s1[p]) /\ (p \notin s2' => s1[p] = <<>>) BY <1>2 DEF Emitter!TablesHold
    <3>3. ASSUME NEW e \in Events
          PROVE  /\ Emitter!Listed(Emitter!ListenersOf(s1[p], e), e, s4')
                 /\ \A id \in Emitter!Ids(Emitter!ListenersOf(s1[p], e)) :
                       s4'[id].stands /\ Emitter!HomeAmong(s2', s4'[id].through) = p
      BY <1>5, <1>7, <1>8, <1>9, <1>10, <2>1
    <3> QED BY <3>1, <3>2, <3>3
  <2>2. CASE p = h
    <3>1. s1'[p] = t /\ p \in s2' BY <1>3, <1>4, <2>2
    <3>2. ASSUME NEW e \in Events
          PROVE  /\ Emitter!Listed(Emitter!ListenersOf(t, e), e, s4')
                 /\ \A id \in Emitter!Ids(Emitter!ListenersOf(t, e)) :
                       s4'[id].stands /\ Emitter!HomeAmong(s2', s4'[id].through) = p
      <4>1. PICK old : old = Emitter!ListenersOf(s1[h], e) OBVIOUS
      <4>2. PICK new : new = Emitter!ListenersOf(t, e) OBVIOUS
      <4>3. PICK but : PartBut(new, old, but) BY <1>1, <4>1, <4>2
      <4>4. Emitter!Listed(old, e, s4) BY <1>8, <4>1
      <4>5. Emitter!Listed(new, e, s4) BY <4>3, <4>4, PartIs DEF Emitter!Listed
      <4>6. \A id \in Emitter!Ids(new) : id \in Emitter!Ids(old) /\ id \notin gone BY <1>1, <4>2, <4>3,
            PartIs
      <4>7. \A id \in Emitter!Ids(new) : s4'[id].stands /\ Emitter!HomeAmong(s2', s4'[id].through) = p
        BY <1>5, <1>7, <1>8, <2>2, <4>1, <4>6
      <4> QED BY <1>10, <4>2, <4>5, <4>7
    <3> QED BY <3>1, <3>2
  <2> QED BY <2>1, <2>2
<1>12. ASSUME NEW id \in DOMAIN s4
       PROVE  /\ Emitter!HomeAmong(s2', s4'[id].through) \in s2'
              /\ s4'[id].stands
                   => id \in Emitter!Ids(Emitter!ListenersOf(s1'[Emitter!HomeAmong(s2', s4'[id].through)], s4'[id].event))
  <2>1. PICK p \in Emitter!Emitting : p = Emitter!HomeAmong(s2, s4[id].through) BY <1>2, <1>7
  <2>2. Emitter!HomeAmong(s2', s4'[id].through) = p /\ p \in s2' BY <1>2, <1>7, <2>1
  <2>3. ASSUME s4'[id].stands PROVE id \in Emitter!Ids(Emitter!ListenersOf(s1'[p], s4'[id].event))
    <3>1. id \in Emitter!Ids(Emitter!ListenersOf(s1[p], s4[id].event)) /\ id \notin gone
      BY <1>5, <2>1, <2>3 DEF Emitter!TablesHold, Emitter!Home
    <3> QED BY <1>1, <1>4, <1>5, <1>6, <3>1
  <2> QED BY <2>2, <2>3
<1>13. Emitter!TablesHold' BY <1>5, <1>11, <1>12 DEF Emitter!TablesHold, Emitter!Home
<1> QED BY <1>3, <1>4, <1>13

\* Removals leave the emits as they are.
LEMMA RemovalKeeps ==
  ASSUME Emitter!IInv, Emitter!TablesHold', s1' \in [Emitter!Emitting -> Seq(Emitter!TableEntries)], s2' \subseteq Emitter!Emitting,
         NEW gone, Emitter!Gone(gone), UNCHANGED s3
  PROVE  Emitter!IInv'
<1>1. /\ s4' \in Seq(Emitter!Registrations) /\ DOMAIN s4' = DOMAIN s4
      /\ \A id \in DOMAIN s4 :
               /\ s4'[id].through = s4[id].through /\ s4'[id].event = s4[id].event
               /\ s4'[id].once = s4[id].once /\ s4'[id].calls = s4[id].calls
               /\ s4'[id].stands <=> s4[id].stands /\ id \notin gone
  BY GoneIs DEF Emitter!IInv, Emitter!TypeOK
<1>2. Emitter!TypeOK' BY <1>1 DEF Emitter!IInv, Emitter!TypeOK
<1>3. Emitter!OnceUncalled' BY <1>1 DEF Emitter!IInv, Emitter!OnceUncalled
<1>4. Emitter!EmitsHold'
  <2>1. \A items, e : Emitter!Listed(items, e, s4) => Emitter!Listed(items, e, s4')
    BY <1>1 DEF Emitter!Listed
  <2> QED BY <1>1, <2>1 DEF Emitter!IInv, Emitter!EmitsHold
<1> QED BY <1>2, <1>3, <1>4 DEF Emitter!IInv

LEMMA EmitterOffKeeps == Emitter!IInv /\ Emitter!RemoveListener => Emitter!IInv'
<1> SUFFICES ASSUME Emitter!IInv, Emitter!RemoveListener PROVE Emitter!IInv' OBVIOUS
<1>1. PICK o \in Emitter!Emitting, event \in Events, callback \in Callbacks :
        LET items == Emitter!ListenersOf(s1[Emitter!Home(o)], event)
            at == Emitter!SelectInSeq(items, LAMBDA item : item.callback = callback)
        IN  /\ IF at = 0 THEN Emitter!Update(o, s1[Emitter!Home(o)]) /\ UNCHANGED s4
               ELSE Emitter!Update(o, Emitter!WithListeners(s1[Emitter!Home(o)], event, Emitter!RemoveAt(items, at))) /\ Emitter!Gone({items[at].id})
            /\ UNCHANGED <<s3, s5, s6>>
  BY DEF Emitter!RemoveListener
<1>2. PICK h \in Emitter!Emitting : h = Emitter!Home(o) BY DEF Emitter!Home, Emitter!HomeAmong,
      Emitter!Emitting
<1>3. PICK items : items = Emitter!ListenersOf(s1[h], event) OBVIOUS
<1>4. PICK at : at = Emitter!SelectInSeq(items, LAMBDA item : item.callback = callback) OBVIOUS
<1>5. /\ IF at = 0 THEN Emitter!Update(o, s1[h]) /\ UNCHANGED s4
         ELSE Emitter!Update(o, Emitter!WithListeners(s1[h], event, Emitter!RemoveAt(items, at)))
           /\ Emitter!Gone({items[at].id})
      /\ UNCHANGED <<s3, s5, s6>>
  BY <1>1, <1>2, <1>3, <1>4
<1>6. /\ Emitter!TypeOK /\ Emitter!TablesHold /\ s1[h] \in Seq(Emitter!TableEntries)
           /\ Emitter!Proper(s1[h]) /\ s4 \in Seq(Emitter!Registrations)
  BY DEF Emitter!IInv, Emitter!TypeOK, Emitter!TablesHold
<1>7. \A e : Emitter!ListenersOf(s1[h], e) \in Seq(Emitter!Items) BY <1>6, ListenersAre
<1>8. \A x : PartBut(x, x, {})
  <2> SUFFICES ASSUME NEW x PROVE PartBut(x, x, {}) OBVIOUS
  <2>1. [k \in DOMAIN x |-> k] \in [DOMAIN x -> DOMAIN x \ {}] OBVIOUS
  <2> QED BY <2>1 DEF PartBut
<1>9. CASE at = 0
  <2>1. Emitter!Gone({})
    <3>1. \A r \in Emitter!Registrations : [r EXCEPT !.stands = @ /\ TRUE] = r BY DEF Emitter!Registrations
    <3>2. \A i \in DOMAIN s4 : s4[i] \in Emitter!Registrations BY <1>6
    <3>3. \A i : (i \notin {}) = TRUE OBVIOUS
    <3>4. \A i \in DOMAIN s4 : [s4[i] EXCEPT !.stands = @ /\ i \notin {}] = s4[i] BY <3>1, <3>2, <3>3
    <3>5. s4 = [i \in DOMAIN s4 |-> s4[i]] BY <1>6
    <3>6. s4 = [i \in DOMAIN s4 |-> [s4[i] EXCEPT !.stands = @ /\ i \notin {}]] BY <3>4, <3>5
    <3> QED BY <1>5, <1>9, <3>6 DEF Emitter!Gone
  <2>2. Emitter!TablesHold' /\ s1' \in [Emitter!Emitting -> Seq(Emitter!TableEntries)]
          /\ s2' \subseteq Emitter!Emitting
    BY <1>2, <1>5, <1>6, <1>8, <1>9, <2>1, TablesChange
  <2> QED BY <1>5, <2>1, <2>2, RemovalKeeps
<1>10. CASE at # 0
  <2>1. at \in DOMAIN items
    <3> DEFINE I == {i \in 1..Len(items) : items[i].callback = callback}
    <3>1. at = IF I # {} THEN Emitter!Min(I) ELSE 0 BY <1>4 DEF Emitter!SelectInSeq
    <3>2. I # {} /\ I \subseteq Nat BY <1>10, <3>1
    <3>3. \E n \in I : \A m \in I : n <= m
      <4> HIDE DEF I
      <4> QED BY <3>2, Least
    <3>4. at \in I
      <4>1. at = Emitter!Min(I) BY <3>1, <3>2
      <4> HIDE DEF I
      <4> QED BY <3>3, <4>1 DEF Emitter!Min
    <3>5. items \in Seq(Emitter!Items) BY <1>3, <1>7
    <3> QED BY <3>4, <3>5
  <2>2. PICK rest : rest = Emitter!RemoveAt(items, at) OBVIOUS
  <2>3. items \in Seq(Emitter!Items) BY <1>3, <1>7
  <2>4. rest \in Seq(Emitter!Items) /\ PartBut(rest, items, {at}) BY <2>1, <2>2, <2>3, RemoveAtWithin,
        SameOperators
  <2>5. items # <<>> BY <2>1
  <2>6. PICK t : t = Emitter!WithListeners(s1[h], event, rest) OBVIOUS
  <2>7. /\ t \in Seq(Emitter!TableEntries) /\ Emitter!Proper(t) /\ Emitter!ListenersOf(t, event) = rest
        /\ \A e : e # event => Emitter!ListenersOf(t, e) = Emitter!ListenersOf(s1[h], e)
    BY <1>3, <1>6, <2>4, <2>5, <2>6, WithListenersIs
  <2>8. PICK gone : gone = {items[at].id} OBVIOUS
  <2>9. Emitter!Update(o, t) /\ Emitter!Gone(gone) BY <1>5, <1>10, <2>2, <2>6, <2>8
  <2>10. items[at].id \in Emitter!Ids(items) /\ items[at].id \notin Emitter!Ids(rest)
    <3>1. Emitter!Distinct(items) BY <1>3, <1>6 DEF Emitter!TablesHold, Emitter!Listed
    <3>2. at \in {at} \intersect DOMAIN items BY <2>1
    <3> QED BY <2>1, <2>4, <3>1, <3>2, PartIs DEF Emitter!Ids
  <2>11. Emitter!Ids(items) \subseteq Emitter!Ids(rest) \union gone BY <2>4, <2>8, PartIs
  <2>12. ASSUME NEW e \in Events
         PROVE  /\ \E but : PartBut(Emitter!ListenersOf(t, e), Emitter!ListenersOf(s1[h], e), but)
                /\ Emitter!Ids(Emitter!ListenersOf(s1[h], e)) \subseteq Emitter!Ids(Emitter!ListenersOf(t, e)) \union gone
                /\ \A id \in gone : id \notin Emitter!Ids(Emitter!ListenersOf(t, e))
    <3>1. CASE e = event BY <1>3, <2>4, <2>7, <2>8, <2>10, <2>11, <3>1
    <3>2. CASE e # event
      <4>1. Emitter!ListenersOf(t, e) = Emitter!ListenersOf(s1[h], e) BY <2>7, <3>2
      <4>2. items[at].id \notin Emitter!Ids(Emitter!ListenersOf(s1[h], e))
        <5>1. Emitter!Listed(items, event, s4) /\ Emitter!Listed(Emitter!ListenersOf(s1[h], e), e, s4)
          BY <1>3, <1>6 DEF Emitter!TablesHold
        <5> QED BY <2>10, <3>2, <5>1 DEF Emitter!Listed, Emitter!Ids
      <4> QED BY <1>8, <2>8, <4>1, <4>2
    <3> QED BY <3>1, <3>2
  <2>13. \A id \in gone : \E e \in Events : id \in Emitter!Ids(Emitter!ListenersOf(s1[h], e))
    BY <1>3, <2>8, <2>10
  <2>14. Emitter!TablesHold' /\ s1' \in [Emitter!Emitting -> Seq(Emitter!TableEntries)]
           /\ s2' \subseteq Emitter!Emitting
    BY <1>2, <1>6, <2>7, <2>9, <2>12, <2>13, TablesChange
  <2> QED BY <1>5, <2>9, <2>14, RemovalKeeps
<1> QED BY <1>9, <1>10

LEMMA EmitterClearKeeps == Emitter!IInv /\ Emitter!RemoveAll => Emitter!IInv'
<1> SUFFICES ASSUME Emitter!IInv, Emitter!RemoveAll PROVE Emitter!IInv' OBVIOUS
<1>1. PICK o \in Emitter!Emitting, of \in SUBSET Events :
        LET table == s1[Emitter!Home(o)]
            rest == Emitter!Picked(table, {i \in DOMAIN table : table[i].event \notin of})
        IN  /\ Emitter!Update(o, rest)
            /\ Emitter!Gone(UNION {Emitter!Ids(Emitter!ListenersOf(s1[Emitter!Home(o)], event)) :
                 event \in of})
            /\ UNCHANGED <<s3, s5, s6>>
  BY DEF Emitter!RemoveAll
<1>2. PICK h \in Emitter!Emitting : h = Emitter!Home(o) BY DEF Emitter!Home, Emitter!HomeAmong,
      Emitter!Emitting
<1>3. PICK table : table = s1[h] OBVIOUS
<1>4. PICK places : places = {i \in DOMAIN table : table[i].event \notin of} OBVIOUS
<1>5. PICK t : t = Emitter!Picked(table, places) OBVIOUS
<1>6. PICK gone : gone = UNION {Emitter!Ids(Emitter!ListenersOf(table, event)) : event \in of} OBVIOUS
<1>7. Emitter!Update(o, t) /\ Emitter!Gone(gone) /\ UNCHANGED <<s3, s5, s6>> BY <1>1, <1>2, <1>3, <1>4,
      <1>5, <1>6
<1>8. Emitter!TypeOK /\ Emitter!TablesHold /\ table \in Seq(Emitter!TableEntries)
        /\ Emitter!Proper(table) BY <1>3 DEF Emitter!IInv, Emitter!TypeOK, Emitter!TablesHold
<1>9. t \in Seq(Emitter!TableEntries) /\ PartBut(t, table, DOMAIN table \ places) BY <1>5, <1>8,
      PickedWithin, SameOperators
<1>10. /\ Emitter!Proper(t)
       /\ \A e : Emitter!ListenersOf(t, e) =
               IF \E i \in DOMAIN table : i \in DOMAIN table \ places /\ table[i].event = e THEN <<>>
               ELSE Emitter!ListenersOf(table, e)
  BY <1>8, <1>9, PartIsProper
<1>11. \A e : Emitter!ListenersOf(t, e) = IF e \in of THEN <<>> ELSE Emitter!ListenersOf(table, e)
  <2> SUFFICES ASSUME NEW e PROVE Emitter!ListenersOf(t, e) = IF e \in of THEN <<>> ELSE Emitter!ListenersOf(table, e) OBVIOUS
  <2>1. CASE \E i \in DOMAIN table : table[i].event = e BY <1>4, <1>10, <2>1
  <2>2. CASE \A i \in DOMAIN table : table[i].event # e
    <3>1. Emitter!ListenersOf(table, e) = <<>> BY <1>8, <2>2, ListenersAre
    <3> QED BY <1>10, <3>1
  <2> QED BY <2>1, <2>2
<1>12. Emitter!Ids(<<>>) = {} BY DEF Emitter!Ids
<1>13. \A x : PartBut(x, x, {}) /\ PartBut(<<>>, x, DOMAIN x)
  <2> SUFFICES ASSUME NEW x PROVE PartBut(x, x, {}) /\ PartBut(<<>>, x, DOMAIN x) OBVIOUS
  <2>1. [k \in DOMAIN x |-> k] \in [DOMAIN x -> DOMAIN x \ {}] OBVIOUS
  <2>2. PartBut(x, x, {}) BY <2>1 DEF PartBut
  <2>3. DOMAIN <<>> = {} OBVIOUS
  <2>4. \E at : at \in [{} -> DOMAIN x \ DOMAIN x]
    <3>1. [k \in {} |-> k] \in [{} -> DOMAIN x \ DOMAIN x] OBVIOUS
    <3> QED BY <3>1
  <2>5. PartBut(<<>>, x, DOMAIN x) BY <2>3, <2>4 DEF PartBut
  <2> QED BY <2>2, <2>5
<1>14. ASSUME NEW e \in Events
       PROVE  /\ \E but : PartBut(Emitter!ListenersOf(t, e), Emitter!ListenersOf(table, e), but)
              /\ Emitter!Ids(Emitter!ListenersOf(table, e)) \subseteq Emitter!Ids(Emitter!ListenersOf(t, e)) \union gone
              /\ \A id \in gone : id \notin Emitter!Ids(Emitter!ListenersOf(t, e))
  <2>1. CASE e \in of BY <1>6, <1>11, <1>12, <1>13, <2>1
  <2>2. CASE e \notin of
    <3>1. Emitter!ListenersOf(t, e) = Emitter!ListenersOf(table, e) BY <1>11, <2>2
    <3>2. ASSUME NEW id \in gone PROVE id \notin Emitter!Ids(Emitter!ListenersOf(table, e))
      <4>1. PICK d \in of : id \in Emitter!Ids(Emitter!ListenersOf(table, d)) BY <1>6
      <4>2. d \in Events /\ d # e BY <2>2
      <4>3. Emitter!Listed(Emitter!ListenersOf(table, d), d, s4)
              /\ Emitter!Listed(Emitter!ListenersOf(table, e), e, s4)
        BY <1>3, <1>8, <4>2 DEF Emitter!TablesHold
      <4> QED BY <4>1, <4>2, <4>3 DEF Emitter!Listed, Emitter!Ids
    <3> QED BY <1>13, <3>1, <3>2
  <2> QED BY <2>1, <2>2
<1>15. \A id \in gone : \E e \in Events : id \in Emitter!Ids(Emitter!ListenersOf(table, e)) BY <1>6
<1>16. Emitter!TablesHold' /\ s1' \in [Emitter!Emitting -> Seq(Emitter!TableEntries)]
         /\ s2' \subseteq Emitter!Emitting
  BY <1>2, <1>3, <1>7, <1>8, <1>9, <1>10, <1>14, <1>15, TablesChange
<1> QED BY <1>7, <1>16, RemovalKeeps

LEMMA EmitKeeps == Emitter!IInv /\ Emitter!Emit => Emitter!IInv'
<1> SUFFICES ASSUME Emitter!IInv, Emitter!Emit PROVE Emitter!IInv' OBVIOUS
<1>1. PICK o \in Emitter!Emitting, event \in Events :
        LET items == Emitter!ListenersOf(s1[Emitter!Home(o)], event)
            kept == Emitter!Picked(items, {i \in DOMAIN items : ~items[i].once})
        IN  /\ Emitter!Update(o, IF items = <<>> THEN s1[Emitter!Home(o)]
                         ELSE Emitter!WithListeners(s1[Emitter!Home(o)], event, kept))
            /\ s3' = <<[rest |-> items, running |-> FALSE, through |-> o, event |-> event,
                           due |-> {i \in DOMAIN s4 : s4[i].stands /\ s4[i].through = o
                                                           /\ s4[i].event = event},
                           heard |-> {}]>> \o s3
            /\ Emitter!Gone(Emitter!Ids(items) \ Emitter!Ids(kept))
  BY DEF Emitter!Emit
<1>2. PICK h \in Emitter!Emitting : h = Emitter!Home(o) BY DEF Emitter!Home, Emitter!HomeAmong,
      Emitter!Emitting
<1>3. PICK items : items = Emitter!ListenersOf(s1[h], event) OBVIOUS
<1>4. PICK places : places = {i \in DOMAIN items : ~items[i].once} OBVIOUS
<1>5. PICK kept : kept = Emitter!Picked(items, places) OBVIOUS
<1>6. PICK t : t = IF items = <<>> THEN s1[h] ELSE Emitter!WithListeners(s1[h], event, kept) OBVIOUS
<1>7. PICK gone : gone = Emitter!Ids(items) \ Emitter!Ids(kept) OBVIOUS
<1>8. PICK due : due = {i \in DOMAIN s4 : s4[i].stands /\ s4[i].through = o /\ s4[i].event = event} OBVIOUS
<1>9. PICK frame : frame = [rest |-> items, running |-> FALSE, through |-> o, event |-> event,
                            due |-> due, heard |-> {}]
  OBVIOUS
<1>10. Emitter!Update(o, t) /\ Emitter!Gone(gone) /\ s3' = <<frame>> \o s3
  BY <1>1, <1>2, <1>3, <1>4, <1>5, <1>6, <1>7, <1>8, <1>9
<1>11. /\ Emitter!TypeOK /\ Emitter!TablesHold /\ s1[h] \in Seq(Emitter!TableEntries)
            /\ Emitter!Proper(s1[h]) /\ s4 \in Seq(Emitter!Registrations)
       /\ s3 \in Seq(Emitter!Frames)
  BY DEF Emitter!IInv, Emitter!TypeOK, Emitter!TablesHold
<1>12. items \in Seq(Emitter!Items) /\ \A e : Emitter!ListenersOf(s1[h], e) \in Seq(Emitter!Items)
  BY <1>3, <1>11, ListenersAre
<1>13. kept \in Seq(Emitter!Items) /\ PartBut(kept, items, DOMAIN items \ places) BY <1>5, <1>12,
      PickedWithin, SameOperators
<1>14. /\ t \in Seq(Emitter!TableEntries) /\ Emitter!Proper(t) /\ Emitter!ListenersOf(t, event) = kept
       /\ \A e : e # event => Emitter!ListenersOf(t, e) = Emitter!ListenersOf(s1[h], e)
  <2>1. CASE items = <<>>
    <3>1. t = s1[h] BY <1>6, <2>1
    <3>2. kept = <<>>
      <4>1. DOMAIN items = {} BY <2>1
      <4>2. \A k \in DOMAIN kept : FALSE BY <1>13, <4>1, PartIs
      <4>3. Len(kept) \in Nat /\ DOMAIN kept = 1..Len(kept) BY <1>13
      <4>4. Len(kept) # 0 => 1 \in DOMAIN kept BY <4>3
      <4>5. Len(kept) = 0 BY <4>2, <4>4
      <4> QED BY <1>13, <4>5
    <3> QED BY <1>3, <1>11, <2>1, <3>1, <3>2
  <2>2. CASE items # <<>>
    <3>1. t = Emitter!WithListeners(s1[h], event, kept) BY <1>6, <2>2
    <3> QED BY <1>3, <1>11, <1>13, <2>2, <3>1, WithListenersIs
  <2> QED BY <2>1, <2>2
<1>15. Emitter!Listed(items, event, s4) /\ \A id \in Emitter!Ids(items) : id \in DOMAIN s4 /\ s4[id].stands
  <2>1. Emitter!Listed(items, event, s4) BY <1>3, <1>11 DEF Emitter!TablesHold
  <2>2. \A id \in Emitter!Ids(items) : id \in DOMAIN s4 BY <2>1 DEF Emitter!Listed, Emitter!Ids
  <2> QED BY <1>3, <1>11, <2>1, <2>2 DEF Emitter!TablesHold
<1>16. Emitter!Ids(items) \subseteq Emitter!Ids(kept) \union gone /\ \A id \in gone :
         id \notin Emitter!Ids(kept) BY <1>7
<1>17. \A x : PartBut(x, x, {})
  <2> SUFFICES ASSUME NEW x PROVE PartBut(x, x, {}) OBVIOUS
  <2>1. [k \in DOMAIN x |-> k] \in [DOMAIN x -> DOMAIN x \ {}] OBVIOUS
  <2> QED BY <2>1 DEF PartBut
<1>18. ASSUME NEW e \in Events
       PROVE  /\ \E but : PartBut(Emitter!ListenersOf(t, e), Emitter!ListenersOf(s1[h], e), but)
              /\ Emitter!Ids(Emitter!ListenersOf(s1[h], e)) \subseteq Emitter!Ids(Emitter!ListenersOf(t, e)) \union gone
              /\ \A id \in gone : id \notin Emitter!Ids(Emitter!ListenersOf(t, e))
  <2>1. CASE e = event BY <1>3, <1>13, <1>14, <1>16, <2>1
  <2>2. CASE e # event
    <3>1. Emitter!ListenersOf(t, e) = Emitter!ListenersOf(s1[h], e) BY <1>14, <2>2
    <3>2. \A id \in gone : id \notin Emitter!Ids(Emitter!ListenersOf(s1[h], e))
      <4>1. Emitter!Listed(Emitter!ListenersOf(s1[h], e), e, s4) BY <1>11 DEF Emitter!TablesHold
      <4> QED BY <1>7, <1>15, <2>2, <4>1 DEF Emitter!Listed, Emitter!Ids
    <3> QED BY <1>17, <3>1, <3>2
  <2> QED BY <2>1, <2>2
<1>19. \A id \in gone : \E e \in Events : id \in Emitter!Ids(Emitter!ListenersOf(s1[h], e)) BY <1>3, <1>7
<1>20. Emitter!TablesHold' /\ s1' \in [Emitter!Emitting -> Seq(Emitter!TableEntries)]
         /\ s2' \subseteq Emitter!Emitting
  BY <1>2, <1>10, <1>11, <1>14, <1>18, <1>19, TablesChange
<1>21. /\ s4' \in Seq(Emitter!Registrations) /\ DOMAIN s4' = DOMAIN s4
       /\ \A id \in DOMAIN s4 :
               /\ s4'[id].through = s4[id].through /\ s4'[id].event = s4[id].event
               /\ s4'[id].once = s4[id].once /\ s4'[id].calls = s4[id].calls
               /\ s4'[id].stands <=> s4[id].stands /\ id \notin gone
  BY <1>10, <1>11, GoneIs
<1>22. /\ frame \in Emitter!Frames /\ frame.rest = items /\ frame.event = event /\ frame.due = due
            /\ frame.heard = {}
  <2>1. due \subseteq Nat
    <3>1. DOMAIN s4 \subseteq Nat BY <1>11
    <3> QED BY <1>8, <3>1
  <2> QED BY <1>9, <1>12, <2>1 DEF Emitter!Frames
<1>23. s3' \in Seq(Emitter!Frames) /\ 1 \in DOMAIN s3' /\ s3'[1] = frame /\ PartBut(s3, s3', {1})
  BY <1>10, <1>11, <1>22, PrependWithin
<1>24. PICK at \in [DOMAIN s3 -> DOMAIN s3' \ {1}] :
         /\ \A k \in DOMAIN s3 : s3[k] = s3'[at[k]]
         /\ \A i \in DOMAIN s3' : i \notin {1} => \E k \in DOMAIN s3 : at[k] = i
  BY <1>23 DEF PartBut
<1>25. Emitter!TypeOK' BY <1>20, <1>21, <1>23 DEF Emitter!TypeOK
<1>26. \A f \in DOMAIN s3' : f # 1 => \E k \in DOMAIN s3 : at[k] = f /\ s3'[f] = s3[k] BY <1>24
<1>27. Emitter!OnceUncalled'
  <2> SUFFICES ASSUME NEW id \in DOMAIN s4', s4'[id].once
               PROVE  /\ s4'[id].calls <= 1
                      /\ s4'[id].stands
                            => s4'[id].calls = 0 /\ \A f \in DOMAIN s3' : id \notin Emitter!Ids(s3'[f].rest)
                      /\ \A f \in DOMAIN s3' :
                            id \in Emitter!Ids(s3'[f].rest)
                               => s4'[id].calls = 0
                                    /\ \A g \in DOMAIN s3' : id \in Emitter!Ids(s3'[g].rest) => g = f
    BY DEF Emitter!OnceUncalled
  <2>1. /\ id \in DOMAIN s4 /\ s4[id].once /\ s4'[id].calls = s4[id].calls
        /\ s4'[id].stands <=> s4[id].stands /\ id \notin gone
    BY <1>21
  <2>2. /\ s4[id].calls <= 1
        /\ s4[id].stands
              => s4[id].calls = 0 /\ \A f \in DOMAIN s3 : id \notin Emitter!Ids(s3[f].rest)
        /\ \A f \in DOMAIN s3 :
              id \in Emitter!Ids(s3[f].rest)
                 => s4[id].calls = 0
                      /\ \A g \in DOMAIN s3 : id \in Emitter!Ids(s3[g].rest) => g = f
    BY <2>1 DEF Emitter!IInv, Emitter!OnceUncalled
  <2>3. id \in Emitter!Ids(items) => id \in gone
    <3>1. ASSUME NEW k \in DOMAIN kept, kept[k].id = id PROVE FALSE
      <4>1. PICK i \in DOMAIN items : i \notin DOMAIN items \ places /\ kept[k] = items[i] BY <1>13, PartIs
      <4>2. ~items[i].once BY <1>4, <4>1
      <4> QED BY <1>15, <2>1, <3>1, <4>1, <4>2 DEF Emitter!Listed
    <3>2. id \notin Emitter!Ids(kept) BY <3>1 DEF Emitter!Ids
    <3> QED BY <1>7, <3>2
  <2>4. CASE id \in Emitter!Ids(items)
    <3>1. ~s4'[id].stands BY <2>1, <2>3, <2>4
    <3>2. s4[id].calls = 0 /\ \A f \in DOMAIN s3 : id \notin Emitter!Ids(s3[f].rest) BY <1>15, <2>2, <2>4
    <3>3. \A f \in DOMAIN s3' : id \in Emitter!Ids(s3'[f].rest) => f = 1 BY <1>26, <3>2
    <3> QED BY <2>1, <3>1, <3>2, <3>3
  <2>5. CASE id \notin Emitter!Ids(items)
    <3>1. \A f \in DOMAIN s3' : id \in Emitter!Ids(s3'[f].rest) =>
             \E k \in DOMAIN s3 : at[k] = f /\ id \in Emitter!Ids(s3[k].rest)
      BY <1>22, <1>23, <1>26, <2>5
    <3> QED BY <2>1, <2>2, <3>1
  <2> QED BY <2>4, <2>5
<1>28. Emitter!EmitsHold'
  <2>1. \A list, e : Emitter!Listed(list, e, s4) => Emitter!Listed(list, e, s4') BY <1>21 DEF Emitter!Listed
  <2>2. ASSUME NEW f \in DOMAIN s3'
        PROVE  /\ Emitter!Listed(s3'[f].rest, s3'[f].event, s4')
               /\ s3'[f].due \subseteq s3'[f].heard \union Emitter!Ids(s3'[f].rest)
               /\ \A id \in s3'[f].heard : id \in DOMAIN s4' /\ s4'[id].event = s3'[f].event
    <3>1. CASE f = 1
      <4>1. due \subseteq Emitter!Ids(items)
        <5>1. ASSUME NEW id \in due PROVE id \in Emitter!Ids(items)
          <6>1. id \in DOMAIN s4 /\ s4[id].stands /\ s4[id].through = o /\ s4[id].event = event BY <1>8
          <6> QED BY <1>2, <1>3, <1>11, <6>1 DEF Emitter!TablesHold
        <5> QED BY <5>1
      <4> QED BY <1>15, <1>22, <1>23, <2>1, <3>1, <4>1
    <3>2. CASE f # 1
      <4>1. PICK k \in DOMAIN s3 : s3'[f] = s3[k] BY <1>26, <3>2
      <4> QED BY <1>21, <2>1, <4>1 DEF Emitter!IInv, Emitter!EmitsHold
    <3> QED BY <3>1, <3>2
  <2> QED BY <2>2 DEF Emitter!EmitsHold
<1> QED BY <1>20, <1>25, <1>27, <1>28 DEF Emitter!IInv

LEMMA EmitterListenKeeps == Emitter!IInv /\ Emitter!AddListener => Emitter!IInv'
<1> SUFFICES ASSUME Emitter!IInv, Emitter!AddListener PROVE Emitter!IInv' OBVIOUS
<1>1. PICK o \in Emitter!Emitting, event \in Events, callback \in Callbacks, once \in BOOLEAN, prepend \in BOOLEAN :
        LET item == [id |-> Len(s4) + 1, callback |-> callback, once |-> once]
            items == Emitter!ListenersOf(s1[Emitter!Home(o)], event)
        IN  /\ Emitter!Update(o, Emitter!WithListeners(s1[Emitter!Home(o)], event,
                                       IF prepend THEN <<item>> \o items ELSE Append(items, item)))
            /\ s4' = Append(s4, [through |-> o, event |-> event, once |-> once,
                                       stands |-> TRUE, calls |-> 0])
            /\ UNCHANGED <<s3, s5, s6>>
  BY DEF Emitter!AddListener
<1>2. PICK h \in Emitter!Emitting : h = Emitter!Home(o) BY DEF Emitter!Home, Emitter!HomeAmong,
      Emitter!Emitting
<1>3. PICK items : items = Emitter!ListenersOf(s1[h], event) OBVIOUS
<1>4. PICK n : n = Len(s4) + 1 OBVIOUS
<1>5. PICK item : item = [id |-> n, callback |-> callback, once |-> once] OBVIOUS
<1>6. PICK list : list = IF prepend THEN <<item>> \o items ELSE Append(items, item) OBVIOUS
<1>7. PICK t : t = Emitter!WithListeners(s1[h], event, list) OBVIOUS
<1>8. PICK row : row = [through |-> o, event |-> event, once |-> once, stands |-> TRUE, calls |-> 0] OBVIOUS
<1>9. Emitter!Update(o, t) /\ s4' = Append(s4, row) /\ UNCHANGED <<s3, s5, s6>>
  BY <1>1, <1>2, <1>3, <1>4, <1>5, <1>6, <1>7, <1>8
<1>10. /\ Emitter!TypeOK /\ Emitter!TablesHold /\ s1[h] \in Seq(Emitter!TableEntries)
            /\ Emitter!Proper(s1[h]) /\ s4 \in Seq(Emitter!Registrations)
       /\ s2 \subseteq Emitter!Emitting /\ s1 \in [Emitter!Emitting -> Seq(Emitter!TableEntries)]
  BY DEF Emitter!IInv, Emitter!TypeOK, Emitter!TablesHold
<1>11. n \in Nat \ {0} /\ DOMAIN s4 = 1..(n - 1) BY <1>4, <1>10
<1>12. item \in Emitter!Items /\ item.id = n /\ item.once = once BY <1>5, <1>11 DEF Emitter!Items
<1>13. /\ row \in Emitter!Registrations /\ row.through = o /\ row.event = event /\ row.once = once
       /\ row.stands = TRUE /\ row.calls = 0
  BY <1>8 DEF Emitter!Registrations
<1>14. /\ s4' \in Seq(Emitter!Registrations) /\ DOMAIN s4' = 1..n /\ s4'[n] = row
       /\ \A i \in DOMAIN s4 : i \in DOMAIN s4' /\ i # n /\ s4'[i] = s4[i]
       /\ \A i \in DOMAIN s4' : i = n \/ i \in DOMAIN s4
  BY <1>4, <1>9, <1>10, <1>11, <1>13
<1>15. items \in Seq(Emitter!Items) BY <1>3, <1>10, ListenersAre
<1>16. PICK p : list \in Seq(Emitter!Items) /\ p \in DOMAIN list /\ list[p] = item
              /\ PartBut(items, list, {p})
  <2>1. CASE prepend
    <3>1. list = <<item>> \o items BY <1>6, <2>1
    <3>2. list \in Seq(Emitter!Items) /\ 1 \in DOMAIN list /\ list[1] = item /\ PartBut(items, list, {1})
      BY <1>12, <1>15, <3>1, PrependWithin
    <3> QED BY <3>2
  <2>2. CASE ~prepend
    <3>1. list = Append(items, item) BY <1>6, <2>2
    <3>2. PICK q : q = Len(items) + 1 OBVIOUS
    <3>3. list \in Seq(Emitter!Items) /\ q \in DOMAIN list /\ list[q] = item /\ PartBut(items, list, {q})
      BY <1>12, <1>15, <3>1, <3>2, AppendWithin
    <3> QED BY <3>3
  <2> QED BY <2>1, <2>2
<1>17. PICK at \in [DOMAIN items -> DOMAIN list \ {p}] :
         /\ \A k \in DOMAIN items : items[k] = list[at[k]]
         /\ \A i \in DOMAIN list : i \notin {p} => \E k \in DOMAIN items : at[k] = i
  BY <1>16 DEF PartBut
<1>18. \A i \in DOMAIN list : i # p => \E k \in DOMAIN items : at[k] = i /\ list[i] = items[k] BY <1>17
<1>19. list # <<>> BY <1>16
<1>20. /\ t \in Seq(Emitter!TableEntries) /\ Emitter!Proper(t) /\ Emitter!ListenersOf(t, event) = list
       /\ \A e : e # event => Emitter!ListenersOf(t, e) = Emitter!ListenersOf(s1[h], e)
  BY <1>7, <1>10, <1>16, <1>19, WithListenersIs
<1>21. \A x, e : Emitter!Listed(x, e, s4) => Emitter!Listed(x, e, s4') /\ n \notin Emitter!Ids(x)
  BY <1>14 DEF Emitter!Listed, Emitter!Ids
<1>22. Emitter!Listed(items, event, s4) BY <1>3, <1>10 DEF Emitter!TablesHold
<1>23. Emitter!Listed(list, event, s4')
  <2>1. \A i \in DOMAIN list : i # p => list[i].id \in DOMAIN s4 /\ list[i].id # n
    <3>1. \A k \in DOMAIN items : items[k].id \in DOMAIN s4 BY <1>22 DEF Emitter!Listed
    <3> QED BY <1>14, <1>18, <3>1
  <2>2. ASSUME NEW i \in DOMAIN list, NEW j \in DOMAIN list, list[i].id = list[j].id PROVE i = j
    <3>1. CASE i = p BY <1>12, <1>16, <2>1, <2>2, <3>1
    <3>2. CASE j = p BY <1>12, <1>16, <2>1, <2>2, <3>2
    <3>3. CASE i # p /\ j # p
      <4>1. PICK k \in DOMAIN items : at[k] = i /\ list[i] = items[k] BY <1>18, <3>3
      <4>2. PICK l \in DOMAIN items : at[l] = j /\ list[j] = items[l] BY <1>18, <3>3
      <4>3. k = l BY <1>22, <2>2, <4>1, <4>2 DEF Emitter!Listed, Emitter!Distinct
      <4> QED BY <4>1, <4>2, <4>3
    <3> QED BY <3>1, <3>2, <3>3
  <2>3. ASSUME NEW i \in DOMAIN list
        PROVE  /\ list[i].id \in DOMAIN s4'
               /\ s4'[list[i].id].event = event /\ s4'[list[i].id].once = list[i].once
    <3>1. CASE i = p BY <1>11, <1>12, <1>13, <1>14, <1>16, <3>1
    <3>2. CASE i # p
      <4>1. PICK k \in DOMAIN items : list[i] = items[k] BY <1>18, <3>2
      <4> QED BY <1>14, <1>22, <4>1 DEF Emitter!Listed
    <3> QED BY <3>1, <3>2
  <2> QED BY <2>2, <2>3 DEF Emitter!Listed, Emitter!Distinct
<1>24. Emitter!Ids(items) \subseteq Emitter!Ids(list) /\ n \in Emitter!Ids(list)
         /\ Emitter!Ids(list) \subseteq Emitter!Ids(items) \union {n}
  <2>1. Emitter!Ids(items) \subseteq Emitter!Ids(list) BY <1>16, PartIs
  <2>2. n \in Emitter!Ids(list) BY <1>12, <1>16 DEF Emitter!Ids
  <2>3. \A i \in DOMAIN list : list[i].id \in Emitter!Ids(items) \union {n} BY <1>12, <1>16,
        <1>18 DEF Emitter!Ids
  <2> QED BY <2>1, <2>2, <2>3 DEF Emitter!Ids
<1>25. /\ s2' = s2 \union {h} /\ s1' = [s1 EXCEPT ![h] = t] BY <1>2, <1>9 DEF Emitter!Update
<1>26. /\ s2' \subseteq Emitter!Emitting /\ h \in s2' /\ Emitter!Home(o)' = h
       /\ \A x \in Emitter!Emitting : Emitter!Home(x) \in s2 => Emitter!Home(x)' = Emitter!Home(x)
            /\ Emitter!Home(x) \in s2'
  BY <1>2, <1>10, <1>25, HomeStays
<1>27. s1' \in [Emitter!Emitting -> Seq(Emitter!TableEntries)] /\ \A q \in Emitter!Emitting :
         s1'[q] = IF q = h THEN t ELSE s1[q]
  BY <1>10, <1>20, <1>25
<1>28. \A id \in DOMAIN s4 : s4[id].through \in Emitter!Emitting /\ s4[id].event \in Events
  <2>1. \A id \in DOMAIN s4 : s4[id] \in Emitter!Registrations BY <1>10
  <2> QED BY <2>1 DEF Emitter!Registrations
<1>29. /\ Emitter!HomeAmong(s2', o) = h
       /\ \A id \in DOMAIN s4 : /\ Emitter!HomeAmong(s2, s4[id].through) \in s2
                                   /\ Emitter!HomeAmong(s2', s4'[id].through) = Emitter!HomeAmong(s2, s4[id].through)
  BY <1>10, <1>14, <1>26, <1>28 DEF Emitter!TablesHold, Emitter!Home
<1>30. \A q \in Emitter!Emitting : \A e \in Events :
         /\ Emitter!Listed(Emitter!ListenersOf(s1[q], e), e, s4)
         /\ \A id \in Emitter!Ids(Emitter!ListenersOf(s1[q], e)) :
               id \in DOMAIN s4 /\ s4[id].stands /\ Emitter!HomeAmong(s2, s4[id].through) = q
  <2>1. \A x, e : Emitter!Listed(x, e, s4) => \A id \in Emitter!Ids(x) : id \in DOMAIN s4
    BY DEF Emitter!Listed, Emitter!Ids
  <2> QED BY <1>10, <2>1 DEF Emitter!TablesHold, Emitter!Home
<1>31. \A q \in Emitter!Emitting : \A e \in Events :
         /\ Emitter!Listed(Emitter!ListenersOf(s1[q], e), e, s4')
         /\ \A id \in Emitter!Ids(Emitter!ListenersOf(s1[q], e)) :
               s4'[id].stands /\ Emitter!HomeAmong(s2', s4'[id].through) = q
  BY <1>14, <1>21, <1>29, <1>30
<1>32. ASSUME NEW q \in Emitter!Emitting
       PROVE  /\ Emitter!Proper(s1'[q]) /\ (q \notin s2' => s1'[q] = <<>>)
              /\ \A e \in Events :
                    /\ Emitter!Listed(Emitter!ListenersOf(s1'[q], e), e, s4')
                    /\ \A id \in Emitter!Ids(Emitter!ListenersOf(s1'[q], e)) :
                          s4'[id].stands /\ Emitter!HomeAmong(s2', s4'[id].through) = q
  <2>1. CASE q # h
    <3>1. s1'[q] = s1[q] BY <1>27, <2>1
    <3>2. Emitter!Proper(s1[q]) /\ (q \notin s2' => s1[q] = <<>>) BY <1>10, <1>25 DEF Emitter!TablesHold
    <3> QED BY <1>31, <3>1, <3>2
  <2>2. CASE q = h
    <3>1. s1'[q] = t /\ q \in s2' BY <1>26, <1>27, <2>2
    <3>2. ASSUME NEW e \in Events
          PROVE  /\ Emitter!Listed(Emitter!ListenersOf(t, e), e, s4')
                 /\ \A id \in Emitter!Ids(Emitter!ListenersOf(t, e)) :
                       s4'[id].stands /\ Emitter!HomeAmong(s2', s4'[id].through) = q
      <4>1. CASE e = event
        <5>1. ASSUME NEW id \in Emitter!Ids(list) PROVE s4'[id].stands
                       /\ Emitter!HomeAmong(s2', s4'[id].through) = h
          <6>1. CASE id = n BY <1>13, <1>14, <1>29, <6>1
          <6>2. CASE id \in Emitter!Ids(items) BY <1>3, <1>31, <6>2
          <6> QED BY <1>24, <6>1, <6>2
        <5> QED BY <1>20, <1>23, <2>2, <4>1, <5>1
      <4>2. CASE e # event
        <5>1. Emitter!ListenersOf(t, e) = Emitter!ListenersOf(s1[h], e) BY <1>20, <4>2
        <5> QED BY <1>31, <2>2, <5>1
      <4> QED BY <4>1, <4>2
    <3> QED BY <1>20, <3>1, <3>2
  <2> QED BY <2>1, <2>2
<1>33. ASSUME NEW id \in DOMAIN s4'
       PROVE  /\ Emitter!HomeAmong(s2', s4'[id].through) \in s2'
              /\ s4'[id].stands
                   => id \in Emitter!Ids(Emitter!ListenersOf(s1'[Emitter!HomeAmong(s2', s4'[id].through)], s4'[id].event))
  <2>1. CASE id = n BY <1>13, <1>14, <1>20, <1>24, <1>26, <1>27, <1>29, <2>1
  <2>2. CASE id \in DOMAIN s4
    <3>1. PICK q \in Emitter!Emitting : q = Emitter!HomeAmong(s2, s4[id].through) BY <1>10, <1>29, <2>2
    <3>2. Emitter!HomeAmong(s2', s4'[id].through) = q /\ q \in s2' BY <1>25, <1>29, <2>2, <3>1
    <3>3. s4'[id] = s4[id] /\ s4[id].event \in Events BY <1>14, <1>28, <2>2
    <3>4. ASSUME s4[id].stands PROVE id \in Emitter!Ids(Emitter!ListenersOf(s1'[q], s4[id].event))
      <4>1. id \in Emitter!Ids(Emitter!ListenersOf(s1[q], s4[id].event)) BY <1>10, <2>2, <3>1,
            <3>4 DEF Emitter!TablesHold, Emitter!Home
      <4>2. CASE q # h BY <1>27, <4>1, <4>2
      <4>3. CASE q = h /\ s4[id].event = event BY <1>3, <1>20, <1>24, <1>27, <4>1, <4>3
      <4>4. CASE q = h /\ s4[id].event # event BY <1>20, <1>27, <4>1, <4>4
      <4> QED BY <4>2, <4>3, <4>4
    <3> QED BY <3>2, <3>3, <3>4
  <2> QED BY <1>14, <2>1, <2>2
<1>34. Emitter!TablesHold' BY <1>32, <1>33 DEF Emitter!TablesHold, Emitter!Home
<1>35. Emitter!TypeOK' BY <1>9, <1>14, <1>26, <1>27 DEF Emitter!IInv, Emitter!TypeOK
<1>36. \A f \in DOMAIN s3 : Emitter!Listed(s3[f].rest, s3[f].event, s4) BY DEF Emitter!IInv,
      Emitter!EmitsHold
<1>37. Emitter!OnceUncalled'
  <2>1. \A f \in DOMAIN s3 : n \notin Emitter!Ids(s3[f].rest) BY <1>21, <1>36
  <2> QED BY <1>9, <1>13, <1>14, <2>1 DEF Emitter!IInv, Emitter!OnceUncalled
<1>38. Emitter!EmitsHold' BY <1>9, <1>14, <1>21 DEF Emitter!IInv, Emitter!EmitsHold
<1> QED BY <1>34, <1>35, <1>37, <1>38 DEF Emitter!IInv

LEMMA EmitterCallKeeps == Emitter!IInv /\ Emitter!Call => Emitter!IInv'
<1> SUFFICES ASSUME Emitter!IInv, Emitter!Call PROVE Emitter!IInv' OBVIOUS
<1>1. /\ s3 # <<>> /\ s3[1].rest # <<>>
      /\ s3' = [s3 EXCEPT ![1].running = TRUE, ![1].rest = Tail(@),
                                ![1].heard = @ \union {s3[1].rest[1].id}]
      /\ s4' = [s4 EXCEPT ![s3[1].rest[1].id].calls = @ + 1]
      /\ UNCHANGED <<s1, s2, s5, s6>>
  BY DEF Emitter!Call
<1>2. PICK rest : rest = s3[1].rest OBVIOUS
<1>3. PICK id : id = rest[1].id OBVIOUS
<1>4. s3 \in Seq(Emitter!Frames) /\ s4 \in Seq(Emitter!Registrations) BY DEF Emitter!IInv,
      Emitter!TypeOK
<1>5. 1 \in DOMAIN s3 BY <1>1, <1>4
<1>6. s3[1] \in Emitter!Frames BY <1>4, <1>5
<1>7. rest \in Seq(Emitter!Items) /\ rest # <<>> BY <1>1, <1>2, <1>6 DEF Emitter!Frames
<1>8. PICK left : left = Tail(rest) OBVIOUS
<1>9. left \in Seq(Emitter!Items) /\ PartBut(left, rest, {1}) /\ 1 \in DOMAIN rest BY <1>7, <1>8,
      TailWithin
<1>10. Emitter!Listed(rest, s3[1].event, s4) BY <1>2, <1>5 DEF Emitter!IInv, Emitter!EmitsHold
<1>11. id \in DOMAIN s4 /\ id \in Nat /\ s4[id].event = s3[1].event /\ id \in Emitter!Ids(rest)
  <2>1. id \in DOMAIN s4 /\ s4[id].event = s3[1].event BY <1>3, <1>9, <1>10 DEF Emitter!Listed
  <2>2. id \in Emitter!Ids(rest) BY <1>3, <1>9 DEF Emitter!Ids
  <2> QED BY <1>4, <2>1, <2>2
<1>12. /\ Emitter!Ids(left) \subseteq Emitter!Ids(rest)
            /\ Emitter!Ids(rest) \subseteq Emitter!Ids(left) \union {id} /\ id \notin Emitter!Ids(left)
       /\ \A k \in DOMAIN left : \E i \in DOMAIN rest : left[k] = rest[i]
       /\ Emitter!Distinct(left)
  <2>1. {rest[i].id : i \in {1} \intersect DOMAIN rest} = {id} BY <1>3, <1>9
  <2>2. Emitter!Distinct(rest) BY <1>10 DEF Emitter!Listed
  <2> QED BY <1>3, <1>9, <2>1, <2>2, PartIs
<1>13. PICK frame : frame = [s3[1] EXCEPT !.running = TRUE, !.rest = left, !.heard = @ \union {id}] OBVIOUS
<1>14. /\ frame \in Emitter!Frames /\ frame.rest = left /\ frame.heard = s3[1].heard \union {id}
       /\ frame.event = s3[1].event /\ frame.due = s3[1].due
  BY <1>6, <1>9, <1>11, <1>13 DEF Emitter!Frames
<1>15. s3' = [s3 EXCEPT ![1] = frame] BY <1>1, <1>2, <1>3, <1>8, <1>13
<1>16. /\ s3' \in Seq(Emitter!Frames) /\ DOMAIN s3' = DOMAIN s3
       /\ \A f \in DOMAIN s3 : s3'[f] = IF f = 1 THEN frame ELSE s3[f]
  BY <1>4, <1>5, <1>14, <1>15
<1>17. PICK row : row = [s4[id] EXCEPT !.calls = @ + 1] OBVIOUS
<1>18. s4[id] \in Emitter!Registrations BY <1>4, <1>11
<1>19. /\ row \in Emitter!Registrations /\ row.through = s4[id].through /\ row.event = s4[id].event
       /\ row.once = s4[id].once /\ row.stands = s4[id].stands /\ row.calls = s4[id].calls + 1
  BY <1>17, <1>18 DEF Emitter!Registrations
<1>20. s4' = [s4 EXCEPT ![id] = row] BY <1>1, <1>2, <1>3, <1>17
<1>21. /\ s4' \in Seq(Emitter!Registrations) /\ DOMAIN s4' = DOMAIN s4
       /\ \A i \in DOMAIN s4 : s4'[i] = IF i = id THEN row ELSE s4[i]
  BY <1>4, <1>11, <1>19, <1>20
<1>22. /\ \A i \in DOMAIN s4 :
             /\ s4'[i].through = s4[i].through /\ s4'[i].event = s4[i].event
             /\ s4'[i].once = s4[i].once /\ s4'[i].stands = s4[i].stands
             /\ i # id => s4'[i].calls = s4[i].calls
       /\ s4'[id].calls = s4[id].calls + 1
  BY <1>11, <1>19, <1>21
<1>23. \A x, e : Emitter!Listed(x, e, s4) => Emitter!Listed(x, e, s4') BY <1>21, <1>22 DEF Emitter!Listed
<1>24. Emitter!TypeOK' BY <1>1, <1>16, <1>21 DEF Emitter!IInv, Emitter!TypeOK
<1>25. Emitter!TablesHold'
  <2>0. \A x, e : Emitter!Listed(x, e, s4) => \A i \in Emitter!Ids(x) : i \in DOMAIN s4
    BY DEF Emitter!Listed, Emitter!Ids
  <2>1. \A o \in Emitter!Emitting : \A event \in Events :
           \A i \in Emitter!Ids(Emitter!ListenersOf(s1[o], event)) : i \in DOMAIN s4
    BY <2>0 DEF Emitter!IInv, Emitter!TablesHold
  <2>2. s1' = s1 /\ s2' = s2 BY <1>1
  <2>3. \A o \in Emitter!Emitting :
          /\ Emitter!Proper(s1[o]) /\ (o \notin s2 => s1[o] = <<>>)
          /\ \A event \in Events :
                /\ Emitter!Listed(Emitter!ListenersOf(s1[o], event), event, s4')
                /\ \A i \in Emitter!Ids(Emitter!ListenersOf(s1[o], event)) :
                      s4'[i].stands /\ Emitter!HomeAmong(s2, s4'[i].through) = o
    BY <1>22, <1>23, <2>1 DEF Emitter!IInv, Emitter!TablesHold, Emitter!Home
  <2>4. \A i \in DOMAIN s4' :
          /\ Emitter!HomeAmong(s2, s4'[i].through) \in s2
          /\ s4'[i].stands =>
                i \in Emitter!Ids(Emitter!ListenersOf(s1[Emitter!HomeAmong(s2, s4'[i].through)], s4'[i].event))
    BY <1>21, <1>22 DEF Emitter!IInv, Emitter!TablesHold, Emitter!Home
  <2> QED BY <2>2, <2>3, <2>4 DEF Emitter!TablesHold, Emitter!Home
<1>26. \A f \in DOMAIN s3 : Emitter!Ids(s3'[f].rest) \subseteq Emitter!Ids(s3[f].rest)
  BY <1>2, <1>12, <1>14, <1>16
<1>27. Emitter!OnceUncalled'
  <2> SUFFICES ASSUME NEW i \in DOMAIN s4', s4'[i].once
               PROVE  /\ s4'[i].calls <= 1
                      /\ s4'[i].stands
                            => s4'[i].calls = 0 /\ \A f \in DOMAIN s3' : i \notin Emitter!Ids(s3'[f].rest)
                      /\ \A f \in DOMAIN s3' :
                            i \in Emitter!Ids(s3'[f].rest)
                               => s4'[i].calls = 0
                                    /\ \A g \in DOMAIN s3' : i \in Emitter!Ids(s3'[g].rest) => g = f
    BY DEF Emitter!OnceUncalled
  <2>1. i \in DOMAIN s4 /\ s4[i].once BY <1>21, <1>22
  <2>2. /\ s4[i].calls <= 1
        /\ s4[i].stands
              => s4[i].calls = 0 /\ \A f \in DOMAIN s3 : i \notin Emitter!Ids(s3[f].rest)
        /\ \A f \in DOMAIN s3 :
              i \in Emitter!Ids(s3[f].rest)
                 => s4[i].calls = 0
                      /\ \A g \in DOMAIN s3 : i \in Emitter!Ids(s3[g].rest) => g = f
    BY <2>1 DEF Emitter!IInv, Emitter!OnceUncalled
  <2>3. CASE i = id
    <3>1. s4[i].calls = 0 /\ ~s4[i].stands /\ \A g \in DOMAIN s3 : i \in Emitter!Ids(s3[g].rest) => g = 1
      BY <1>2, <1>5, <1>11, <2>2, <2>3
    <3>2. s4'[i].calls = 1 /\ ~s4'[i].stands BY <1>22, <2>1, <2>3, <3>1
    <3>3. \A f \in DOMAIN s3' : i \notin Emitter!Ids(s3'[f].rest)
      BY <1>12, <1>14, <1>16, <1>26, <2>3, <3>1
    <3> QED BY <3>2, <3>3
  <2>4. CASE i # id
    <3>1. s4'[i].calls = s4[i].calls /\ s4'[i].stands = s4[i].stands BY <1>22, <2>1, <2>4
    <3> QED BY <1>16, <1>26, <2>2, <3>1
  <2> QED BY <2>3, <2>4
<1>28. Emitter!EmitsHold'
  <2>1. ASSUME NEW f \in DOMAIN s3'
        PROVE  /\ Emitter!Listed(s3'[f].rest, s3'[f].event, s4')
               /\ s3'[f].due \subseteq s3'[f].heard \union Emitter!Ids(s3'[f].rest)
               /\ \A i \in s3'[f].heard : i \in DOMAIN s4' /\ s4'[i].event = s3'[f].event
    <3>1. /\ Emitter!Listed(s3[f].rest, s3[f].event, s4)
          /\ s3[f].due \subseteq s3[f].heard \union Emitter!Ids(s3[f].rest)
          /\ \A i \in s3[f].heard : i \in DOMAIN s4 /\ s4[i].event = s3[f].event
      BY <1>16, <2>1 DEF Emitter!IInv, Emitter!EmitsHold
    <3>2. CASE f = 1
      <4>1. s3'[f] = frame BY <1>5, <1>16, <3>2
      <4>2. Emitter!Listed(left, s3[1].event, s4') BY <1>10, <1>12, <1>23 DEF Emitter!Listed
      <4>3. frame.due \subseteq frame.heard \union Emitter!Ids(left) BY <1>2, <1>12, <1>14, <3>1, <3>2
      <4>4. \A i \in frame.heard : i \in DOMAIN s4' /\ s4'[i].event = s3[1].event
        BY <1>11, <1>14, <1>21, <1>22, <3>1, <3>2
      <4> QED BY <1>14, <4>1, <4>2, <4>3, <4>4
    <3>3. CASE f # 1
      <4>1. s3'[f] = s3[f] BY <1>16, <3>3
      <4> QED BY <1>21, <1>22, <1>23, <3>1, <4>1
    <3> QED BY <3>2, <3>3
  <2> QED BY <2>1 DEF Emitter!EmitsHold
<1> QED BY <1>24, <1>25, <1>27, <1>28 DEF Emitter!IInv

LEMMA EmitterReturnKeeps == Emitter!IInv /\ Emitter!Return => Emitter!IInv'
<1> SUFFICES ASSUME Emitter!IInv, Emitter!Return PROVE Emitter!IInv' OBVIOUS
<1>1. s3 # <<>> /\ s3' = [s3 EXCEPT ![1].running = FALSE] /\ UNCHANGED <<s1, s2, s4, s5, s6>>
  BY DEF Emitter!Return
<1>2. s3 \in Seq(Emitter!Frames) BY DEF Emitter!IInv, Emitter!TypeOK
<1>3. 1 \in DOMAIN s3 BY <1>1, <1>2
<1>4. s3[1] \in Emitter!Frames BY <1>2, <1>3
<1>5. PICK frame : frame = [s3[1] EXCEPT !.running = FALSE] OBVIOUS
<1>6. /\ frame \in Emitter!Frames /\ frame.rest = s3[1].rest /\ frame.heard = s3[1].heard
      /\ frame.event = s3[1].event /\ frame.due = s3[1].due
  BY <1>4, <1>5 DEF Emitter!Frames
<1>7. s3' = [s3 EXCEPT ![1] = frame] BY <1>1, <1>5
<1>8. /\ s3' \in Seq(Emitter!Frames) /\ DOMAIN s3' = DOMAIN s3
      /\ \A f \in DOMAIN s3 : s3'[f] = IF f = 1 THEN frame ELSE s3[f]
  BY <1>2, <1>3, <1>6, <1>7
<1>9. \A f \in DOMAIN s3 : /\ s3'[f].rest = s3[f].rest /\ s3'[f].heard = s3[f].heard
                              /\ s3'[f].event = s3[f].event /\ s3'[f].due = s3[f].due
  BY <1>6, <1>8
<1>10. Emitter!TypeOK' BY <1>1, <1>8 DEF Emitter!IInv, Emitter!TypeOK
<1>11. Emitter!TablesHold'
  <2>1. s1' = s1 /\ s2' = s2 /\ s4' = s4 BY <1>1
  <2> QED BY <2>1 DEF Emitter!IInv, Emitter!TablesHold, Emitter!Home
<1>12. Emitter!OnceUncalled' BY <1>1, <1>8, <1>9 DEF Emitter!IInv, Emitter!OnceUncalled
<1>13. Emitter!EmitsHold' BY <1>1, <1>8, <1>9 DEF Emitter!IInv, Emitter!EmitsHold
<1> QED BY <1>10, <1>11, <1>12, <1>13 DEF Emitter!IInv

\* An emit is over, or thrown out of.
LEMMA LeavingKeeps ==
  ASSUME Emitter!IInv, s3 # <<>>, s3' = Tail(s3), UNCHANGED <<s1, s2, s4>>
  PROVE  Emitter!IInv'
<1>1. s3 \in Seq(Emitter!Frames) BY DEF Emitter!IInv, Emitter!TypeOK
<1>2. s3' \in Seq(Emitter!Frames) /\ PartBut(s3', s3, {1}) BY <1>1, TailWithin
<1>3. PICK at \in [DOMAIN s3' -> DOMAIN s3 \ {1}] :
        /\ \A k \in DOMAIN s3' : s3'[k] = s3[at[k]]
        /\ \A k, l \in DOMAIN s3' : at[k] = at[l] => k = l
  BY <1>2 DEF PartBut
<1>4. \A f \in DOMAIN s3' : at[f] \in DOMAIN s3 BY <1>3
<1>5. Emitter!TypeOK' BY <1>2 DEF Emitter!IInv, Emitter!TypeOK
<1>6. Emitter!TablesHold' BY DEF Emitter!IInv, Emitter!TablesHold, Emitter!Home
<1>7. Emitter!OnceUncalled' BY <1>3, <1>4 DEF Emitter!IInv, Emitter!OnceUncalled
<1>8. Emitter!EmitsHold' BY <1>3, <1>4 DEF Emitter!IInv, Emitter!EmitsHold
<1> QED BY <1>5, <1>6, <1>7, <1>8 DEF Emitter!IInv

LEMMA EmittersNext == Emitter!IInv /\ [Emitter!Next]_(Emitter!vars) => Emitter!IInv'
<1> SUFFICES ASSUME Emitter!IInv, [Emitter!Next]_(Emitter!vars) PROVE Emitter!IInv' OBVIOUS
<1>1. CASE Emitter!AddListener BY <1>1, EmitterListenKeeps
<1>2. CASE Emitter!RemoveListener BY <1>2, EmitterOffKeeps
<1>3. CASE Emitter!RemoveAll BY <1>3, EmitterClearKeeps
<1>4. CASE Emitter!Emit BY <1>4, EmitKeeps
<1>5. CASE Emitter!Call BY <1>5, EmitterCallKeeps
<1>6. CASE Emitter!Return BY <1>6, EmitterReturnKeeps
<1>7. CASE Emitter!ThrowOut BY <1>7, LeavingKeeps DEF Emitter!ThrowOut
<1>8. CASE Emitter!EmitEnds BY <1>8, LeavingKeeps DEF Emitter!EmitEnds
<1>9. CASE UNCHANGED Emitter!vars BY <1>9 DEF Emitter!vars, Emitter!IInv, Emitter!TypeOK,
      Emitter!TablesHold, Emitter!Home, Emitter!OnceUncalled, Emitter!EmitsHold
<1> QED BY <1>1, <1>2, <1>3, <1>4, <1>5, <1>6, <1>7, <1>8, <1>9 DEF Emitter!Next
===============================================================================

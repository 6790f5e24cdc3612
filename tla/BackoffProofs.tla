---------------------------- MODULE BackoffProofs ----------------------------
(***************************************************************************)
(* The sliding window is bounded and ordered, and it implements the        *)
(* breaker, for every policy a unit file can give and for every clock.     *)
(***************************************************************************)
EXTENDS Backoff, FiniteSetTheorems, SequenceTheorems, TLAPS

(* What the window's arithmetic needs of the types. *)
Typed ==
  /\ now \in Nat
  /\ burst \in Nat \ {0}
  /\ interval \in Nat
  /\ window \in Seq(Nat)

Inv == Typed /\ WindowBounded /\ WindowOrdered

(* A window whose entries are ordered and not ahead of t. *)
Ordered(w, t) ==
  /\ \A i, j \in 1 .. Len(w) : i <= j => w[i] <= w[j]
  /\ \A i \in 1 .. Len(w) : w[i] <= t

(* A part of an ordered window is ordered. *)
LEMMA PartIsOrdered ==
  ASSUME NEW t \in Nat, NEW w \in Seq(Nat), Ordered(w, t),
         NEW k \in Nat, k <= Len(w)
  PROVE  LET s == SubSeq(w, k + 1, Len(w))
         IN /\ s \in Seq(Nat)
            /\ Len(s) = Len(w) - k
            /\ Ordered(s, t)
<1> DEFINE s == SubSeq(w, k + 1, Len(w))
<1>1. Len(w) \in Nat
  OBVIOUS
<1>2. /\ s \in Seq(Nat)
      /\ Len(s) = Len(w) - k
      /\ \A i \in 1 .. Len(s) : s[i] = w[k + i]
  BY <1>1, SMTT(60)
<1>3. \A i \in 1 .. Len(s) : k + i \in 1 .. Len(w)
  BY <1>1, <1>2
<1>4. Ordered(s, t)
  BY <1>1, <1>2, <1>3, SMTT(60) DEF Ordered
<1>5. QED
  BY <1>2, <1>4

(* Trimming keeps the newest entries, at most b of them. *)
LEMMA TrimmedIsOrdered ==
  ASSUME NEW t \in Nat, NEW w \in Seq(Nat), Ordered(w, t), NEW b \in Nat \ {0}
  PROVE  /\ TrimTo(w, b) \in Seq(Nat)
         /\ Len(TrimTo(w, b)) = Smaller(Len(w), b)
         /\ Ordered(TrimTo(w, b), t)
<1>1. CASE Len(w) > b
  <2> DEFINE k == Len(w) - b
  <2>1. k \in Nat /\ k <= Len(w)
    BY <1>1
  <2>2. TrimTo(w, b) = SubSeq(w, k + 1, Len(w))
    BY <1>1 DEF TrimTo
  <2> HIDE DEF k
  <2>3. /\ TrimTo(w, b) \in Seq(Nat)
        /\ Len(TrimTo(w, b)) = Len(w) - k
        /\ Ordered(TrimTo(w, b), t)
    BY <2>1, <2>2, PartIsOrdered
  <2>4. QED
    BY <1>1, <2>3 DEF k, Smaller
<1>2. CASE Len(w) <= b
  BY <1>2 DEF TrimTo, Smaller
<1>3. QED
  BY <1>1, <1>2

(* A failure pushed at the time t onto a window that is not ahead of t. *)
LEMMA PushedIsOrdered ==
  ASSUME NEW t \in Nat, NEW w \in Seq(Nat), Ordered(w, t)
  PROVE  /\ Push(w, t) \in Seq(Nat)
         /\ Len(Push(w, t)) = Len(w) + 1
         /\ Push(w, t)[Len(w) + 1] = t
         /\ Ordered(Push(w, t), t)
BY DEF Push, Ordered

(* Ordered is WindowOrdered, stated of any window. *)
LEMMA OrderedIsWindowOrdered ==
  ASSUME window \in Seq(Nat)
  PROVE  WindowOrdered <=> Ordered(window, now)
BY DEF WindowOrdered, Ordered

(* What a failure does to the window. *)
LEMMA FailureWindow ==
  ASSUME Inv, on_failure
  PROVE  /\ Typed' /\ WindowBounded' /\ WindowOrdered'
         /\ interval = 0 => Len(window') \in 0 .. Len(window)
         /\ interval # 0 => Len(window') \in 1 .. (Len(window) + 1)
<1> DEFINE kept   == IF HasBeenStable THEN <<>> ELSE window
           pushed == Push(kept, now)
<1>1. Typed /\ Ordered(window, now) /\ Len(window) <= burst
  BY OrderedIsWindowOrdered DEF Inv, Typed, WindowBounded
<1>2. /\ kept \in Seq(Nat)
      /\ Len(kept) \in 0 .. Len(window)
      /\ Ordered(kept, now)
  <2>1. CASE HasBeenStable
    BY <1>1, <2>1 DEF Typed, Ordered
  <2>2. CASE ~HasBeenStable
    BY <1>1, <2>2 DEF Typed
  <2>3. QED
    BY <2>1, <2>2
<1>3. now' = now /\ burst' = burst /\ interval' = interval
  BY DEF on_failure, policy
<1>4. \/ interval = 0 /\ window' = kept
      \/ /\ interval # 0
         /\ \E k \in 0 .. Len(pushed) :
              /\ Expired(pushed, k)
              /\ window' = TrimTo(SubSeq(pushed, k + 1, Len(pushed)), burst)
  BY DEF on_failure
<1> HIDE DEF kept
<1>5. ASSUME window' \in Seq(Nat), Ordered(window', now), Len(window') <= burst
      PROVE  Typed' /\ WindowBounded' /\ WindowOrdered'
  BY <1>1, <1>3, <1>5, SMTT(60) DEF Typed, WindowBounded, WindowOrdered, Ordered
<1>6. CASE interval = 0 /\ window' = kept
  <2>1. Len(kept) <= burst
    BY <1>1, <1>2 DEF Typed
  <2>2. QED
    BY <1>2, <1>5, <1>6, <2>1
<1>7. CASE /\ interval # 0
           /\ \E k \in 0 .. Len(pushed) :
                /\ Expired(pushed, k)
                /\ window' = TrimTo(SubSeq(pushed, k + 1, Len(pushed)), burst)
  <2>1. /\ pushed \in Seq(Nat)
        /\ Len(pushed) = Len(kept) + 1
        /\ pushed[Len(kept) + 1] = now
        /\ Ordered(pushed, now)
    BY <1>1, <1>2, PushedIsOrdered DEF Typed
  <2> HIDE DEF pushed
  <2>2. PICK k \in 0 .. Len(pushed) :
               /\ Expired(pushed, k)
               /\ window' = TrimTo(SubSeq(pushed, k + 1, Len(pushed)), burst)
    BY <1>7
  <2>3. k # Len(pushed)
    BY <1>1, <1>2, <1>7, <2>1, <2>2 DEF Expired, Typed
  <2>4. k \in Nat /\ k < Len(pushed)
    BY <2>1, <2>2, <2>3
  <2> DEFINE s == SubSeq(pushed, k + 1, Len(pushed))
  <2>5. /\ s \in Seq(Nat)
        /\ Len(s) = Len(pushed) - k
        /\ Ordered(s, now)
    BY <1>1, <2>1, <2>4, PartIsOrdered DEF Typed
  <2>6. window' = TrimTo(s, burst)
    BY <2>2
  <2> HIDE DEF s
  <2>7. /\ window' \in Seq(Nat)
        /\ Len(window') = Smaller(Len(s), burst)
        /\ Ordered(window', now)
    BY <1>1, <2>5, <2>6, TrimmedIsOrdered DEF Typed
  <2>8. Len(window') <= burst /\ Len(window') \in 1 .. (Len(window) + 1)
    <3>1. Len(window) \in Nat /\ Len(kept) \in Nat /\ burst \in Nat \ {0}
      BY <1>1, <1>2 DEF Typed
    <3>2. Len(s) \in 1 .. (Len(window) + 1)
      BY <1>2, <2>1, <2>4, <2>5, <3>1
    <3>3. QED
      BY <2>7, <3>1, <3>2 DEF Smaller
  <2>9. QED
    BY <1>5, <1>7, <2>7, <2>8
<1>8. QED
  BY <1>4, <1>6, <1>7

(* What a reload does to the window. *)
LEMMA ReloadWindow ==
  ASSUME Inv, NEW b \in Bases, NEW r \in Bursts, NEW i \in Intervals,
         reconfigure(b, r, i)
  PROVE  /\ Typed' /\ WindowBounded' /\ WindowOrdered'
         /\ Len(window') \in 0 .. Len(window)
<1>1. Typed /\ Ordered(window, now)
  BY OrderedIsWindowOrdered DEF Inv, Typed
<1>2. r \in Nat /\ i \in Nat /\ AtLeastOne(r) \in Nat \ {0}
  BY BackoffAssumption DEF AtLeastOne
<1>3. /\ now' = now /\ burst' = AtLeastOne(r) /\ interval' = i
      /\ window' = TrimTo(window, AtLeastOne(r))
  BY DEF reconfigure
<1>4. /\ window' \in Seq(Nat)
      /\ Len(window') = Smaller(Len(window), burst')
      /\ Ordered(window', now)
  BY <1>1, <1>2, <1>3, TrimmedIsOrdered DEF Typed
<1>5. Len(window) \in Nat /\ Len(window') \in 0 .. Len(window) /\ Len(window') <= burst'
  BY <1>1, <1>2, <1>3, <1>4 DEF Typed, Smaller
<1>6. QED
  BY <1>1, <1>2, <1>3, <1>4, <1>5 DEF Typed, WindowBounded, WindowOrdered, Ordered

(* The window is empty at first. *)
LEMMA InitInv == BackoffInit => Inv
<1> SUFFICES ASSUME BackoffInit PROVE Inv
  OBVIOUS
<1>1. burst \in Nat \ {0} /\ interval \in Nat
  BY BackoffAssumption DEF BackoffInit, AtLeastOne
<1>2. QED
  BY <1>1 DEF BackoffInit, Inv, Typed, WindowBounded, WindowOrdered

(* Every call keeps the window typed, bounded and in order. *)
LEMMA NextInv == Inv /\ [BackoffNext]_backoffVars => Inv'
<1> SUFFICES ASSUME Inv, [BackoffNext]_backoffVars PROVE Inv'
  OBVIOUS
<1>1. CASE Tick
  BY <1>1 DEF Tick, Inv, Typed, WindowBounded, WindowOrdered, policy
<1>2. CASE on_active
  BY <1>2 DEF on_active, Inv, Typed, WindowBounded, WindowOrdered, policy
<1>3. CASE on_failure
  BY <1>3, FailureWindow DEF Inv
<1>4. ASSUME NEW b \in Bases, NEW r \in Bursts, NEW i \in Intervals, reconfigure(b, r, i)
      PROVE  Inv'
  BY <1>4, ReloadWindow DEF Inv
<1>5. CASE reset
  BY <1>5 DEF reset, Inv, Typed, WindowBounded, WindowOrdered, policy
<1>6. CASE UNCHANGED backoffVars
  BY <1>6 DEF backoffVars, Inv, Typed, WindowBounded, WindowOrdered
<1>7. QED
  BY <1>1, <1>2, <1>3, <1>4, <1>5, <1>6 DEF BackoffNext

(* The invariant of the window holds throughout. *)
LEMMA InvHolds == BackoffSpec => []Inv
<1>1. QED
  BY InitInv, NextInv, PTL DEF BackoffSpec

(* The window of BackoffState never holds more than StartLimitBurst        *)
(* entries, under any sequence of failures, reloads and resets.            *)
THEOREM WindowAlwaysBounded == BackoffSpec => []WindowBounded
<1>1. Inv => WindowBounded
  BY DEF Inv
<1>2. QED
  BY <1>1, InvHolds, PTL

(* The entries that on_failure expires from the front are the oldest ones. *)
THEOREM WindowAlwaysOrdered == BackoffSpec => []WindowOrdered
<1>1. Inv => WindowOrdered
  BY DEF Inv
<1>2. QED
  BY <1>1, InvHolds, PTL

(* BackoffState implements the breaker: each call is a step of Breaker or  *)
(* leaves its count, limit and verdict as they were.                       *)
THEOREM BackoffImplementsBreaker == BackoffSpec => ImplementsBreaker
<1>1. ASSUME BackoffInit PROVE B!Init
  <2>1. burst \in Nat /\ interval \in Nat
    BY <1>1, InitInv DEF Inv, Typed
  <2>2. QED
    BY <1>1, <2>1 DEF BackoffInit, B!Init, Limit, NoVerdict
<1>2. ASSUME Inv, [BackoffNext]_backoffVars PROVE [B!Next]_(B!vars)
  <2> USE <1>2
  <2>1. Len(window) \in Nat /\ Limit \in Nat
    BY DEF Inv, Typed, Limit
  <2>2. CASE Tick
    <3>1. B!Consume
      BY <2>2 DEF Tick, B!Consume, Limit, policy, NoVerdict
    <3>2. QED
      BY <3>1 DEF B!Next
  <2>3. CASE on_active
    <3>1. B!Consume
      BY <2>3 DEF on_active, B!Consume, Limit, policy, NoVerdict
    <3>2. QED
      BY <3>1 DEF B!Next
  <2>4. CASE on_failure
    <3>1. Limit' = Limit
      BY <2>4 DEF on_failure, Limit, policy
    <3>2. /\ interval = 0 => Len(window') \in 0 .. Len(window)
          /\ interval # 0 => Len(window') \in 1 .. (Len(window) + 1)
      BY <2>4, FailureWindow
    <3>3. CASE interval = 0
      <4>1. Limit = 0 /\ verdict'.kind = "retry"
        BY <2>4, <3>3 DEF on_failure, Limit, Retry
      <4>2. QED
        BY <2>1, <3>1, <3>2, <3>3, <4>1 DEF B!Next, B!Fail
    <3>4. CASE interval # 0
      <4>1. Limit = burst /\ burst # 0
        BY <3>4 DEF Limit, Inv, Typed
      <4>2. \/ Len(window') >= burst /\ verdict'.kind = "trip"
            \/ ~(Len(window') >= burst) /\ verdict'.kind = "retry"
        BY <2>4, <3>4 DEF on_failure, Tripped, Trip, Retry
      <4>3. (verdict'.kind = "trip") = (Limit # 0 /\ Len(window') >= Limit)
        BY <4>1, <4>2
      <4>4. QED
        BY <2>1, <3>1, <3>2, <3>4, <4>1, <4>3 DEF B!Next, B!Fail
    <3>5. QED
      BY <3>3, <3>4
  <2>5. ASSUME NEW b \in Bases, NEW r \in Bursts, NEW i \in Intervals, reconfigure(b, r, i)
        PROVE  [B!Next]_(B!vars)
    <3>1. Len(window') \in 0 .. Len(window)
      BY <2>5, ReloadWindow
    <3>2. Limit' \in Nat
      BY <2>5, ReloadWindow DEF Typed, Limit
    <3>3. verdict'.kind # "trip"
      BY <2>5 DEF reconfigure, NoVerdict
    <3>4. B!Reconfigure
      BY <3>1, <3>2, <3>3 DEF B!Reconfigure
    <3>5. QED
      BY <3>4 DEF B!Next
  <2>6. CASE reset
    <3>1. B!Clear
      BY <2>6 DEF reset, B!Clear, Limit, policy, NoVerdict
    <3>2. QED
      BY <3>1 DEF B!Next
  <2>7. CASE UNCHANGED backoffVars
    BY <2>7 DEF backoffVars, B!vars, Limit
  <2>8. QED
    BY <2>2, <2>3, <2>4, <2>5, <2>6, <2>7 DEF BackoffNext
<1>3. QED
  BY <1>1, <1>2, InvHolds, PTL DEF BackoffSpec, B!Spec, ImplementsBreaker

------------------------------------------------------------------------------
(* The verdicts.  The window is a summary of `failures`, the record of     *)
(* every failure since the last clear: each of its entries is one of them, *)
(* and, as long as no reload changed the policy, they are the newest ones, *)
(* the others being too old to count or older than a full window.          *)

(* The entries of w are different entries of s. *)
Embeds(w, s) ==
  \E f \in Injection(1 .. Len(w), 1 .. Len(s)) : \A i \in 1 .. Len(w) : w[i] = s[f[i]]

(* w is the end of s. *)
EndOf(w, s) ==
  /\ Len(w) <= Len(s)
  /\ \A i \in 1 .. Len(w) : w[i] = s[(Len(s) - Len(w)) + i]

Recorded ==
  /\ base \in Nat /\ consecutive \in Nat /\ reloaded \in BOOLEAN
  /\ failures \in Seq(Nat) /\ Ordered(failures, now)
  /\ Embeds(window, failures)

Summary ==
  interval # 0 /\ ~reloaded =>
    /\ EndOf(window, failures)
    /\ \A i \in 1 .. (Len(failures) - Len(window)) :
         now - failures[i] >= interval \/ Len(window) = burst

(* Nothing is a summary of nothing. *)
LEMMA EmptyRecord ==
  /\ Embeds(<<>>, <<>>) /\ EndOf(<<>>, <<>>)
  /\ \A t : Ordered(<<>>, t)
  /\ << >> \in Seq(Nat) /\ Len(<< >>) = 0
<1>1. << >> \in Injection(1 .. Len(<< >>), 1 .. Len(<< >>))
  BY DEF Injection, IsInjective
<1>2. Embeds(<<>>, <<>>)
  BY <1>1 DEF Embeds
<1>3. QED
  BY <1>2 DEF EndOf, Ordered

(* The record and the window grow by the same failure, or the record       *)
(* alone, or the window loses its oldest entries.                          *)
LEMMA EmbedsPushed ==
  ASSUME NEW w \in Seq(Nat), NEW s \in Seq(Nat), NEW t \in Nat, Embeds(w, s)
  PROVE  Embeds(Append(w, t), Append(s, t)) /\ Embeds(w, Append(s, t))
<1> DEFINE m == Len(w)
           n == Len(s)
<1>1. PICK f \in Injection(1 .. m, 1 .. n) : \A i \in 1 .. m : w[i] = s[f[i]]
  BY DEF Embeds
<1>2. /\ m \in Nat /\ n \in Nat /\ f \in [1 .. m -> 1 .. n]
      /\ \A i, j \in 1 .. m : f[i] = f[j] => i = j
  BY DEF Injection, IsInjective
<1>3. /\ Len(Append(w, t)) = m + 1 /\ Len(Append(s, t)) = n + 1
      /\ \A i \in 1 .. m : Append(w, t)[i] = w[i]
      /\ \A i \in 1 .. n : Append(s, t)[i] = s[i]
      /\ Append(w, t)[m + 1] = t /\ Append(s, t)[n + 1] = t
  OBVIOUS
<1> HIDE DEF m, n
<1>4. Embeds(w, Append(s, t))
  <2>1. f \in Injection(1 .. m, 1 .. n + 1)
    BY <1>2 DEF Injection, IsInjective
  <2>2. \A i \in 1 .. m : w[i] = Append(s, t)[f[i]]
    BY <1>1, <1>2, <1>3
  <2>3. QED
    BY <1>3, <2>1, <2>2 DEF Embeds, m
<1>5. Embeds(Append(w, t), Append(s, t))
  <2> DEFINE g == [i \in 1 .. m + 1 |-> IF i = m + 1 THEN n + 1 ELSE f[i]]
  <2>1. g \in [1 .. m + 1 -> 1 .. n + 1]
    BY <1>2
  <2>2. \A i, j \in 1 .. m + 1 : g[i] = g[j] => i = j
    BY <1>2
  <2>3. g \in Injection(1 .. m + 1, 1 .. n + 1)
    BY <2>1, <2>2 DEF Injection, IsInjective
  <2>4. ASSUME NEW i \in 1 .. m + 1 PROVE Append(w, t)[i] = Append(s, t)[g[i]]
    <3>1. CASE i = m + 1
      BY <1>3, <3>1
    <3>2. CASE i # m + 1
      BY <1>1, <1>2, <1>3, <3>2
    <3>3. QED
      BY <3>1, <3>2
  <2> HIDE DEF g
  <2>5. QED
    BY <1>3, <2>3, <2>4 DEF Embeds
<1>6. QED
  BY <1>4, <1>5

(* The end of a window of recorded failures is one, too. *)
LEMMA EmbedsEnd ==
  ASSUME NEW w \in Seq(Nat), NEW s \in Seq(Nat), Embeds(w, s),
         NEW v \in Seq(Nat), EndOf(v, w)
  PROVE  Embeds(v, s)
<1> DEFINE d == Len(w) - Len(v)
<1>1. PICK f \in Injection(1 .. Len(w), 1 .. Len(s)) : \A i \in 1 .. Len(w) : w[i] = s[f[i]]
  BY DEF Embeds
<1>2. /\ Len(w) \in Nat /\ Len(v) \in Nat /\ Len(s) \in Nat /\ d \in Nat
      /\ f \in [1 .. Len(w) -> 1 .. Len(s)]
      /\ \A i, j \in 1 .. Len(w) : f[i] = f[j] => i = j
  BY DEF Injection, IsInjective, EndOf
<1>3. \A i \in 1 .. Len(v) : d + i \in 1 .. Len(w) /\ v[i] = w[d + i]
  BY <1>2 DEF EndOf
<1> HIDE DEF d
<1> DEFINE g == [i \in 1 .. Len(v) |-> f[d + i]]
<1>4. g \in [1 .. Len(v) -> 1 .. Len(s)] /\ \A i, j \in 1 .. Len(v) : g[i] = g[j] => i = j
  <2>1. g \in [1 .. Len(v) -> 1 .. Len(s)]
    BY <1>2, <1>3
  <2>2. ASSUME NEW i \in 1 .. Len(v), NEW j \in 1 .. Len(v), g[i] = g[j] PROVE i = j
    <3>1. d + i = d + j
      BY <1>2, <1>3, <2>2
    <3>2. QED
      BY <1>2, <3>1
  <2>3. QED
    BY <2>1, <2>2
<1>5. g \in Injection(1 .. Len(v), 1 .. Len(s))
  BY <1>4 DEF Injection, IsInjective
<1>6. \A i \in 1 .. Len(v) : v[i] = s[g[i]]
  BY <1>1, <1>3
<1> HIDE DEF g
<1>7. QED
  BY <1>5, <1>6 DEF Embeds

(* As many failures lie within the interval as a window of them has        *)
(* entries.                                                                *)
LEMMA EmbedsCounts ==
  ASSUME NEW w \in Seq(Nat), NEW s \in Seq(Nat), NEW t \in Nat, NEW width \in Nat,
         Embeds(w, s), \A i \in 1 .. Len(w) : t - w[i] < width
  PROVE  Cardinality({i \in 1 .. Len(s) : t - s[i] < width}) >= Len(w)
<1> DEFINE R == {i \in 1 .. Len(s) : t - s[i] < width}
<1>1. PICK f \in Injection(1 .. Len(w), 1 .. Len(s)) : \A i \in 1 .. Len(w) : w[i] = s[f[i]]
  BY DEF Embeds
<1>2. Len(w) \in Nat /\ Len(s) \in Nat
  OBVIOUS
<1>3. f \in [1 .. Len(w) -> R]
  BY <1>1 DEF Injection
<1>4. f \in Injection(1 .. Len(w), R)
  BY <1>3 DEF Injection
<1>5. IsFiniteSet(R)
  <2>1. IsFiniteSet(1 .. Len(s))
    BY <1>2, FS_Interval
  <2>2. QED
    BY <2>1, FS_Subset
<1> HIDE DEF R
<1>6. Cardinality(1 .. Len(w)) <= Cardinality(R)
  BY <1>4, <1>5, FS_Injection
<1>7. Cardinality(1 .. Len(w)) = Len(w)
  <2>1. 1 \in Int /\ Len(w) \in Int
    BY <1>2
  <2>2. Cardinality(1 .. Len(w)) = IF 1 > Len(w) THEN 0 ELSE Len(w) - 1 + 1
    BY <2>1, FS_Interval
  <2>3. QED
    BY <1>2, <2>2
<1>8. Cardinality(R) \in Nat
  BY <1>5, FS_CardinalityType
<1>9. QED
  BY <1>2, <1>6, <1>7, <1>8 DEF R

(* Not more failures lie within the interval than w has entries when the   *)
(* ones before w are too old.                                              *)
LEMMA EndCounts ==
  ASSUME NEW w \in Seq(Nat), NEW s \in Seq(Nat), NEW t \in Nat, NEW width \in Nat,
         Len(w) <= Len(s),
         \A i \in 1 .. (Len(s) - Len(w)) : t - s[i] >= width
  PROVE  Cardinality({i \in 1 .. Len(s) : t - s[i] < width}) <= Len(w)
<1> DEFINE R == {i \in 1 .. Len(s) : t - s[i] < width}
           last == (Len(s) - Len(w) + 1) .. Len(s)
<1>1. Len(w) \in Nat /\ Len(s) \in Nat /\ \A i \in 1 .. Len(s) : s[i] \in Nat
  OBVIOUS
<1>2. ASSUME NEW i \in R PROVE i \in last
  <2>1. i \in 1 .. Len(s) /\ t - s[i] < width
    OBVIOUS
  <2>2. i \notin 1 .. (Len(s) - Len(w))
    BY <1>1, <2>1
  <2>3. QED
    BY <1>1, <2>1, <2>2
<1>3. IsFiniteSet(last) /\ Cardinality(last) = Len(w)
  <2>1. (Len(s) - Len(w) + 1) \in Int /\ Len(s) \in Int
    BY <1>1
  <2>2. /\ IsFiniteSet(last)
        /\ Cardinality(last) = IF (Len(s) - Len(w) + 1) > Len(s) THEN 0
                                ELSE Len(s) - (Len(s) - Len(w) + 1) + 1
    BY <2>1, FS_Interval
  <2>3. QED
    BY <1>1, <2>2
<1> HIDE DEF R, last
<1>4. Cardinality(R) <= Cardinality(last)
  BY <1>2, <1>3, FS_Subset
<1>5. QED
  BY <1>3, <1>4 DEF R

(* The entries behind the first k. *)
LEMMA Behind ==
  ASSUME NEW s \in Seq(Nat), NEW k \in Nat, k <= Len(s)
  PROVE  /\ SubSeq(s, k + 1, Len(s)) \in Seq(Nat)
         /\ Len(SubSeq(s, k + 1, Len(s))) = Len(s) - k
         /\ \A i \in 1 .. (Len(s) - k) : SubSeq(s, k + 1, Len(s))[i] = s[k + i]
         /\ EndOf(SubSeq(s, k + 1, Len(s)), s)
<1>1. Len(s) \in Nat
  OBVIOUS
<1>2. /\ SubSeq(s, k + 1, Len(s)) \in Seq(Nat)
      /\ Len(SubSeq(s, k + 1, Len(s))) = Len(s) - k
      /\ \A i \in 1 .. (Len(s) - k) : SubSeq(s, k + 1, Len(s))[i] = s[k + i]
  BY <1>1, SMTT(60)
<1>3. Len(s) - (Len(s) - k) = k /\ Len(s) - k <= Len(s)
  BY <1>1
<1>4. QED
  BY <1>2, <1>3 DEF EndOf

(* Trimming leaves the end of a window. *)
LEMMA TrimmedIsEnd ==
  ASSUME NEW s \in Seq(Nat), NEW b \in Nat \ {0}
  PROVE  /\ TrimTo(s, b) \in Seq(Nat)
         /\ Len(TrimTo(s, b)) = Smaller(Len(s), b)
         /\ EndOf(TrimTo(s, b), s)
<1>1. Len(s) \in Nat
  OBVIOUS
<1>2. CASE Len(s) > b
  <2> DEFINE d == Len(s) - b
  <2>1. d \in Nat /\ d <= Len(s) /\ Len(s) - d = b /\ b < Len(s)
    BY <1>1, <1>2
  <2>2. TrimTo(s, b) = SubSeq(s, d + 1, Len(s))
    BY <1>2 DEF TrimTo
  <2> HIDE DEF d
  <2>3. TrimTo(s, b) \in Seq(Nat) /\ Len(TrimTo(s, b)) = b /\ EndOf(TrimTo(s, b), s)
    BY <2>1, <2>2, Behind
  <2>4. Smaller(Len(s), b) = b
    BY <1>1, <2>1 DEF Smaller
  <2>5. QED
    BY <2>3, <2>4
<1>3. CASE ~(Len(s) > b)
  BY <1>1, <1>3 DEF TrimTo, Smaller, EndOf
<1>4. QED
  BY <1>2, <1>3

(* The end of an end is an end. *)
LEMMA EndOfEnd ==
  ASSUME NEW v \in Seq(Nat), NEW w \in Seq(Nat), NEW s \in Seq(Nat),
         EndOf(v, w), EndOf(w, s)
  PROVE  EndOf(v, s)
<1> DEFINE m == Len(v)
           n == Len(w)
           l == Len(s)
<1>1. m \in Nat /\ n \in Nat /\ l \in Nat /\ m <= n /\ n <= l
  BY DEF EndOf
<1>2. \A i \in 1 .. m : v[i] = w[(n - m) + i]
  BY DEF EndOf
<1>3. \A i \in 1 .. n : w[i] = s[(l - n) + i]
  BY DEF EndOf
<1> HIDE DEF m, n, l
<1>4. ASSUME NEW i \in 1 .. m PROVE v[i] = s[(l - m) + i]
  <2>1. (n - m) + i \in 1 .. n /\ (l - n) + ((n - m) + i) = (l - m) + i
    BY <1>1
  <2>2. w[(n - m) + i] = s[(l - n) + ((n - m) + i)]
    BY <1>3, <2>1
  <2>3. QED
    BY <1>2, <2>1, <2>2
<1>5. m <= l
  BY <1>1
<1>6. QED
  BY <1>4, <1>5 DEF EndOf, m, l

(* Pushing a failure onto both keeps the one the end of the other. *)
LEMMA EndPushed ==
  ASSUME NEW w \in Seq(Nat), NEW s \in Seq(Nat), NEW t \in Nat, EndOf(w, s)
  PROVE  EndOf(Append(w, t), Append(s, t))
<1> DEFINE m == Len(w)
           n == Len(s)
<1>1. m \in Nat /\ n \in Nat /\ m <= n /\ \A i \in 1 .. m : w[i] = s[(n - m) + i]
  BY DEF EndOf
<1>2. /\ Len(Append(w, t)) = m + 1 /\ Len(Append(s, t)) = n + 1
      /\ \A i \in 1 .. m : Append(w, t)[i] = w[i]
      /\ \A i \in 1 .. n : Append(s, t)[i] = s[i]
      /\ Append(w, t)[m + 1] = t /\ Append(s, t)[n + 1] = t
  OBVIOUS
<1> HIDE DEF m, n
<1>3. (n + 1) - (m + 1) = n - m /\ m + 1 <= n + 1
  BY <1>1
<1>4. ASSUME NEW i \in 1 .. (m + 1) PROVE Append(w, t)[i] = Append(s, t)[(n - m) + i]
  <2>1. CASE i = m + 1
    <3>1. (n - m) + (m + 1) = n + 1
      BY <1>1
    <3>2. QED
      BY <1>2, <2>1, <3>1
  <2>2. CASE i # m + 1
    <3>1. i \in 1 .. m /\ (n - m) + i \in 1 .. n
      BY <1>1, <2>2
    <3>2. QED
      BY <1>1, <1>2, <3>1
  <2>3. QED
    BY <2>1, <2>2
<1>5. QED
  BY <1>2, <1>3, <1>4 DEF EndOf

(* Expiring k entries from the front and trimming to b leaves the end of   *)
(* the window, and only entries that lie within the interval.              *)
LEMMA ExpiredAndTrimmed ==
  ASSUME Typed, NEW p \in Seq(Nat), Ordered(p, now), NEW b \in Nat \ {0},
         NEW k \in Nat, k < Len(p), Expired(p, k)
  PROVE  LET w == TrimTo(SubSeq(p, k + 1, Len(p)), b)
         IN /\ w \in Seq(Nat)
            /\ EndOf(w, p)
            /\ Len(w) = Smaller(Len(p) - k, b)
            /\ \A i \in 1 .. Len(w) : now - w[i] < interval
<1> DEFINE s == SubSeq(p, k + 1, Len(p))
           w == TrimTo(s, b)
<1>1. now \in Nat /\ interval \in Nat /\ Len(p) \in Nat
  BY DEF Typed
<1>2. s \in Seq(Nat) /\ Len(s) = Len(p) - k /\ EndOf(s, p)
  BY <1>1, Behind
<1> HIDE DEF s
<1>3. w \in Seq(Nat) /\ EndOf(w, s) /\ Len(w) = Smaller(Len(s), b)
  BY <1>2, TrimmedIsEnd
<1> HIDE DEF w
<1>4. EndOf(w, p)
  BY <1>2, <1>3, EndOfEnd
<1>5. now - p[k + 1] < interval
  BY <1>1 DEF Expired
<1>6. Len(w) \in Nat /\ Len(w) <= Len(p) - k
  <2>1. Len(w) \in Nat
    BY <1>3
  <2>2. QED
    BY <1>1, <1>2, <1>3, <2>1 DEF EndOf
<1>7. ASSUME NEW i \in 1 .. Len(w) PROVE now - w[i] < interval
  <2> DEFINE m == (Len(p) - Len(w)) + i
  <2>1. k + 1 \in 1 .. Len(p) /\ m \in 1 .. Len(p) /\ k + 1 <= m
    BY <1>1, <1>6
  <2>2. w[i] = p[m]
    BY <1>4 DEF EndOf
  <2> HIDE DEF m
  <2>3. p[k + 1] <= p[m] /\ p[k + 1] \in Nat /\ p[m] \in Nat
    BY <2>1 DEF Ordered
  <2>4. QED
    BY <1>1, <1>5, <2>2, <2>3, SMTT(60)
<1>8. QED
  BY <1>2, <1>3, <1>4, <1>7 DEF w, s

(* What a failure does to the record, to the window as its summary, and    *)
(* what its verdict says of the failures within the interval.              *)
LEMMA FailureIsCounted ==
  ASSUME Inv, Recorded, Summary, on_failure
  PROVE  Recorded' /\ Summary' /\ TripExact'
<1> DEFINE stable == HasBeenStable
           kept   == IF stable THEN <<>> ELSE window
           old    == IF stable THEN <<>> ELSE failures
           pushed == Append(kept, now)
<1>1. Typed /\ Ordered(window, now) /\ Len(window) <= burst /\ Ordered(failures, now)
  BY OrderedIsWindowOrdered DEF Inv, Typed, WindowBounded, Recorded
<1>2. /\ kept \in Seq(Nat) /\ old \in Seq(Nat)
      /\ Ordered(kept, now) /\ Ordered(old, now)
      /\ Embeds(kept, old) /\ Len(kept) <= burst
  <2>1. CASE stable
    BY <1>1, <2>1, EmptyRecord DEF Typed
  <2>2. CASE ~stable
    BY <1>1, <2>2 DEF Recorded, Typed
  <2>3. QED
    BY <2>1, <2>2
<1>3. /\ now' = now /\ burst' = burst /\ interval' = interval /\ base' = base
      /\ failures' = Append(old, now)
      /\ reloaded' = (reloaded /\ ~stable)
      /\ consecutive' = (IF stable THEN 0 ELSE consecutive) + 1
  BY DEF on_failure, policy
<1>4. interval # 0 /\ ~reloaded' =>
        /\ EndOf(kept, old)
        /\ \A i \in 1 .. (Len(old) - Len(kept)) :
             now - old[i] >= interval \/ Len(kept) = burst
  <2>1. CASE stable
    BY <2>1 DEF EndOf
  <2>2. CASE ~stable
    BY <1>3, <2>2 DEF Summary
  <2>3. QED
    BY <2>1, <2>2
<1>5. \/ interval = 0 /\ window' = kept /\ \E dl : verdict' = Retry(dl)
      \/ /\ interval # 0
         /\ \E k \in 0 .. Len(pushed) :
              /\ Expired(pushed, k)
              /\ window' = TrimTo(SubSeq(pushed, k + 1, Len(pushed)), burst)
         /\ \/ Len(window') >= burst /\ verdict' = Trip
            \/ ~(Len(window') >= burst) /\ \E dl : verdict' = Retry(dl)
  BY DEF on_failure, Push, Tripped
<1>6. base' \in Nat /\ consecutive' \in Nat /\ reloaded' \in BOOLEAN
  BY <1>3 DEF Recorded
<1> HIDE DEF stable, kept, old
<1>7. /\ pushed \in Seq(Nat) /\ failures' \in Seq(Nat)
      /\ Ordered(pushed, now) /\ Ordered(failures', now)
      /\ Len(pushed) = Len(kept) + 1 /\ Len(failures') = Len(old) + 1
      /\ pushed[Len(kept) + 1] = now /\ failures'[Len(old) + 1] = now
  <2>1. now \in Nat
    BY <1>1 DEF Typed
  <2>2. /\ Append(kept, now) \in Seq(Nat) /\ Len(Append(kept, now)) = Len(kept) + 1
        /\ Append(kept, now)[Len(kept) + 1] = now /\ Ordered(Append(kept, now), now)
    BY <1>2, <2>1, PushedIsOrdered DEF Push
  <2>3. /\ Append(old, now) \in Seq(Nat) /\ Len(Append(old, now)) = Len(old) + 1
        /\ Append(old, now)[Len(old) + 1] = now /\ Ordered(Append(old, now), now)
    BY <1>2, <2>1, PushedIsOrdered DEF Push
  <2>4. QED
    BY <1>3, <2>2, <2>3
<1>8. Embeds(pushed, failures') /\ Embeds(kept, failures')
  <2>1. now \in Nat
    BY <1>1 DEF Typed
  <2>2. QED
    BY <1>2, <1>3, <2>1, EmbedsPushed
<1>9. Recent' = {i \in 1 .. Len(failures') : now - failures'[i] < interval}
  BY <1>3, <1>7 DEF Recent
<1>10. ASSUME Embeds(window', failures') PROVE Recorded'
  BY <1>3, <1>6, <1>7, <1>10 DEF Recorded, Ordered
<1>11. CASE interval = 0 /\ window' = kept /\ \E dl : verdict' = Retry(dl)
  BY <1>3, <1>8, <1>10, <1>11 DEF Summary, TripExact, Retry
<1>12. CASE /\ interval # 0
            /\ \E k \in 0 .. Len(pushed) :
                 /\ Expired(pushed, k)
                 /\ window' = TrimTo(SubSeq(pushed, k + 1, Len(pushed)), burst)
            /\ \/ Len(window') >= burst /\ verdict' = Trip
               \/ ~(Len(window') >= burst) /\ \E dl : verdict' = Retry(dl)
  <2> HIDE DEF pushed
  <2>1. PICK k \in 0 .. Len(pushed) :
               /\ Expired(pushed, k)
               /\ window' = TrimTo(SubSeq(pushed, k + 1, Len(pushed)), burst)
    BY <1>12
  <2>2. /\ k \in Nat /\ k < Len(pushed)
    <3>1. k # Len(pushed)
      BY <1>1, <1>2, <1>7, <1>12, <2>1 DEF Expired, Typed
    <3>2. QED
      BY <1>7, <2>1, <3>1
  <2>3. burst \in Nat \ {0} /\ now \in Nat /\ interval \in Nat
    BY <1>1 DEF Typed
  <2>4. /\ window' \in Seq(Nat)
        /\ EndOf(window', pushed)
        /\ Len(window') = Smaller(Len(pushed) - k, burst)
        /\ \A i \in 1 .. Len(window') : now - window'[i] < interval
    BY <1>1, <1>7, <2>1, <2>2, <2>3, ExpiredAndTrimmed
  <2>5. Embeds(window', failures')
    BY <1>7, <1>8, <2>4, EmbedsEnd
  <2>6. Cardinality(Recent') >= Len(window')
    BY <1>7, <1>9, <2>3, <2>4, <2>5, EmbedsCounts, ZenonT(60)
  <2>7. ASSUME ~reloaded'
        PROVE  /\ EndOf(window', failures')
               /\ \A i \in 1 .. (Len(failures') - Len(window')) :
                    now - failures'[i] >= interval \/ Len(window') = burst
    <3>1. EndOf(pushed, failures')
      <4>1. EndOf(kept, old) /\ now \in Nat
        BY <1>4, <1>12, <2>3, <2>7
      <4>2. EndOf(Append(kept, now), Append(old, now))
        BY <1>2, <4>1, EndPushed
      <4>3. QED
        BY <1>3, <4>2 DEF pushed
    <3>2. EndOf(window', failures')
      BY <1>7, <2>4, <3>1, EndOfEnd
    <3>3. SUFFICES ASSUME NEW i \in 1 .. (Len(failures') - Len(window')),
                          Len(window') # burst
                   PROVE  now - failures'[i] >= interval
      BY <3>2
    <3> DEFINE o == Len(old)
               n == Len(kept)
               m == Len(window')
    <3>4. /\ o \in Nat /\ n \in Nat /\ m \in Nat /\ n <= o /\ n <= burst
          /\ Len(failures') = o + 1 /\ Len(pushed) = n + 1
          /\ m = (n + 1) - k /\ m < burst
      <4>1. o \in Nat /\ n \in Nat /\ m \in Nat /\ n <= o
        BY <1>2, <1>4, <1>12, <2>4, <2>7 DEF EndOf
      <4>2. Len(failures') = o + 1 /\ Len(pushed) = n + 1
        BY <1>7
      <4>3. m = (n + 1) - k /\ m < burst
        BY <2>2, <2>3, <2>4, <3>3, <4>1, <4>2 DEF Smaller
      <4>4. QED
        BY <1>2, <4>1, <4>2, <4>3
    <3>5. \A j \in 1 .. (n + 1) : pushed[j] = failures'[(o - n) + j]
      <4>1. (o + 1) - (n + 1) = o - n
        BY <3>4
      <4>2. QED
        BY <3>1, <3>4, <4>1 DEF EndOf
    <3>6. \A j \in 1 .. k : now - pushed[j] >= interval
      BY <2>1 DEF Expired
    <3>7. \A j \in 1 .. o : failures'[j] = old[j]
      BY <1>2, <1>3, <2>3
    <3>8. \A j \in 1 .. (o - n) : now - old[j] >= interval \/ n = burst
      BY <1>4, <1>12, <2>7
    <3> HIDE DEF o, n, m
    <3>9. i \in 1 .. ((o - n) + k)
      <4>1. Len(failures') - Len(window') = (o - n) + k
        BY <2>2, <3>4 DEF m
      <4>2. QED
        BY <4>1
    <3>10. CASE i > o - n
      <4> DEFINE j == i - (o - n)
      <4>1. j \in 1 .. k /\ j \in 1 .. (n + 1) /\ (o - n) + j = i
        BY <2>2, <3>4, <3>9, <3>10
      <4>2. pushed[j] = failures'[i]
        BY <3>5, <4>1
      <4> HIDE DEF j
      <4>3. QED
        BY <3>6, <4>1, <4>2
    <3>11. CASE i <= o - n /\ n # burst
      <4>1. i \in 1 .. o /\ i \in 1 .. (o - n)
        BY <3>4, <3>9, <3>11
      <4>2. QED
        BY <3>7, <3>8, <3>11, <4>1
    <3>12. CASE i <= o - n /\ n = burst
      <4>1. 1 \in 1 .. k /\ 1 \in 1 .. (n + 1)
        BY <2>2, <2>3, <3>4, <3>12
      <4>2. now - failures'[(o - n) + 1] >= interval
        BY <3>5, <3>6, <4>1
      <4> DEFINE q == (o - n) + 1
      <4>3. i \in 1 .. (o + 1) /\ q \in 1 .. (o + 1) /\ i <= q
        BY <3>4, <3>9, <3>12
      <4> HIDE DEF q
      <4>4. failures'[i] <= failures'[q] /\ failures'[i] \in Nat /\ failures'[q] \in Nat
        <5>1. i \in 1 .. Len(failures') /\ q \in 1 .. Len(failures')
          BY <3>4, <4>3
        <5>2. failures'[i] <= failures'[q]
          BY <1>7, <4>3, <5>1 DEF Ordered
        <5>3. QED
          BY <1>7, <5>1, <5>2
      <4>5. QED
        BY <2>3, <4>2, <4>4 DEF q
    <3>13. QED
      BY <3>4, <3>9, <3>10, <3>11, <3>12
  <2>8. Summary'
    BY <1>3, <2>7 DEF Summary
  <2>9. ASSUME ~reloaded', ~(Len(window') >= burst)
        PROVE  Cardinality(Recent') < burst
    <3>1. Len(window') \in Nat /\ Len(window') # burst
      BY <2>3, <2>4, <2>9
    <3>2. /\ Len(window') <= Len(failures')
          /\ \A i \in 1 .. (Len(failures') - Len(window')) : now - failures'[i] >= interval
      BY <2>7, <2>9, <3>1 DEF EndOf
    <3>3. Cardinality(Recent') <= Len(window')
      BY <1>7, <1>9, <2>3, <2>4, <3>2, EndCounts
    <3>4. Cardinality(Recent') \in Nat
      <4>1. 1 \in Int /\ Len(failures') \in Int
        BY <1>7
      <4>2. IsFiniteSet(1 .. Len(failures'))
        BY <4>1, FS_Interval
      <4>3. IsFiniteSet(Recent')
        BY <1>9, <4>2, FS_Subset
      <4>4. QED
        BY <4>3, FS_CardinalityType
    <3>5. QED
      BY <2>3, <2>9, <3>1, <3>3, <3>4
  <2>10. TripExact'
    <3>1. CASE Len(window') >= burst /\ verdict' = Trip
      <4>1. Cardinality(Recent') >= burst
        <5>1. Len(window') \in Nat /\ Cardinality(Recent') \in Nat
          <6>1. 1 \in Int /\ Len(failures') \in Int
            BY <1>7
          <6>2. IsFiniteSet(1 .. Len(failures'))
            BY <6>1, FS_Interval
          <6>3. IsFiniteSet(Recent')
            BY <1>9, <6>2, FS_Subset
          <6>4. QED
            BY <2>4, <6>3, FS_CardinalityType
        <5>2. QED
          BY <2>3, <2>6, <3>1, <5>1
      <4>2. QED
        BY <1>3, <1>12, <3>1, <4>1 DEF TripExact, Trip
    <3>2. CASE ~(Len(window') >= burst) /\ \E dl : verdict' = Retry(dl)
      BY <1>3, <1>12, <2>9, <3>2 DEF TripExact, Retry
    <3>3. QED
      BY <1>12, <3>1, <3>2
  <2>11. QED
    BY <1>10, <2>5, <2>8, <2>10
<1>13. QED
  BY <1>5, <1>11, <1>12

(* A delay is the base, doubled at most five times, and less than a        *)
(* quarter of the base more, each as far as the arithmetic goes.           *)
LEMMA DelayInBounds ==
  ASSUME base \in Nat, NEW n \in Nat \ {0}, NEW j \in JitterRange(base)
  PROVE  /\ NextDelay(n, j) >= Saturate(base)
         /\ NextDelay(n, j) <= Saturate(32 * base + base \div 4)
<1> DEFINE e == Smaller(n - 1, 5)
<1>1. MaxU64 \in Nat
  BY BackoffAssumption
<1>2. base \div 4 \in Nat /\ j \in Nat /\ j <= base \div 4
  <2>1. base \div 4 \in Nat
    OBVIOUS
  <2>2. CASE base \div 4 = 0
    BY <2>1, <2>2 DEF JitterRange
  <2>3. CASE base \div 4 # 0
    <3>1. j \in 0 .. (base \div 4 - 1)
      BY <2>3 DEF JitterRange
    <3>2. QED
      BY <2>1, <2>3, <3>1
  <2>4. QED
    BY <2>2, <2>3
<1>3. e \in 0 .. 5
  BY DEF Smaller
<1>4. 2^5 = 32
  OBVIOUS
<1>5. \E p \in {1, 2, 4, 8, 16, 32} : 2^e = p
  <2>1. 2^0 = 1 /\ 2^1 = 2 /\ 2^2 = 4 /\ 2^3 = 8 /\ 2^4 = 16
    OBVIOUS
  <2> HIDE DEF e
  <2>2. e = 0 \/ e = 1 \/ e = 2 \/ e = 3 \/ e = 4 \/ e = 5
    BY <1>3
  <2>3. QED
    BY <1>4, <2>1, <2>2
<1>6. PICK p \in {1, 2, 4, 8, 16, 32} : 2^e = p
  BY <1>5
<1> DEFINE scaled == Smaller(Saturate(base * p), Saturate(base * 32))
<1>7. NextDelay(n, j) = Saturate(scaled + j)
  <2>1. Smaller(n - 1, BACKOFF_EXPONENT_CAP) = e
    BY DEF BACKOFF_EXPONENT_CAP
  <2> HIDE DEF e
  <2>2. QED
    BY <1>4, <1>6, <2>1 DEF NextDelay, BACKOFF_EXPONENT_CAP
<1> DEFINE prod == base * p
<1>8. prod \in Nat /\ prod >= base /\ prod <= 32 * base /\ base * 32 = 32 * base
  <2>1. CASE p = 1
    BY <2>1
  <2>2. CASE p = 2
    BY <2>2
  <2>3. CASE p = 4
    BY <2>3
  <2>4. CASE p = 8
    BY <2>4
  <2>5. CASE p = 16
    BY <2>5
  <2>6. CASE p = 32
    BY <2>6
  <2>7. QED
    BY <2>1, <2>2, <2>3, <2>4, <2>5, <2>6
<1>9. scaled = Smaller(Saturate(prod), Saturate(32 * base))
  BY <1>8
<1> HIDE DEF scaled, prod
<1>10. scaled = Saturate(prod)
  BY <1>1, <1>8, <1>9 DEF Smaller, Saturate
<1>11. /\ Saturate(prod) \in Nat /\ Saturate(prod) >= Saturate(base)
       /\ Saturate(prod) <= 32 * base /\ Saturate(prod) <= MaxU64
  BY <1>1, <1>8 DEF Saturate
<1> DEFINE x == Saturate(prod)
           q == base \div 4
<1>12. x \in Nat /\ q \in Nat /\ j <= q /\ x >= Saturate(base) /\ x <= 32 * base /\ x <= MaxU64
  BY <1>2, <1>11
<1>13. NextDelay(n, j) = Saturate(x + j)
  BY <1>7, <1>10
<1> HIDE DEF x, q
<1>14. Saturate(x + j) >= Saturate(base)
  BY <1>1, <1>2, <1>12 DEF Saturate
<1>15. Saturate(x + j) <= Saturate(32 * base + q)
  BY <1>1, <1>2, <1>12 DEF Saturate
<1>16. QED
  BY <1>13, <1>14, <1>15 DEF q

(* The window, the record and the verdicts, together. *)
Exact == Inv /\ Recorded /\ Summary /\ VerdictIsExact

(* The record and the history are empty together. *)
LEMMA ExactInit == BackoffInit => Exact
<1> SUFFICES ASSUME BackoffInit PROVE Exact
  OBVIOUS
<1>1. base \in Nat
  BY BackoffAssumption DEF BackoffInit
<1>2. Recorded
  BY <1>1, EmptyRecord DEF BackoffInit, Recorded
<1>3. Summary
  BY EmptyRecord DEF BackoffInit, Summary
<1>4. VerdictIsExact
  BY DEF BackoffInit, VerdictIsExact, TripExact, DelayBounded, NoVerdict
<1>5. QED
  BY <1>2, <1>3, <1>4, InitInv DEF Exact

(* Every call keeps the record a faithful part of the history. *)
LEMMA ExactNext == Exact /\ [BackoffNext]_backoffVars => Exact'
<1> SUFFICES ASSUME Exact, [BackoffNext]_backoffVars PROVE Exact'
  OBVIOUS
<1>1. Inv' /\ Inv /\ Recorded /\ Summary /\ VerdictIsExact
  BY NextInv DEF Exact
<1>2. ASSUME verdict' = NoVerdict PROVE VerdictIsExact'
  BY <1>2 DEF VerdictIsExact, TripExact, DelayBounded, NoVerdict
<1>3. CASE Tick
  <2>1. /\ now' = now + 1 /\ verdict' = NoVerdict
        /\ UNCHANGED <<base, burst, interval, consecutive, window, failures, reloaded>>
    BY <1>3 DEF Tick, policy
  <2>2. now \in Nat /\ interval \in Nat /\ window \in Seq(Nat)
    BY <1>1 DEF Inv, Typed
  <2>3. \A i \in 1 .. Len(failures) : failures[i] \in Nat /\ failures[i] <= now + 1
    BY <1>1, <2>2 DEF Recorded, Ordered
  <2>4. Recorded'
    BY <1>1, <2>1, <2>2, <2>3 DEF Recorded, Ordered, Embeds
  <2>5. Summary'
    <3> SUFFICES ASSUME interval # 0, ~reloaded PROVE Summary'
      BY <2>1 DEF Summary
    <3>1. /\ EndOf(window, failures)
          /\ \A i \in 1 .. (Len(failures) - Len(window)) :
               now - failures[i] >= interval \/ Len(window) = burst
      BY <1>1 DEF Summary
    <3>2. ASSUME NEW i \in 1 .. (Len(failures) - Len(window)),
                 now - failures[i] >= interval
          PROVE  (now + 1) - failures[i] >= interval
      <4>1. i \in 1 .. Len(failures)
        BY <1>1, <2>2 DEF Recorded
      <4>2. failures[i] \in Nat
        BY <2>3, <4>1
      <4>3. QED
        BY <2>2, <3>2, <4>2
    <3>3. QED
      BY <2>1, <3>1, <3>2 DEF Summary, EndOf
  <2>6. QED
    BY <1>1, <1>2, <2>1, <2>4, <2>5 DEF Exact
<1>4. CASE on_active
  <2>1. /\ verdict' = NoVerdict
        /\ UNCHANGED <<now, base, burst, interval, consecutive, window, failures, reloaded>>
    BY <1>4 DEF on_active, policy
  <2>2. Recorded' /\ Summary'
    BY <1>1, <2>1 DEF Recorded, Summary, Ordered, Embeds, EndOf
  <2>3. QED
    BY <1>1, <1>2, <2>1, <2>2 DEF Exact
<1>5. CASE on_failure
  <2>1. Recorded' /\ Summary' /\ TripExact'
    BY <1>1, <1>5, FailureIsCounted
  <2>2. DelayBounded'
    <3>1. /\ base' = base /\ consecutive \in Nat /\ base \in Nat
      BY <1>1, <1>5 DEF on_failure, policy, Recorded
    <3> DEFINE n == (IF HasBeenStable THEN 0 ELSE consecutive) + 1
    <3>2. n \in Nat \ {0}
      BY <3>1
    <3>3. verdict' = Trip \/ \E j \in JitterRange(base) : verdict' = Retry(NextDelay(n, j))
      BY <1>5 DEF on_failure
    <3> HIDE DEF n
    <3>4. CASE verdict' = Trip
      BY <3>4 DEF DelayBounded, Trip
    <3>5. CASE \E j \in JitterRange(base) : verdict' = Retry(NextDelay(n, j))
      <4>1. PICK j \in JitterRange(base) : verdict' = Retry(NextDelay(n, j))
        BY <3>5
      <4>2. /\ NextDelay(n, j) >= Saturate(base)
            /\ NextDelay(n, j) <= Saturate(32 * base + base \div 4)
        BY <3>1, <3>2, DelayInBounds
      <4>3. verdict'.delay = NextDelay(n, j)
        BY <4>1 DEF Retry
      <4>4. Saturate(base)' = Saturate(base)
        BY <3>1 DEF Saturate
      <4>5. Saturate(32 * base + base \div 4)' = Saturate(32 * base + base \div 4)
        BY <3>1 DEF Saturate
      <4>6. QED
        BY <4>2, <4>3, <4>4, <4>5 DEF DelayBounded
    <3>6. QED
      BY <3>3, <3>4, <3>5
  <2>3. QED
    BY <1>1, <2>1, <2>2 DEF Exact, VerdictIsExact
<1>6. ASSUME NEW b \in Bases, NEW r \in Bursts, NEW i \in Intervals, reconfigure(b, r, i)
      PROVE  Exact'
  <2>1. /\ base' = b /\ reloaded' = TRUE /\ verdict' = NoVerdict
        /\ window' = TrimTo(window, AtLeastOne(r))
        /\ UNCHANGED <<now, consecutive, failures>>
    BY <1>6 DEF reconfigure
  <2>2. b \in Nat /\ AtLeastOne(r) \in Nat \ {0} /\ window \in Seq(Nat)
    BY <1>1, BackoffAssumption DEF AtLeastOne, Inv, Typed
  <2>3. window' \in Seq(Nat) /\ EndOf(window', window)
    BY <2>1, <2>2, TrimmedIsEnd
  <2>4. Embeds(window', failures)
    BY <1>1, <2>2, <2>3, EmbedsEnd DEF Recorded
  <2>5. Recorded'
    BY <1>1, <2>1, <2>2, <2>4 DEF Recorded, Ordered
  <2>6. Summary'
    BY <2>1 DEF Summary
  <2>7. QED
    BY <1>1, <1>2, <2>1, <2>5, <2>6 DEF Exact
<1>7. CASE reset
  <2>1. /\ consecutive' = 0 /\ window' = <<>> /\ failures' = <<>> /\ reloaded' = FALSE
        /\ verdict' = NoVerdict /\ UNCHANGED <<now, base, burst, interval>>
    BY <1>7 DEF reset, policy
  <2>2. Recorded'
    BY <1>1, <2>1, EmptyRecord DEF Recorded
  <2>3. Summary'
    BY <2>1, EmptyRecord DEF Summary
  <2>4. QED
    BY <1>1, <1>2, <2>1, <2>2, <2>3 DEF Exact
<1>8. CASE UNCHANGED backoffVars
  <2>1. UNCHANGED <<now, base, burst, interval, consecutive, window, verdict, failures, reloaded>>
    BY <1>8 DEF backoffVars
  <2>2. Recorded' /\ Summary'
    BY <1>1, <2>1 DEF Recorded, Summary, Ordered, Embeds, EndOf
  <2>3. VerdictIsExact'
    BY <1>1, <2>1 DEF VerdictIsExact, TripExact, DelayBounded, Recent, Saturate
  <2>4. QED
    BY <1>1, <2>2, <2>3 DEF Exact
<1>9. QED
  BY <1>3, <1>4, <1>5, <1>6, <1>7, <1>8 DEF BackoffNext

(* The breaker trips when at least StartLimitBurst failures lie within the *)
(* last StartLimitIntervalSec and, while the policy is the one the record  *)
(* was kept under, only then; every other verdict of on_failure is a delay *)
(* between RestartSec and 32 times it plus the jitter, also where the      *)
(* multiplication saturates.                                               *)
THEOREM VerdictAlwaysExact == BackoffSpec => []VerdictIsExact
<1>1. Exact => VerdictIsExact
  BY DEF Exact
<1>2. QED
  BY <1>1, ExactInit, ExactNext, PTL DEF BackoffSpec
==============================================================================

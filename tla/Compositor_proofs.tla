--------------------------- MODULE Compositor_proofs ---------------------------
(***************************************************************************)
(* Theorems about Compositor, for any number of windows, workspaces and    *)
(* places.  What Kept makes of a list is proved by induction over sets of  *)
(* numbers; the rest sees the window list only through that.               *)
(***************************************************************************)
EXTENDS Compositor, FiniteSetTheorems, WellFoundedInduction, TLAPS

(***************************************************************************)
(* Natural numbers.                                                        *)
(***************************************************************************)

(* A set of natural numbers has a least element: of the intervals from 0   *)
(* to its elements one has no other as a proper subset.                    *)
LEMMA LeastNumber ==
    ASSUME NEW T \in SUBSET Nat, T # {}
    PROVE  \E m \in T : \A k \in T : m <= k
  <1> DEFINE Initial == {0 .. n : n \in T}
  <1>1. Initial # {} /\ Initial \subseteq FiniteSubsetsOf(Nat)
    <2>1. \A n \in T : IsFiniteSet(0 .. n) /\ 0 .. n \subseteq Nat
      BY FS_Interval
    <2>2. QED
      BY <2>1 DEF FiniteSubsetsOf
  <1>2. \E x \in Initial : \A y \in Initial : <<y, x>> \notin StrictSubsetOrdering(Nat)
    BY <1>1, FS_StrictSubsetOrderingWellFounded, WFMin
  <1>3. PICK m \in T : \A k \in T : <<0 .. k, 0 .. m>> \notin StrictSubsetOrdering(Nat)
    BY <1>2
  <1>4. ASSUME NEW k \in T, k < m
        PROVE  FALSE
    <2>1. 0 .. k \subseteq 0 .. m /\ m \in 0 .. m /\ m \notin 0 .. k
      BY <1>4
    <2>2. 0 .. k # 0 .. m
      BY <2>1
    <2>3. <<0 .. k, 0 .. m>> \in StrictSubsetOrdering(Nat)
      BY <2>1, <2>2 DEF StrictSubsetOrdering
    <2>4. QED
      BY <1>3, <2>3
  <1>5. QED
    BY <1>4

(* Induction up to n, over the set of the numbers that are good.           *)
LEMMA BoundedInduction ==
    ASSUME NEW n \in Nat, NEW Good \in SUBSET (0 .. n), 0 \in Good,
           \A k \in 0 .. n : k \in Good /\ k < n => k + 1 \in Good
    PROVE  Good = 0 .. n
  <1> SUFFICES ASSUME Good # 0 .. n PROVE FALSE
    OBVIOUS
  <1> DEFINE Bad == (0 .. n) \ Good
  <1>1. Bad # {} /\ Bad \in SUBSET Nat
    <2>1. 0 .. n \subseteq Nat
      OBVIOUS
    <2>2. QED
      BY <2>1
  <1>2. PICK m \in Bad : \A k \in Bad : m <= k
    BY <1>1, LeastNumber
  <1>3. m \in Nat \ {0} /\ m - 1 \in 0 .. n /\ m - 1 < m /\ m - 1 < n /\ (m - 1) + 1 = m
    BY <1>2
  <1>4. m - 1 \in Good
    BY <1>2, <1>3
  <1>5. QED
    BY <1>2, <1>3, <1>4
-----------------------------------------------------------------------------
(***************************************************************************)
(* What is kept of a list.                                                 *)
(***************************************************************************)

Members(s) == {s[i] : i \in DOMAIN s}

(* One step of the filter, and a function that filters the first n.        *)
Filtered(s, T, f, k) ==
    IF k = 0 THEN <<>> ELSE IF s[k] \in T THEN Append(f[k - 1], s[k]) ELSE f[k - 1]

Filters(s, T, f, n) == f = [k \in 0 .. n |-> Filtered(s, T, f, k)]

LEMMA FilterExists ==
    ASSUME NEW s, NEW T, NEW n \in Nat
    PROVE  \E f : Filters(s, T, f, n)
  <1> DEFINE Good == {k \in 0 .. n : \E f : Filters(s, T, f, k)}
  <1>1. 0 \in Good
    <2>1. Filters(s, T, [k \in 0 .. 0 |-> <<>>], 0)
      BY DEF Filters, Filtered
    <2>2. QED
      BY <2>1
  <1>2. ASSUME NEW k \in 0 .. n, k \in Good, k < n
        PROVE  k + 1 \in Good
    <2>1. PICK f : Filters(s, T, f, k)
      BY <1>2
    <2> DEFINE g == [i \in 0 .. k + 1 |->
                        IF i <= k THEN f[i]
                        ELSE IF s[i] \in T THEN Append(f[k], s[i]) ELSE f[k]]
    <2>2. /\ \A i \in 0 .. k + 1 : i = k + 1 \/ i \in 0 .. k
          /\ \A i \in 0 .. k : i # 0 => i - 1 \in 0 .. k
          /\ (k + 1) - 1 = k /\ k + 1 # 0 /\ k \in 0 .. k
      OBVIOUS
    <2>3. \A i \in 0 .. k : f[i] = Filtered(s, T, f, i)
      BY <2>1 DEF Filters
    <2>4. /\ \A i \in 0 .. k : g[i] = f[i]
          /\ g[k + 1] = IF s[k + 1] \in T THEN Append(f[k], s[k + 1]) ELSE f[k]
          /\ g = [i \in 0 .. k + 1 |-> g[i]]
      OBVIOUS
    <2> HIDE DEF g
    <2>5. \A i \in 0 .. k + 1 : g[i] = Filtered(s, T, g, i)
      BY <2>2, <2>3, <2>4 DEF Filtered
    <2>6. Filters(s, T, g, k + 1)
      BY <2>4, <2>5 DEF Filters
    <2>7. QED
      BY <1>2, <2>6
  <1> HIDE DEF Good
  <1>3. Good = 0 .. n
    BY <1>1, <1>2, BoundedInduction DEF Good
  <1>4. QED
    BY <1>3 DEF Good

(* What the filter has made of the first k elements of a list.             *)
Prefix(S, s, T, k, r) ==
    /\ r \in Seq(S)
    /\ \A i \in DOMAIN r : \E p \in 1 .. k : r[i] = s[p] /\ s[p] \in T
    /\ \A p \in 1 .. k : s[p] \in T => \E i \in DOMAIN r : r[i] = s[p]
    /\ \A i, j \in DOMAIN r : i < j =>
          \E p, q \in 1 .. k : p < q /\ r[i] = s[p] /\ r[j] = s[q]

LEMMA PrefixGrows ==
    ASSUME NEW S, NEW s \in Seq(S), NEW T, NEW k \in Nat, k < Len(s),
           NEW r, Prefix(S, s, T, k, r), s[k + 1] \in T
    PROVE  Prefix(S, s, T, k + 1, Append(r, s[k + 1]))
  <1> DEFINE t == Append(r, s[k + 1])
  <1>1. r \in Seq(S) /\ s[k + 1] \in S
    BY DEF Prefix
  <1>2. /\ t \in Seq(S) /\ Len(r) \in Nat
        /\ DOMAIN r = 1 .. Len(r) /\ DOMAIN t = 1 .. Len(r) + 1
        /\ \A i \in 1 .. Len(r) : t[i] = r[i]
        /\ t[Len(r) + 1] = s[k + 1]
    BY <1>1
  <1> HIDE DEF t
  <1>3. /\ \A i \in DOMAIN t : i \in DOMAIN r \/ i = Len(r) + 1
        /\ DOMAIN r \subseteq DOMAIN t /\ Len(r) + 1 \in DOMAIN t
        /\ \A i, j \in DOMAIN t : i < j => i \in DOMAIN r
        /\ \A i \in DOMAIN r : t[i] = r[i]
    BY <1>2
  <1>4. /\ \A p \in 1 .. k : p \in 1 .. k + 1 /\ p < k + 1
        /\ \A p \in 1 .. k + 1 : p \in 1 .. k \/ p = k + 1
        /\ k + 1 \in 1 .. k + 1
    OBVIOUS
  <1>5. \A i \in DOMAIN t : \E p \in 1 .. k + 1 : t[i] = s[p] /\ s[p] \in T
    <2>1. SUFFICES ASSUME NEW i \in DOMAIN t
                   PROVE  \E p \in 1 .. k + 1 : t[i] = s[p] /\ s[p] \in T
      OBVIOUS
    <2>2. CASE i \in DOMAIN r
      <3>1. PICK p \in 1 .. k : r[i] = s[p] /\ s[p] \in T
        BY <2>2 DEF Prefix
      <3>2. QED
        BY <1>3, <1>4, <2>2, <3>1
    <2>3. CASE i = Len(r) + 1
      BY <1>2, <1>4, <2>3
    <2>4. QED
      BY <1>3, <2>2, <2>3
  <1>6. \A p \in 1 .. k + 1 : s[p] \in T => \E i \in DOMAIN t : t[i] = s[p]
    <2>1. SUFFICES ASSUME NEW p \in 1 .. k + 1, s[p] \in T
                   PROVE  \E i \in DOMAIN t : t[i] = s[p]
      OBVIOUS
    <2>2. CASE p \in 1 .. k
      <3>1. PICK i \in DOMAIN r : r[i] = s[p]
        BY <2>1, <2>2 DEF Prefix
      <3>2. QED
        BY <1>3, <3>1
    <2>3. CASE p = k + 1
      BY <1>2, <1>3, <2>3
    <2>4. QED
      BY <1>4, <2>2, <2>3
  <1>7. ASSUME NEW i \in DOMAIN t, NEW j \in DOMAIN t, i < j
        PROVE  \E p, q \in 1 .. k + 1 : p < q /\ t[i] = s[p] /\ t[j] = s[q]
    <2>1. i \in DOMAIN r /\ t[i] = r[i]
      BY <1>3, <1>7
    <2>2. CASE j \in DOMAIN r
      <3>1. PICK p \in 1 .. k, q \in 1 .. k : p < q /\ r[i] = s[p] /\ r[j] = s[q]
        BY <1>7, <2>1, <2>2 DEF Prefix
      <3>2. QED
        BY <1>3, <1>4, <2>1, <2>2, <3>1
    <2>3. CASE j = Len(r) + 1
      <3>1. PICK p \in 1 .. k : r[i] = s[p]
        BY <2>1 DEF Prefix
      <3>2. p \in 1 .. k + 1 /\ k + 1 \in 1 .. k + 1 /\ p < k + 1 /\ t[i] = s[p] /\ t[j] = s[k + 1]
        BY <1>2, <1>4, <2>1, <2>3, <3>1
      <3>3. QED
        BY <3>2
    <2>4. QED
      BY <1>3, <2>2, <2>3
  <1>8. Prefix(S, s, T, k + 1, t)
    BY <1>2, <1>5, <1>6, <1>7 DEF Prefix
  <1>9. QED
    BY <1>8 DEF t

LEMMA PrefixStays ==
    ASSUME NEW S, NEW s \in Seq(S), NEW T, NEW k \in Nat, k < Len(s),
           NEW r, Prefix(S, s, T, k, r), s[k + 1] \notin T
    PROVE  Prefix(S, s, T, k + 1, r)
  <1>1. /\ \A p \in 1 .. k : p \in 1 .. k + 1
        /\ \A p \in 1 .. k + 1 : p \in 1 .. k \/ p = k + 1
    OBVIOUS
  <1>2. \A p \in 1 .. k + 1 : s[p] \in T => p \in 1 .. k
    BY <1>1
  <1>3. \A i \in DOMAIN r : \E p \in 1 .. k + 1 : r[i] = s[p] /\ s[p] \in T
    BY <1>1 DEF Prefix
  <1>4. \A p \in 1 .. k + 1 : s[p] \in T => \E i \in DOMAIN r : r[i] = s[p]
    BY <1>2 DEF Prefix
  <1>5. \A i, j \in DOMAIN r : i < j =>
            \E p, q \in 1 .. k + 1 : p < q /\ r[i] = s[p] /\ r[j] = s[q]
    BY <1>1 DEF Prefix
  <1>6. QED
    BY <1>3, <1>4, <1>5 DEF Prefix

(* The filter of a list: its elements that are in T, in their order.       *)
LEMMA KeptPrefix ==
    ASSUME NEW S, NEW s \in Seq(S), NEW T
    PROVE  Prefix(S, s, T, Len(s), Kept(s, T))
  <1> DEFINE n == Len(s)
  <1>1. n \in Nat
    OBVIOUS
  <1>2. PICK f : Filters(s, T, f, n) /\ Kept(s, T) = f[n]
    <2>1. \E f : Filters(s, T, f, n)
      BY <1>1, FilterExists
    <2>2. Filters(s, T, CHOOSE f : Filters(s, T, f, n), n)
      BY <2>1
    <2>3. Kept(s, T) = (CHOOSE f : Filters(s, T, f, n))[n]
      BY DEF Kept, Filters, Filtered
    <2>4. QED
      BY <2>2, <2>3
  <1>3. \A k \in 0 .. n : f[k] = Filtered(s, T, f, k)
    BY <1>2 DEF Filters
  <1> DEFINE Good == {k \in 0 .. n : Prefix(S, s, T, k, f[k])}
  <1>4. 0 \in Good
    <2>1. 0 \in 0 .. n /\ f[0] = <<>>
      BY <1>1, <1>3 DEF Filtered
    <2>2. Prefix(S, s, T, 0, <<>>)
      BY DEF Prefix
    <2>3. QED
      BY <2>1, <2>2
  <1>5. ASSUME NEW k \in 0 .. n, k \in Good, k < n
        PROVE  k + 1 \in Good
    <2>1. Prefix(S, s, T, k, f[k]) /\ k \in Nat /\ k + 1 \in 0 .. n
      BY <1>1, <1>5
    <2>2. f[k + 1] = IF s[k + 1] \in T THEN Append(f[k], s[k + 1]) ELSE f[k]
      <3>1. (k + 1) - 1 = k /\ k + 1 # 0
        BY <2>1
      <3>2. f[k + 1] = Filtered(s, T, f, k + 1)
        BY <1>3, <2>1
      <3>3. QED
        BY <3>1, <3>2 DEF Filtered
    <2>3. CASE s[k + 1] \in T
      <3>1. Prefix(S, s, T, k + 1, Append(f[k], s[k + 1]))
        BY <1>5, <2>1, <2>3, PrefixGrows
      <3>2. QED
        BY <2>1, <2>2, <2>3, <3>1
    <2>4. CASE s[k + 1] \notin T
      <3>1. Prefix(S, s, T, k + 1, f[k])
        BY <1>5, <2>1, <2>4, PrefixStays
      <3>2. QED
        BY <2>1, <2>2, <2>4, <3>1
    <2>5. QED
      BY <2>3, <2>4
  <1> HIDE DEF Good
  <1>6. Good = 0 .. n
    BY <1>1, <1>4, <1>5, BoundedInduction DEF Good
  <1>7. n \in Good
    BY <1>1, <1>6
  <1>8. QED
    BY <1>2, <1>7 DEF Good

LEMMA KeptFacts ==
    ASSUME NEW S, NEW s \in Seq(S), NEW T
    PROVE  /\ Kept(s, T) \in Seq(S)
           /\ Members(Kept(s, T)) = Members(s) \cap T
           /\ \A i, j \in DOMAIN Kept(s, T) : i < j =>
                 \E p, q \in DOMAIN s : p < q /\ Kept(s, T)[i] = s[p] /\ Kept(s, T)[j] = s[q]
  <1> DEFINE r == Kept(s, T)
  <1>1. Prefix(S, s, T, Len(s), r)
    BY KeptPrefix
  <1>2. DOMAIN s = 1 .. Len(s)
    OBVIOUS
  <1> HIDE DEF r
  <1>3. \A x : x \in Members(r) <=> x \in Members(s) /\ x \in T
    <2>1. ASSUME NEW x \in Members(r)
          PROVE  x \in Members(s) /\ x \in T
      <3>1. PICK i \in DOMAIN r : r[i] = x
        BY <2>1 DEF Members
      <3>2. PICK p \in 1 .. Len(s) : r[i] = s[p] /\ s[p] \in T
        BY <1>1, <3>1 DEF Prefix
      <3>3. QED
        BY <1>2, <3>1, <3>2 DEF Members
    <2>2. ASSUME NEW x \in Members(s), x \in T
          PROVE  x \in Members(r)
      <3>1. PICK p \in 1 .. Len(s) : s[p] = x
        BY <1>2, <2>2 DEF Members
      <3>2. PICK i \in DOMAIN r : r[i] = s[p]
        BY <1>1, <2>2, <3>1 DEF Prefix
      <3>3. QED
        BY <3>1, <3>2 DEF Members
    <2>3. QED
      BY <2>1, <2>2
  <1>4. Members(r) = Members(s) \cap T
    BY <1>3
  <1>5. \A i, j \in DOMAIN r : i < j =>
                 \E p, q \in DOMAIN s : p < q /\ r[i] = s[p] /\ r[j] = s[q]
    <2>1. \A i, j \in DOMAIN r : i < j =>
              \E p, q \in 1 .. Len(s) : p < q /\ r[i] = s[p] /\ r[j] = s[q]
      BY <1>1 DEF Prefix
    <2>2. QED
      BY <1>2, <2>1
  <1>6. r \in Seq(S)
    BY <1>1 DEF Prefix
  <1>7. QED
    BY <1>4, <1>5, <1>6 DEF r
-----------------------------------------------------------------------------
(***************************************************************************)
(* The window list.                                                        *)
(***************************************************************************)

Ordered(stack) == \A i, j \in DOMAIN stack : i < j => stack[i].id < stack[j].id

LiveOf(stack, open) == Kept(stack, {w \in Window : w.id \in open})

LEMMA MembersIds ==
    ASSUME NEW stack \in Seq(Window)
    PROVE  /\ IdsOf(stack) = {w.id : w \in Members(stack)}
           /\ Members(stack) \subseteq Window
           /\ IdsOf(stack) \subseteq Ids
           /\ IdsOf(stack) = {} => stack = <<>>
  <1>1. DOMAIN stack = 1 .. Len(stack) /\ \A i \in DOMAIN stack : stack[i] \in Window
    OBVIOUS
  <1>2. IdsOf(stack) = {w.id : w \in Members(stack)}
    BY DEF IdsOf, Members
  <1>3. Members(stack) \subseteq Window
    BY <1>1 DEF Members
  <1>4. IdsOf(stack) \subseteq Ids
    BY <1>2, <1>3 DEF Window
  <1>5. ASSUME IdsOf(stack) = {} PROVE stack = <<>>
    <2>1. \A i \in DOMAIN stack : stack[i].id \in IdsOf(stack)
      BY DEF IdsOf
    <2>2. \A i \in 1 .. Len(stack) : FALSE
      BY <1>1, <1>5, <2>1
    <2>3. Len(stack) = 0
      BY <2>2
    <2>4. QED
      BY <2>3
  <1>6. QED
    BY <1>2, <1>3, <1>4, <1>5

(* A list stays a list of windows, in their order, when it is filtered.    *)
LEMMA KeptWindows ==
    ASSUME NEW stack \in Seq(Window), NEW T
    PROVE  /\ Kept(stack, T) \in Seq(Window)
           /\ \A x : x \in IdsOf(Kept(stack, T)) <=>
                 \E w \in Members(stack) : w \in T /\ w.id = x
           /\ Ordered(stack) => Ordered(Kept(stack, T))
  <1> DEFINE r == Kept(stack, T)
  <1>1. /\ r \in Seq(Window)
        /\ Members(r) = Members(stack) \cap T
        /\ \A i, j \in DOMAIN r : i < j =>
              \E p, q \in DOMAIN stack : p < q /\ r[i] = stack[p] /\ r[j] = stack[q]
    BY KeptFacts
  <1> HIDE DEF r
  <1>2. \A x : x \in IdsOf(r) <=> \E w \in Members(stack) : w \in T /\ w.id = x
    <2>1. IdsOf(r) = {w.id : w \in Members(r)}
      BY <1>1, MembersIds
    <2>2. QED
      BY <1>1, <2>1
  <1>3. Ordered(stack) => Ordered(r)
    BY <1>1 DEF Ordered
  <1>4. QED
    BY <1>1, <1>2, <1>3 DEF r

LEMMA OnFacts ==
    ASSUME NEW stack \in Seq(Window), NEW ws
    PROVE  /\ On(stack, ws) \in Seq(Window)
           /\ \A x : x \in IdsOf(On(stack, ws)) <=>
                 \E w \in Members(stack) : w.workspace = ws /\ w.id = x
           /\ IdsOf(On(stack, ws)) \subseteq IdsOf(stack)
  <1> DEFINE T == {w \in Window : w.workspace = ws}
  <1>1. /\ Kept(stack, T) \in Seq(Window)
        /\ \A x : x \in IdsOf(Kept(stack, T)) <=>
              \E w \in Members(stack) : w \in T /\ w.id = x
    BY KeptWindows
  <1>2. Members(stack) \subseteq Window /\ IdsOf(stack) = {w.id : w \in Members(stack)}
    BY MembersIds
  <1>3. On(stack, ws) = Kept(stack, T)
    BY DEF On
  <1>4. \A x : x \in IdsOf(On(stack, ws)) <=>
                 \E w \in Members(stack) : w.workspace = ws /\ w.id = x
    BY <1>1, <1>2, <1>3
  <1>5. QED
    BY <1>1, <1>2, <1>3, <1>4

(* Pruning takes the closed windows from every workspace, and no others.   *)
LEMMA LiveFacts ==
    ASSUME NEW stack \in Seq(Window), NEW open
    PROVE  LET live == LiveOf(stack, open) IN
           /\ live \in Seq(Window)
           /\ IdsOf(live) = IdsOf(stack) \cap open
           /\ \A ws : IdsOf(On(live, ws)) = IdsOf(On(stack, ws)) \cap open
           /\ Ordered(stack) => Ordered(live)
  <1> DEFINE T == {w \in Window : w.id \in open}
             live == LiveOf(stack, open)
  <1>1. live = Kept(stack, T)
    BY DEF LiveOf
  <1>2. /\ live \in Seq(Window)
        /\ \A x : x \in IdsOf(live) <=> \E w \in Members(stack) : w \in T /\ w.id = x
        /\ Ordered(stack) => Ordered(live)
    BY <1>1, KeptWindows
  <1>3. Members(stack) \subseteq Window /\ IdsOf(stack) = {w.id : w \in Members(stack)}
    BY MembersIds
  <1>4. Members(live) = Members(stack) \cap T
    BY <1>1, KeptFacts
  <1> HIDE DEF live
  <1>5. IdsOf(live) = IdsOf(stack) \cap open
    BY <1>2, <1>3
  <1>6. ASSUME NEW ws PROVE IdsOf(On(live, ws)) = IdsOf(On(stack, ws)) \cap open
    <2>1. \A x : x \in IdsOf(On(live, ws)) <=>
                 \E w \in Members(live) : w.workspace = ws /\ w.id = x
      BY <1>2, OnFacts
    <2>2. \A x : x \in IdsOf(On(stack, ws)) <=>
                 \E w \in Members(stack) : w.workspace = ws /\ w.id = x
      BY OnFacts
    <2>3. QED
      BY <1>3, <1>4, <2>1, <2>2
  <1>7. QED
    BY <1>2, <1>5, <1>6 DEF live

LEMMA LatestFacts ==
    ASSUME NEW stack \in Seq(Window)
    PROVE  /\ stack # <<>> => Latest(stack) \in IdsOf(stack)
           /\ stack = <<>> => Latest(stack) = None
  <1>1. ASSUME stack # <<>> PROVE Latest(stack) \in IdsOf(stack)
    <2>1. Len(stack) \in DOMAIN stack
      BY <1>1
    <2>2. QED
      BY <1>1, <2>1 DEF Latest, IdsOf
  <1>2. QED
    BY <1>1 DEF Latest

(* The surface of a workspace is one of its windows, if it has any.        *)
LEMMA SurfaceFacts ==
    ASSUME NEW stack \in Seq(Window), NEW ws, NEW focus
    PROVE  /\ On(stack, ws) # <<>> => SurfaceOf(stack, ws, focus) \in IdsOf(On(stack, ws))
           /\ On(stack, ws) = <<>> => SurfaceOf(stack, ws, focus) = None
  <1>1. On(stack, ws) \in Seq(Window)
    BY OnFacts
  <1>2. On(stack, ws) = <<>> => IdsOf(On(stack, ws)) = {}
    BY DEF IdsOf
  <1>3. QED
    BY <1>1, <1>2, LatestFacts DEF SurfaceOf
-----------------------------------------------------------------------------
(* Of the windows at a point one is on top: a set of places has a greatest *)
(* one, which leaves the least rest to the length of the stack.            *)
LEMMA TopmostFacts ==
    ASSUME NEW stack \in Seq(Window), NEW hits \in SUBSET Drawn(stack), hits # {}
    PROVE  Topmost(hits) \in IdsOf(stack)
  <1> DEFINE n == Len(stack)
             T == {n - w.place : w \in hits}
  <1>1. n \in Nat /\ DOMAIN stack = 1 .. n
    OBVIOUS
  <1>2. \A w \in hits : \E i \in 1 .. n : w = [id |-> stack[i].id, place |-> i - 1]
    BY <1>1 DEF Drawn
  <1>3. \A w \in hits : w.place \in Nat /\ w.place < n /\ w.id \in IdsOf(stack)
    <2>1. SUFFICES ASSUME NEW w \in hits
                   PROVE  w.place \in Nat /\ w.place < n /\ w.id \in IdsOf(stack)
      OBVIOUS
    <2>2. PICK i \in 1 .. n : w = [id |-> stack[i].id, place |-> i - 1]
      BY <1>2
    <2>3. w.id = stack[i].id /\ w.place = i - 1
      BY <2>2
    <2>4. QED
      BY <1>1, <2>3 DEF IdsOf
  <1>4. T \in SUBSET Nat /\ T # {}
    BY <1>1, <1>3
  <1>5. PICK m \in T : \A k \in T : m <= k
    BY <1>4, LeastNumber
  <1>6. PICK w \in hits : m = n - w.place
    BY <1>5
  <1>7. \A v \in hits : v.place <= w.place
    <2>1. SUFFICES ASSUME NEW v \in hits PROVE v.place <= w.place
      OBVIOUS
    <2>2. n - w.place <= n - v.place
      BY <1>5, <1>6
    <2>3. QED
      BY <1>1, <1>3, <2>2
  <1>8. (CHOOSE x \in hits : \A v \in hits : v.place <= x.place) \in hits
    BY <1>7
  <1>9. QED
    BY <1>3, <1>8 DEF Topmost
-----------------------------------------------------------------------------
(***************************************************************************)
(* The inductive invariant.                                                *)
(***************************************************************************)

(* Consistent, and no window has a number that is still to be given.       *)
InOrder ==
    /\ Consistent
    /\ \A i \in DOMAIN windows : windows[i].id < next_window_id

(* What the handlers read: the list without the closed windows, and what   *)
(* of it is on a workspace.                                                *)
LEMMA ViewFacts ==
    ASSUME windows \in Seq(Window)
    PROVE  /\ Pruned \in Seq(Window)
           /\ IdsOf(Pruned) = IdsOf(windows) \cap alive
           /\ \A ws : IdsOf(On(Pruned, ws)) = IdsOf(On(windows, ws)) \cap alive
           /\ Ordered(windows) => Ordered(Pruned)
           /\ VisibleWindows = On(Pruned, active_workspace)
           /\ VisibleWindows \in Seq(Window)
  <1>1. Pruned = LiveOf(windows, alive)
    BY DEF Pruned, Live, LiveOf
  <1>2. QED
    BY <1>1, LiveFacts, OnFacts DEF VisibleWindows

LEMMA HitFacts ==
    ASSUME windows \in Seq(Window), Under(location) # {}
    PROVE  Topmost(Under(location)) \in IdsOf(VisibleWindows)
  <1>1. Under(location) \in SUBSET Drawn(VisibleWindows)
    BY DEF Under
  <1>2. QED
    BY <1>1, ViewFacts, TopmostFacts

(* The focus the handlers leave when they prune is on the workspace shown. *)
LEMMA FocusFacts ==
    ASSUME Consistent
    PROVE  /\ PrunedFocus \in Ids \cup {None}
           /\ PrunedFocus # None => PrunedFocus \in IdsOf(VisibleWindows)
           /\ FocusedSurface \in Ids \cup {None}
           /\ VisibleWindows # <<>> => FocusedSurface \in IdsOf(VisibleWindows)
  <1>1. windows \in Seq(Window) /\ focused_window \in Ids \cup {None}
    BY DEF Consistent, TypeOK
  <1>2. IdsOf(VisibleWindows) \subseteq Ids
    BY <1>1, ViewFacts, MembersIds
  <1>3. PrunedFocus # None => PrunedFocus \in IdsOf(VisibleWindows)
    BY <1>1, ViewFacts DEF PrunedFocus, Consistent
  <1>4. /\ VisibleWindows # <<>> => FocusedSurface \in IdsOf(VisibleWindows)
        /\ VisibleWindows = <<>> => FocusedSurface = None
    BY <1>1, ViewFacts, SurfaceFacts DEF FocusedSurface
  <1>5. QED
    BY <1>1, <1>2, <1>3, <1>4 DEF PrunedFocus

LEMMA InOrderInit == Init => InOrder
  <1> SUFFICES ASSUME Init PROVE InOrder
    OBVIOUS
  <1> USE BoundAssumption
  <1>1. windows = <<>> /\ windows \in Seq(Window) /\ DOMAIN windows = {} /\ alive = {}
    BY DEF Init
  <1>2. TypeOK
    <2>1. /\ 1 \in 1 .. MaxWindow + 1 /\ 1 \in Workspaces /\ 0 \in Locations
          /\ [w \in Ids |-> "none"] \in [Ids -> {"none", "new", "drawn"}]
      BY DEF Workspaces, Locations
    <2>2. pending \in {"none", "flying", "failed"} /\ frame_queued \in BOOLEAN
      BY DEF Init
    <2>3. QED
      BY <1>1, <2>1, <2>2 DEF Init, TypeOK
  <1>3. QED
    BY <1>1, <1>2 DEF InOrder, Consistent, Init

(* A handler that prunes keeps the list in order, whichever of the         *)
(* workspaces it shows.                                                    *)
LEMMA PrunedInOrder ==
    ASSUME InOrder, prune_windows, UNCHANGED <<alive, next_window_id>>
    PROVE  /\ windows' \in Seq(Window)
           /\ alive' \subseteq IdsOf(windows')
           /\ \A i, j \in DOMAIN windows' : i < j => windows'[i].id < windows'[j].id
           /\ \A i \in DOMAIN windows' : windows'[i].id < next_window_id'
  <1>1. windows \in Seq(Window)
    BY DEF InOrder, Consistent, TypeOK
  <1>2. windows' = Pruned /\ alive' = alive /\ next_window_id' = next_window_id
    BY DEF prune_windows
  <1>3. Ordered(windows)
    BY DEF InOrder, Consistent, Ordered
  <1>4. /\ Pruned \in Seq(Window) /\ Ordered(Pruned)
        /\ IdsOf(Pruned) = IdsOf(windows) \cap alive
    BY <1>1, <1>3, ViewFacts
  <1>5. \A x \in IdsOf(windows) : x < next_window_id
    BY DEF InOrder, IdsOf
  <1>6. \A i \in DOMAIN Pruned : Pruned[i].id \in IdsOf(Pruned)
    BY DEF IdsOf
  <1>7. \A i \in DOMAIN Pruned : Pruned[i].id < next_window_id
    BY <1>4, <1>5, <1>6
  <1>8. alive \subseteq IdsOf(Pruned)
    BY <1>4 DEF InOrder, Consistent
  <1>9. QED
    BY <1>2, <1>4, <1>7, <1>8 DEF Ordered

(* A step of the loop or of a handler that prunes and changes the focus at *)
(* most, to a window that is shown.                                        *)
LEMMA PrunedStep ==
    ASSUME InOrder, prune_windows,
           UNCHANGED <<backend, alive, next_window_id, device>>,
           active_workspace' \in Workspaces, location' \in Locations,
           focused_window' # None => focused_window' \in IdsOf(On(Pruned, active_workspace')),
           keyboard' \in Ids \cup {None},
           phase' \in {"events", "clients", "ended"},
           render_requested' \in BOOLEAN, frame_queued' \in BOOLEAN,
           pending' \in {"none", "flying", "failed"},
           content' \in [Ids -> {"none", "new", "drawn"}],
           callback' \in SUBSET alive,
           shell' \in {"none", "running", "exited", "killed"}
    PROVE  InOrder'
  <1>1. /\ windows' \in Seq(Window)
        /\ alive' \subseteq IdsOf(windows')
        /\ \A i, j \in DOMAIN windows' : i < j => windows'[i].id < windows'[j].id
        /\ \A i \in DOMAIN windows' : windows'[i].id < next_window_id'
    BY PrunedInOrder
  <1>2. windows \in Seq(Window) /\ windows' = Pruned
    BY DEF InOrder, Consistent, TypeOK, prune_windows
  <1>3. /\ On(Pruned, active_workspace') \in Seq(Window)
        /\ IdsOf(On(Pruned, active_workspace')) \subseteq Ids
    BY <1>1, <1>2, OnFacts, MembersIds
  <1>4. focused_window' \in Ids \cup {None}
    BY <1>3
  <1>5. TypeOK'
    BY <1>1, <1>4 DEF InOrder, Consistent, TypeOK
  <1>6. focused_window' # None =>
            focused_window' \in IdsOf(On(windows', active_workspace'))
    BY <1>2
  <1>7. Consistent'
    BY <1>1, <1>5, <1>6 DEF Consistent
  <1>8. QED
    BY <1>1, <1>7 DEF InOrder

LEMMA AppendedIds ==
    ASSUME NEW stack \in Seq(Window), NEW w \in Window
    PROVE  LET t == Append(stack, w) IN
           /\ t \in Seq(Window)
           /\ Members(t) = Members(stack) \cup {w}
           /\ IdsOf(t) = IdsOf(stack) \cup {w.id}
           /\ Ordered(stack) /\ (\A x \in IdsOf(stack) : x < w.id) => Ordered(t)
  <1> DEFINE t == Append(stack, w)
  <1>1. /\ t \in Seq(Window) /\ Len(stack) \in Nat
        /\ DOMAIN stack = 1 .. Len(stack) /\ DOMAIN t = 1 .. Len(stack) + 1
        /\ \A i \in 1 .. Len(stack) : t[i] = stack[i]
        /\ t[Len(stack) + 1] = w
    OBVIOUS
  <1> HIDE DEF t
  <1>2. /\ \A i \in DOMAIN t : i \in DOMAIN stack \/ i = Len(stack) + 1
        /\ \A i \in DOMAIN stack : i \in DOMAIN t /\ t[i] = stack[i]
        /\ Len(stack) + 1 \in DOMAIN t
        /\ \A i, j \in DOMAIN t : i < j => i \in DOMAIN stack
    BY <1>1
  <1>3. Members(t) = Members(stack) \cup {w}
    BY <1>1, <1>2 DEF Members
  <1>4. IdsOf(t) = IdsOf(stack) \cup {w.id}
    BY <1>1, <1>3, MembersIds
  <1>5. ASSUME Ordered(stack), \A x \in IdsOf(stack) : x < w.id PROVE Ordered(t)
    <2>1. SUFFICES ASSUME NEW i \in DOMAIN t, NEW j \in DOMAIN t, i < j
                   PROVE  t[i].id < t[j].id
      BY DEF Ordered
    <2>2. i \in DOMAIN stack /\ t[i] = stack[i] /\ stack[i].id \in IdsOf(stack)
      BY <1>2, <2>1 DEF IdsOf
    <2>3. CASE j \in DOMAIN stack
      BY <1>2, <1>5, <2>1, <2>2, <2>3 DEF Ordered
    <2>4. CASE j = Len(stack) + 1
      BY <1>1, <1>5, <2>2, <2>4
    <2>5. QED
      BY <1>2, <2>3, <2>4
  <1>6. QED
    BY <1>1, <1>3, <1>4, <1>5 DEF t

(* A new window comes last, on the workspace that is shown.                *)
LEMMA NewToplevelInOrder ==
    ASSUME InOrder, NewToplevel
    PROVE  InOrder'
  <1> DEFINE w == [id |-> next_window_id, workspace |-> active_workspace]
  <1>1. TypeOK /\ windows \in Seq(Window) /\ next_window_id \in Ids /\ w \in Window
    BY BoundAssumption DEF InOrder, Consistent, TypeOK, NewToplevel, Ids, Window
  <1>2. windows' = Append(windows, w) /\ w.id = next_window_id
    BY DEF NewToplevel
  <1>3. \A x \in IdsOf(windows) : x < next_window_id
    BY DEF InOrder, IdsOf
  <1>4. /\ windows' \in Seq(Window)
        /\ Members(windows') = Members(windows) \cup {w}
        /\ IdsOf(windows') = IdsOf(windows) \cup {next_window_id}
        /\ Ordered(windows')
    <2>1. Ordered(windows)
      BY DEF InOrder, Consistent, Ordered
    <2>2. QED
      BY <1>1, <1>2, <1>3, <2>1, AppendedIds
  <1>5. next_window_id \in IdsOf(On(windows', active_workspace'))
    <2>1. w \in Members(windows') /\ w.workspace = active_workspace'
      BY <1>4 DEF NewToplevel
    <2>2. \A x : x \in IdsOf(On(windows', active_workspace')) <=>
                 \E v \in Members(windows') : v.workspace = active_workspace' /\ v.id = x
      BY <1>4, OnFacts
    <2>3. QED
      BY <1>2, <2>1, <2>2
  <1>6. TypeOK'
    <2>1. /\ next_window_id' \in 1 .. MaxWindow + 1
          /\ alive' \in SUBSET Ids /\ callback' \in SUBSET alive'
          /\ focused_window' \in Ids
      BY <1>1, BoundAssumption DEF NewToplevel, TypeOK, Ids
    <2>2. QED
      BY <1>1, <1>4, <2>1 DEF NewToplevel, Client, frameVars, TypeOK
  <1>7. alive' \subseteq IdsOf(windows')
    BY <1>4 DEF NewToplevel, InOrder, Consistent
  <1>8. \A i \in DOMAIN windows' : windows'[i].id < next_window_id'
    <2>1. \A x \in IdsOf(windows') : x < next_window_id'
      <3>1. IdsOf(windows) \subseteq Ids
        BY <1>1, MembersIds
      <3>2. QED
        BY <1>1, <1>3, <1>4, <3>1 DEF NewToplevel, Ids
    <2>2. QED
      BY <2>1 DEF IdsOf
  <1>9. Consistent'
    BY <1>4, <1>5, <1>6, <1>7 DEF Consistent, Ordered, NewToplevel
  <1>10. QED
    BY <1>8, <1>9 DEF InOrder

(* A step that leaves windows, workspaces and focus alone, and only ever   *)
(* closes windows.                                                         *)
LEMMA OtherStep ==
    ASSUME InOrder, UNCHANGED <<backend, appVars>>, TypeOK', alive' \subseteq alive
    PROVE  InOrder'
  BY DEF InOrder, Consistent, appVars

LEMMA InOrderInput ==
    ASSUME InOrder,
           \/ \E ws \in Workspaces : SuperNumber(ws)
           \/ \E loc \in Locations : PointerMotion(loc)
           \/ ButtonPressed \/ OtherInput
    PROVE  InOrder'
  <1>1. TypeOK /\ Consistent /\ windows \in Seq(Window)
    BY DEF InOrder, Consistent, TypeOK
  <1>2. /\ Pruned \in Seq(Window) /\ IdsOf(Pruned) = IdsOf(windows) \cap alive
        /\ \A ws : IdsOf(On(Pruned, ws)) = IdsOf(On(windows, ws)) \cap alive
        /\ VisibleWindows = On(Pruned, active_workspace) /\ VisibleWindows \in Seq(Window)
    BY <1>1, ViewFacts
  <1>3. \A ws : On(Pruned, ws) \in Seq(Window) /\ IdsOf(On(Pruned, ws)) \subseteq Ids
    BY <1>2, OnFacts, MembersIds
  <1>4. IdsOf(VisibleWindows) \subseteq Ids
    BY <1>2, MembersIds
  <1>5. ASSUME NEW ws \in Workspaces, SuperNumber(ws) PROVE InOrder'
    <2>1. SwitchedFocus(ws) = None \/ SwitchedFocus(ws) \in IdsOf(On(windows, ws))
      BY <1>1, OnFacts, LatestFacts DEF SwitchedFocus
    <2>2. focused_window' # None => focused_window' \in IdsOf(On(Pruned, ws))
      BY <1>2, <1>5, <2>1 DEF SuperNumber
    <2>3. /\ SurfaceOf(Pruned, ws, SwitchedFocus(ws)) # None
          => SurfaceOf(Pruned, ws, SwitchedFocus(ws)) \in Ids
      BY <1>2, <1>3, SurfaceFacts
    <2>4. keyboard' \in Ids \cup {None}
      BY <1>1, <1>5, <2>3 DEF SuperNumber, TypeOK
    <2>5. QED
      BY <1>1, <1>5, <2>2, <2>4, PrunedStep
         DEF SuperNumber, Input, clientVars, frameVars, TypeOK
  <1>6. ASSUME NEW loc \in Locations, PointerMotion(loc) PROVE InOrder'
    <2>1. /\ focused_window' # None => focused_window' \in IdsOf(On(Pruned, active_workspace'))
          /\ keyboard' \in Ids \cup {None}
      BY <1>1, <1>2, <1>6, FocusFacts DEF PointerMotion, TypeOK
    <2>2. render_requested' \in BOOLEAN
      BY <1>1, <1>6 DEF PointerMotion, AfterInput, TypeOK
    <2>3. QED
      BY <1>1, <1>6, <2>1, <2>2, PrunedStep
         DEF PointerMotion, Input, clientVars, frameVars, TypeOK
  <1>7. ASSUME ButtonPressed PROVE InOrder'
    <2>1. /\ focused_window' # None => focused_window' \in IdsOf(On(Pruned, active_workspace'))
          /\ keyboard' \in Ids \cup {None}
      BY <1>1, <1>2, <1>4, <1>7, FocusFacts, HitFacts DEF ButtonPressed, TypeOK
    <2>2. render_requested' \in BOOLEAN
      BY <1>1, <1>7 DEF ButtonPressed, AfterInput, TypeOK
    <2>3. QED
      BY <1>1, <1>7, <2>1, <2>2, PrunedStep
         DEF ButtonPressed, Input, clientVars, frameVars, TypeOK
  <1>8. ASSUME OtherInput PROVE InOrder'
    <2>1. TypeOK'
      BY <1>1, <1>8 DEF OtherInput, Input, AfterInput, appVars, clientVars, frameVars, TypeOK
    <2>2. QED
      BY <1>8, <2>1, OtherStep DEF OtherInput, Input, clientVars
  <1>9. QED
    BY <1>5, <1>6, <1>7, <1>8

LEMMA DrawnContent ==
    ASSUME TypeOK, Draw
    PROVE  /\ content' \in [Ids -> {"none", "new", "drawn"}]
           /\ \A w \in Ids : content'[w] = "none" <=> content[w] = "none"
           /\ \A w \in Ids : w \in IdsOf(VisibleWindows) => content'[w] # "new"
  BY DEF TypeOK, Draw

LEMMA InOrderNext == InOrder /\ [Next]_vars => InOrder'
  <1> SUFFICES ASSUME InOrder, [Next]_vars PROVE InOrder'
    OBVIOUS
  <1>1. TypeOK /\ Consistent /\ windows \in Seq(Window)
    BY DEF InOrder, Consistent, TypeOK
  <1>2. ASSUME \/ \E ws \in Workspaces : SuperNumber(ws)
               \/ \E loc \in Locations : PointerMotion(loc)
               \/ ButtonPressed \/ OtherInput
        PROVE  InOrder'
    BY <1>2, InOrderInput
  <1>3. ASSUME NEW w \in Ids, NEW damaged \in BOOLEAN, NEW asks \in BOOLEAN,
               Commit(w, damaged, asks)
        PROVE  InOrder'
    <2>1. TypeOK'
      BY <1>1, <1>3 DEF Commit, Client, appVars, frameVars, TypeOK
    <2>2. QED
      BY <1>3, <2>1, OtherStep DEF Commit, Client
  <1>4. ASSUME NEW w \in Ids, CloseToplevel(w) PROVE InOrder'
    <2>1. TypeOK'
      BY <1>1, <1>4 DEF CloseToplevel, Client, appVars, frameVars, TypeOK
    <2>2. QED
      BY <1>4, <2>1, OtherStep DEF CloseToplevel, Client
  <1>5. ASSUME VBlank \/ PauseSession \/ ActivateSession PROVE InOrder'
    <2>1. TypeOK'
      BY <1>1, <1>5 DEF VBlank, PauseSession, QueuedAfterPause, ActivateSession, Event,
                        appVars, clientVars, TypeOK
    <2>2. QED
      BY <1>5, <2>1, OtherStep DEF VBlank, PauseSession, ActivateSession, Event, clientVars
  <1>6. ASSUME ShellExits \/ (\E p \in {"events", "clients"} : NextPhase(p))
        PROVE  InOrder'
    <2>1. TypeOK'
      BY <1>1, <1>6 DEF ShellExits, NextPhase, appVars, clientVars, frameVars, TypeOK
    <2>2. QED
      BY <1>6, <2>1, OtherStep DEF ShellExits, NextPhase, clientVars
  <1>7. ASSUME DrawNested \/ RenderNextFrame PROVE InOrder'
    <2>1. /\ Draw /\ callback' \in SUBSET alive
          /\ phase' \in {"events", "clients", "ended"}
          /\ render_requested' \in BOOLEAN /\ frame_queued' \in BOOLEAN
          /\ pending' \in {"none", "flying", "failed"}
      BY <1>1, <1>7 DEF DrawNested, RenderNextFrame, Answered, TypeOK
    <2>2. focused_window' # None => focused_window' \in IdsOf(On(Pruned, active_workspace'))
      BY <1>1, <2>1, FocusFacts, ViewFacts DEF Draw
    <2>3. QED
      BY <1>1, <2>1, <2>2, DrawnContent, PrunedStep DEF Draw, TypeOK
  <1>8. ASSUME UNCHANGED vars PROVE InOrder'
    <2>1. TypeOK'
      BY <1>1, <1>8 DEF vars, appVars, clientVars, frameVars, TypeOK
    <2>2. QED
      BY <1>8, <2>1, OtherStep DEF vars, clientVars
  <1>9. ASSUME End PROVE InOrder'
    <2>1. windows' = <<>> /\ windows' \in Seq(Window) /\ DOMAIN windows' = {}
      BY <1>9 DEF End
    <2>2. /\ [w \in Ids |-> "none"] \in [Ids -> {"none", "new", "drawn"}]
          /\ alive' = {} /\ callback' = {} /\ focused_window' = None /\ keyboard' = None
      BY <1>9 DEF End
    <2>3. TypeOK'
      BY <1>1, <1>9, <2>1, <2>2 DEF End, frameVars, TypeOK
    <2>4. QED
      BY <2>1, <2>2, <2>3 DEF InOrder, Consistent
  <1>10. QED
    BY <1>2, <1>3, <1>4, <1>5, <1>6, <1>7, <1>8, <1>9, NewToplevelInOrder
       DEF Next, Loop, EventsDone, ClientsDone, RenderFails, ShellGone, HostClosed

(* The list keeps the open windows in their order, and the focused window  *)
(* is on the workspace that is shown (prune_windows, switch_workspace and  *)
(* register_window of core.rs).                                            *)
THEOREM ListHolds == Spec => []Consistent
  <1>1. Spec => []InOrder
    BY InOrderInit, InOrderNext, PTL DEF Spec
  <1>2. InOrder => Consistent
    BY DEF InOrder
  <1>3. QED
    BY <1>1, <1>2, PTL
-----------------------------------------------------------------------------
(***************************************************************************)
(* The screen.                                                             *)
(***************************************************************************)

(* What of the view stays open is what of the workspace is open.           *)
LEMMA VisibleNext ==
    ASSUME windows' \in Seq(Window)
    PROVE  /\ VisibleWindows' \in Seq(Window)
           /\ IdsOf(VisibleWindows') = IdsOf(On(windows', active_workspace')) \cap alive'
  <1> DEFINE next == LiveOf(windows', alive')
  <1>1. /\ next \in Seq(Window)
        /\ \A ws : IdsOf(On(next, ws)) = IdsOf(On(windows', ws)) \cap alive'
    BY LiveFacts
  <1>2. VisibleWindows' = On(next, active_workspace')
    BY DEF VisibleWindows, Pruned, Live, LiveOf
  <1> HIDE DEF next
  <1>3. On(next, active_workspace') \in Seq(Window)
    BY <1>1, OnFacts
  <1>4. QED
    BY <1>1, <1>2, <1>3

DrawnOf(stack, committed) ==
    {[id |-> stack[i].id, place |-> i - 1] :
        i \in {j \in DOMAIN stack : committed[stack[j].id] # "none"}}

(* What is drawn of a stack depends on which windows have a buffer only.   *)
LEMMA DrawnAgree ==
    ASSUME NEW stack \in Seq(Window), NEW c, NEW d,
           \A w \in Ids : c[w] = "none" <=> d[w] = "none"
    PROVE  DrawnOf(stack, c) = DrawnOf(stack, d)
  <1>1. \A j \in DOMAIN stack : stack[j].id \in Ids
    BY MembersIds DEF IdsOf
  <1>2. {j \in DOMAIN stack : c[stack[j].id] # "none"} = {j \in DOMAIN stack : d[stack[j].id] # "none"}
    BY <1>1
  <1>3. QED
    BY <1>2 DEF DrawnOf

(* The screen stays current while nothing but windows closing changes it.  *)
LEMMA ScreenStays ==
    ASSUME InOrder, InOrder', ScreenCurrent,
           UNCHANGED <<backend, windows, active_workspace, render_requested, content, screen>>,
           alive' \subseteq alive,
           phase' = "ended" \/ phase # "ended"
    PROVE  ScreenCurrent'
  <1>1. SUFFICES ASSUME backend = "drm", ~render_requested, phase # "ended"
                 PROVE  /\ screen' = Drawn(On(windows, active_workspace))'
                        /\ \A w \in IdsOf(VisibleWindows') : content'[w] # "new"
    BY DEF ScreenCurrent
  <1>2. Drawn(On(windows, active_workspace))' = Drawn(On(windows, active_workspace))
    BY DEF Drawn
  <1>3. windows \in Seq(Window) /\ windows' \in Seq(Window)
    BY DEF InOrder, Consistent, TypeOK
  <1>4. IdsOf(VisibleWindows') \subseteq IdsOf(VisibleWindows)
    BY <1>3, VisibleNext, ViewFacts
  <1>5. QED
    BY <1>1, <1>2, <1>4 DEF ScreenCurrent

(* A frame that is drawn shows what is visible, with all that was          *)
(* committed.                                                              *)
LEMMA DrawMakesCurrent ==
    ASSUME InOrder, InOrder', Draw
    PROVE  ScreenCurrent'
  <1>1. TypeOK /\ windows \in Seq(Window) /\ windows' \in Seq(Window)
    BY DEF InOrder, Consistent, TypeOK
  <1>2. /\ windows' = Pruned /\ active_workspace' = active_workspace /\ alive' = alive
        /\ screen' = Drawn(VisibleWindows)
    BY DEF Draw, prune_windows
  <1>3. /\ VisibleWindows \in Seq(Window) /\ IdsOf(VisibleWindows) \subseteq Ids
        /\ VisibleWindows = On(windows', active_workspace')
    BY <1>1, <1>2, ViewFacts, MembersIds
  <1>4. screen' = Drawn(On(windows, active_workspace))'
    <2>1. screen' = DrawnOf(VisibleWindows, content)
      BY <1>2 DEF Drawn, DrawnOf
    <2>2. DrawnOf(VisibleWindows, content) = DrawnOf(VisibleWindows, content')
      BY <1>1, <1>3, DrawnContent, DrawnAgree
    <2>3. Drawn(On(windows, active_workspace))' = DrawnOf(On(windows', active_workspace'), content')
      BY DEF Drawn, DrawnOf
    <2>4. QED
      BY <1>3, <2>1, <2>2, <2>3
  <1>5. \A w \in IdsOf(VisibleWindows') : content'[w] # "new"
    <2>1. IdsOf(VisibleWindows') \subseteq IdsOf(VisibleWindows)
      BY <1>1, <1>3, VisibleNext
    <2>2. QED
      BY <1>1, <1>3, <2>1, DrawnContent
  <1>6. QED
    BY <1>4, <1>5 DEF ScreenCurrent

LEMMA ScreenInit == Init => ScreenCurrent
  <1> SUFFICES ASSUME Init PROVE ScreenCurrent
    OBVIOUS
  <1>1. windows = <<>> /\ windows \in Seq(Window) /\ screen = {} /\ alive = {}
    BY DEF Init
  <1>2. IdsOf(windows) = {}
    BY <1>1 DEF IdsOf
  <1>3. On(windows, active_workspace) = <<>>
    <2>1. windows \in Seq(Window)
      BY <1>1
    <2>2. /\ On(windows, active_workspace) \in Seq(Window)
          /\ IdsOf(On(windows, active_workspace)) \subseteq IdsOf(windows)
      BY <2>1, OnFacts
    <2>3. QED
      BY <1>2, <2>2, MembersIds
  <1>4. Drawn(<<>>) = {}
    BY DEF Drawn
  <1>5. IdsOf(VisibleWindows) = {}
    BY <1>1, VisibleNext, ViewFacts
  <1>6. QED
    BY <1>1, <1>3, <1>4, <1>5 DEF ScreenCurrent

LEMMA ScreenNext == InOrder /\ InOrder' /\ ScreenCurrent /\ [Next]_vars => ScreenCurrent'
  <1> SUFFICES ASSUME InOrder, InOrder', ScreenCurrent, [Next]_vars PROVE ScreenCurrent'
    OBVIOUS
  <1>1. ASSUME \/ \E ws \in Workspaces : SuperNumber(ws)
               \/ \E loc \in Locations : PointerMotion(loc)
               \/ ButtonPressed \/ OtherInput
        PROVE  ScreenCurrent'
    <2>1. backend' = "drm" => render_requested'
      BY <1>1 DEF SuperNumber, PointerMotion, ButtonPressed, OtherInput, Input, AfterInput
    <2>2. QED
      BY <2>1 DEF ScreenCurrent
  <1>2. ASSUME \/ NewToplevel \/ ActivateSession
               \/ \E w \in Ids, damaged, asks \in BOOLEAN : Commit(w, damaged, asks)
        PROVE  ScreenCurrent'
    BY <1>2 DEF NewToplevel, ActivateSession, Commit, ScreenCurrent
  <1>3. ASSUME NEW w \in Ids, CloseToplevel(w) PROVE ScreenCurrent'
    <2>1. /\ UNCHANGED <<backend, windows, active_workspace, render_requested, content, screen>>
          /\ alive' \subseteq alive /\ phase # "ended"
      BY <1>3 DEF CloseToplevel, Client, appVars, frameVars
    <2>2. QED
      BY <2>1, ScreenStays
  <1>4. ASSUME VBlank \/ PauseSession PROVE ScreenCurrent'
    <2>1. /\ UNCHANGED <<backend, windows, active_workspace, render_requested, content, screen, alive>>
          /\ phase # "ended"
      BY <1>4 DEF VBlank, PauseSession, Event, appVars, clientVars
    <2>2. QED
      BY <2>1, ScreenStays
  <1>5. ASSUME ShellExits \/ EventsDone \/ ClientsDone \/ UNCHANGED vars
        PROVE  ScreenCurrent'
    <2>1. /\ UNCHANGED <<backend, windows, active_workspace, render_requested, content, screen, alive>>
          /\ phase' = "ended" \/ phase # "ended" \/ phase' = phase
      BY <1>5 DEF ShellExits, EventsDone, ClientsDone, NextPhase, vars,
                  appVars, clientVars, frameVars
    <2>2. CASE phase' = "ended"
      BY <2>2 DEF ScreenCurrent
    <2>3. CASE phase' # "ended"
      BY <2>1, <2>3, ScreenStays
    <2>4. QED
      BY <2>2, <2>3
  <1>6. ASSUME DrawNested \/ RenderNextFrame PROVE ScreenCurrent'
    BY <1>6, DrawMakesCurrent DEF DrawNested, RenderNextFrame
  <1>7. ASSUME End PROVE ScreenCurrent'
    BY <1>7 DEF End, ScreenCurrent
  <1>8. QED
    BY <1>1, <1>2, <1>3, <1>4, <1>5, <1>6, <1>7
       DEF Next, Loop, RenderFails, ShellGone, HostClosed

(* While no frame is asked for the native screen shows what is visible:    *)
(* every handler that changes or prunes the view asks for one              *)
(* (request_render, and native.rs's device and session events).            *)
THEOREM ScreenHolds == Spec => []ScreenCurrent
  <1>1. Spec => []InOrder
    BY InOrderInit, InOrderNext, PTL DEF Spec
  <1>2. QED
    BY <1>1, ScreenInit, ScreenNext, PTL DEF Spec
-----------------------------------------------------------------------------
(***************************************************************************)
(* The keys.                                                               *)
(***************************************************************************)

KeysStep ==
    /\ KeysHidden' => KeysHidden \/ VisibleWindows' = <<>>
    /\ location' # location => ~KeysHidden' \/ VisibleWindows' = <<>>

(* Pruning hides no window and shows none.                                 *)
LEMMA PrunedKeys ==
    ASSUME InOrder, InOrder', prune_windows,
           UNCHANGED <<active_workspace, keyboard, alive, location>>
    PROVE  KeysStep
  <1>1. windows \in Seq(Window) /\ windows' = Pruned
    BY DEF InOrder, Consistent, TypeOK, prune_windows
  <1>2. IdsOf(On(windows', active_workspace')) = IdsOf(On(windows, active_workspace)) \cap alive
    BY <1>1, ViewFacts
  <1>3. QED
    BY <1>2 DEF KeysStep, KeysHidden

(* Giving the keys to a window of the view, if there is one.               *)
LEMMA KeysGiven ==
    ASSUME InOrder, InOrder', prune_windows, UNCHANGED alive,
           On(windows', active_workspace') # <<>> =>
                keyboard' \in IdsOf(On(windows', active_workspace'))
    PROVE  KeysStep
  <1>1. windows' \in Seq(Window)
    BY DEF InOrder, Consistent, TypeOK
  <1>2. CASE On(windows', active_workspace') # <<>>
    BY <1>2 DEF KeysStep, KeysHidden
  <1>3. CASE On(windows', active_workspace') = <<>>
    <2>1. /\ VisibleWindows' \in Seq(Window)
          /\ IdsOf(VisibleWindows') = IdsOf(On(windows', active_workspace')) \cap alive'
      BY <1>1, VisibleNext
    <2>2. IdsOf(On(windows', active_workspace')) = {}
      BY <1>3 DEF IdsOf
    <2>3. VisibleWindows' = <<>>
      BY <2>1, <2>2, MembersIds
    <2>4. QED
      BY <2>3 DEF KeysStep
  <1>4. QED
    BY <1>2, <1>3

LEMMA KeysNext == InOrder /\ InOrder' /\ [Next]_vars => KeysStep
  <1> SUFFICES ASSUME InOrder, InOrder', [Next]_vars PROVE KeysStep
    OBVIOUS
  <1>1. Consistent /\ windows \in Seq(Window) /\ Pruned \in Seq(Window)
    BY ViewFacts DEF InOrder, Consistent, TypeOK
  <1>2. VisibleWindows = On(Pruned, active_workspace)
    BY <1>1, ViewFacts
  <1>3. \A ws, f : /\ On(Pruned, ws) # <<>> => SurfaceOf(Pruned, ws, f) \in IdsOf(On(Pruned, ws))
                   /\ On(Pruned, ws) # <<>> => SurfaceOf(Pruned, ws, f) # None
    <2>1. \A ws, f : On(Pruned, ws) # <<>> => SurfaceOf(Pruned, ws, f) \in IdsOf(On(Pruned, ws))
      BY <1>1, SurfaceFacts
    <2>2. \A ws : IdsOf(On(Pruned, ws)) \subseteq Ids
      BY <1>1, OnFacts, MembersIds
    <2>3. None \notin Ids
      BY BoundAssumption DEF Ids
    <2>4. QED
      BY <2>1, <2>2, <2>3
  <1>4. ASSUME NEW ws \in Workspaces, SuperNumber(ws) PROVE KeysStep
    <2>1. On(Pruned, ws) # <<>> => keyboard' \in IdsOf(On(Pruned, ws))
      BY <1>3, <1>4 DEF SuperNumber
    <2>2. QED
      BY <1>4, <2>1, KeysGiven DEF SuperNumber, Input, clientVars, prune_windows
  <1>5. ASSUME NEW loc \in Locations, PointerMotion(loc) PROVE KeysStep
    <2>1. VisibleWindows # <<>> => keyboard' \in IdsOf(VisibleWindows)
      BY <1>2, <1>3, <1>5 DEF PointerMotion, FocusedSurface
    <2>2. QED
      BY <1>2, <1>5, <2>1, KeysGiven DEF PointerMotion, Input, clientVars, prune_windows
  <1>6. ASSUME ButtonPressed PROVE KeysStep
    <2>1. CASE Under(location) = {}
      BY <1>6, <2>1, PrunedKeys DEF ButtonPressed, Input, clientVars
    <2>2. CASE Under(location) # {}
      <3>1. keyboard' \in IdsOf(VisibleWindows)
        BY <1>1, <1>6, <2>2, HitFacts DEF ButtonPressed
      <3>2. QED
        BY <1>2, <1>6, <3>1, KeysGiven DEF ButtonPressed, Input, clientVars, prune_windows
    <2>3. QED
      BY <2>1, <2>2
  <1>7. ASSUME NewToplevel PROVE KeysStep
    <2> DEFINE w == [id |-> next_window_id, workspace |-> active_workspace]
    <2>1. windows' = Append(windows, w) /\ w \in Window
      BY <1>7 DEF NewToplevel, Window, Ids, InOrder, Consistent, TypeOK
    <2>2. Members(windows') = Members(windows) \cup {w} /\ w.id = next_window_id
      BY <1>1, <2>1, AppendedIds
    <2> HIDE DEF w
    <2>10. \A x : x \in IdsOf(On(windows', active_workspace)) <=>
                 \E v \in Members(windows') : v.workspace = active_workspace /\ v.id = x
      <3>1. windows' \in Seq(Window)
        BY DEF InOrder, Consistent, TypeOK
      <3>2. QED
        BY <3>1, OnFacts
    <2>3. IdsOf(On(windows, active_workspace)) \subseteq IdsOf(On(windows', active_workspace))
      <3>1. \A x : x \in IdsOf(On(windows, active_workspace)) <=>
                 \E v \in Members(windows) : v.workspace = active_workspace /\ v.id = x
        BY <1>1, OnFacts
      <3>2. QED
        BY <2>2, <2>10, <3>1
    <2>4. next_window_id \in IdsOf(On(windows', active_workspace))
      <3>1. w \in Members(windows') /\ w.workspace = active_workspace
        BY <2>2 DEF w
      <3>2. QED
        BY <2>2, <2>10, <3>1
    <2>5. QED
      BY <1>7, <2>3, <2>4 DEF NewToplevel, Client, KeysStep, KeysHidden
  <1>8. ASSUME DrawNested \/ RenderNextFrame PROVE KeysStep
    BY <1>8, PrunedKeys DEF DrawNested, RenderNextFrame, Draw
  <1>9. ASSUME /\ UNCHANGED <<windows, active_workspace, keyboard, location>>
               /\ alive' \subseteq alive
        PROVE  KeysStep
    BY <1>9 DEF KeysStep, KeysHidden
  <1>10. ASSUME \/ OtherInput \/ VBlank \/ PauseSession \/ ActivateSession
                \/ ShellExits \/ EventsDone \/ ClientsDone \/ UNCHANGED vars
                \/ \E w \in Ids : CloseToplevel(w)
                \/ \E w \in Ids, damaged, asks \in BOOLEAN : Commit(w, damaged, asks)
         PROVE  KeysStep
    <2>1. /\ UNCHANGED <<windows, active_workspace, keyboard, location>>
          /\ alive' \subseteq alive
      BY <1>10 DEF OtherInput, Input, VBlank, PauseSession, ActivateSession, Event,
                   ShellExits, EventsDone, ClientsDone, NextPhase, CloseToplevel,
                   Commit, Client, vars, appVars, clientVars
    <2>2. QED
      BY <1>9, <2>1
  <1>11. ASSUME End PROVE KeysStep
    BY <1>11 DEF End, KeysStep, KeysHidden
  <1>12. QED
    BY <1>4, <1>5, <1>6, <1>7, <1>8, <1>10, <1>11
       DEF Next, Loop, RenderFails, ShellGone, HostClosed

(* Keys begin to reach a window that is not shown only when a workspace    *)
(* without open windows is entered, and the next movement of the pointer   *)
(* takes them to the view (the set_focus after Super and a number in       *)
(* native.rs, and dispatch_pointer_motion).                                *)
THEOREM KeysHold == Spec => KeysFollowTheView
  <1>1. Spec => []InOrder
    BY InOrderInit, InOrderNext, PTL DEF Spec
  <1>2. InOrder /\ InOrder' /\ [Next]_vars =>
            [/\ KeysHidden' => KeysHidden \/ VisibleWindows' = <<>>
             /\ location' # location => ~KeysHidden' \/ VisibleWindows' = <<>>]_vars
    BY KeysNext DEF KeysStep
  <1>3. QED
    BY <1>1, <1>2, PTL DEF Spec, KeysFollowTheView
=============================================================================

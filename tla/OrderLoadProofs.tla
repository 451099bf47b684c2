--------------------------- MODULE OrderLoadProofs ---------------------------
(***************************************************************************)
(* Theorems about OrderLoad: what the bookkeeping of the load generator    *)
(* guarantees for any number of users, tokens, keys and tracked orders.    *)
(***************************************************************************)
EXTENDS OrderLoad, InductionFacts, SequenceTheorems

----------------------------------------------------------------------------
(* The operators on sequences.                                             *)

\* g is what the recursive function of Without computes on the prefixes of s.
Filters(g, s, gone, m) ==
    g = [n \in 0..m |->
            IF n = 0 THEN <<>>
            ELSE IF s[n] \in gone THEN g[n - 1] ELSE Append(g[n - 1], s[n])]

LEMMA FiltersAt ==
    ASSUME NEW s, NEW gone, NEW m, NEW g, Filters(g, s, gone, m), NEW k \in 0..m
    PROVE  g[k] = IF k = 0 THEN <<>>
                  ELSE IF s[k] \in gone THEN g[k - 1] ELSE Append(g[k - 1], s[k])
BY DEF Filters

\* The recursion of Without has a solution.
LEMMA FiltersExists ==
    ASSUME NEW s, NEW gone
    PROVE  \A m \in Nat : \E g : Filters(g, s, gone, m)
<1> DEFINE S == {m \in Nat : \E g : Filters(g, s, gone, m)}
<1>1. 0 \in S
  <2>1. Filters([n \in 0..0 |-> <<>>], s, gone, 0)
    BY DEF Filters
  <2> QED
    BY <2>1
<1>2. ASSUME NEW m \in Nat, m \in S PROVE m + 1 \in S
  <2>1. PICK g : Filters(g, s, gone, m)
    BY <1>2
  <2> DEFINE last == IF s[m + 1] \in gone THEN g[m] ELSE Append(g[m], s[m + 1])
             h == [n \in 0..(m + 1) |-> IF n = m + 1 THEN last ELSE g[n]]
  <2>2. ASSUME NEW n \in 0..(m + 1)
        PROVE  h[n] = IF n = 0 THEN <<>>
                      ELSE IF s[n] \in gone THEN h[n - 1] ELSE Append(h[n - 1], s[n])
    <3>1. CASE n = m + 1
      BY <3>1
    <3>2. CASE n = 0
      BY <3>2, <2>1 DEF Filters
    <3>3. CASE n \in 1..m
      <4>1. n - 1 \in 0..m /\ n \in 0..m /\ n # m + 1 /\ n - 1 # m + 1
        BY <3>3
      <4>2. h[n] = g[n] /\ h[n - 1] = g[n - 1]
        BY <4>1
      <4>3. g[n] = IF s[n] \in gone THEN g[n - 1] ELSE Append(g[n - 1], s[n])
        BY <4>1, <3>3, <2>1, FiltersAt
      <4> QED
        BY <4>2, <4>3, <3>3
    <3> QED
      BY <3>1, <3>2, <3>3
  <2>3. Filters(h, s, gone, m + 1)
    BY <2>2 DEF Filters
  <2> QED
    BY <2>3
<1>3. Nat \subseteq S
  <2> HIDE DEF S
  <2> QED
    BY <1>1, <1>2, SetInduction
<1> QED
  BY <1>3

\* t has, in their order, the elements of s up to position n that are not in gone:
\* at says where in s each of them stands.
Filtered(t, s, gone, n) ==
    /\ Len(t) <= n
    /\ \E at \in [1..Len(t) -> 1..n] :
           /\ \A i \in 1..Len(t) : t[i] = s[at[i]] /\ s[at[i]] \notin gone
           /\ \A i, j \in 1..Len(t) : i < j => at[i] < at[j]
    /\ \A k \in 1..n : s[k] \notin gone => \E i \in 1..Len(t) : t[i] = s[k]

LEMMA FilteredNothing ==
    ASSUME NEW t, Len(t) = 0, NEW s, NEW gone
    PROVE  Filtered(t, s, gone, 0)
<1>1. 1..Len(t) = {} /\ 1..0 = {}
  OBVIOUS
<1>2. \E at \in [1..Len(t) -> 1..0] :
           /\ \A i \in 1..Len(t) : t[i] = s[at[i]] /\ s[at[i]] \notin gone
           /\ \A i, j \in 1..Len(t) : i < j => at[i] < at[j]
  <2> DEFINE at == [i \in 1..Len(t) |-> i]
  <2>1. at \in [1..Len(t) -> 1..0]
    BY <1>1
  <2> HIDE DEF at
  <2> QED
    BY <2>1, <1>1
<1>3. Len(t) <= 0
  OBVIOUS
<1> QED
  BY <1>1, <1>2, <1>3, Zenon DEF Filtered

LEMMA FilteredSkip ==
    ASSUME NEW A, NEW t \in Seq(A), NEW s, NEW gone, NEW n \in Nat,
           Filtered(t, s, gone, n), s[n + 1] \in gone
    PROVE  Filtered(t, s, gone, n + 1)
<1>1. Len(t) \in Nat
  BY LenProperties
<1>2. PICK at \in [1..Len(t) -> 1..n] :
           /\ \A i \in 1..Len(t) : t[i] = s[at[i]] /\ s[at[i]] \notin gone
           /\ \A i, j \in 1..Len(t) : i < j => at[i] < at[j]
  BY DEF Filtered
<1>3. at \in [1..Len(t) -> 1..(n + 1)]
  BY <1>2
<1>4. \A k \in 1..(n + 1) : s[k] \notin gone => k \in 1..n
  OBVIOUS
<1> QED
  BY <1>1, <1>2, <1>3, <1>4 DEF Filtered

LEMMA FilteredAppend ==
    ASSUME NEW A, NEW t \in Seq(A), NEW s, NEW gone, NEW n \in Nat,
           Filtered(t, s, gone, n), s[n + 1] \notin gone, s[n + 1] \in A
    PROVE  Filtered(Append(t, s[n + 1]), s, gone, n + 1)
<1> DEFINE l == Len(t)
           u == Append(t, s[n + 1])
<1>1. /\ l \in Nat /\ Len(u) = l + 1 /\ u[l + 1] = s[n + 1]
      /\ \A i \in 1..l : u[i] = t[i]
  BY LenProperties, AppendProperties
<1>2. PICK at \in [1..l -> 1..n] :
           /\ \A i \in 1..l : t[i] = s[at[i]] /\ s[at[i]] \notin gone
           /\ \A i, j \in 1..l : i < j => at[i] < at[j]
  BY DEF Filtered
<1>3. l <= n /\ \A k \in 1..n : s[k] \notin gone => \E i \in 1..l : t[i] = s[k]
  BY DEF Filtered
<1> HIDE DEF l, u
<1> DEFINE at2 == [i \in 1..(l + 1) |-> IF i = l + 1 THEN n + 1 ELSE at[i]]
<1>4. at2 \in [1..(l + 1) -> 1..(n + 1)]
  BY <1>1, <1>2
<1>5. at2[l + 1] = n + 1 /\ \A i \in 1..l : at2[i] = at[i] /\ at2[i] \in 1..n
  BY <1>1, <1>2
<1> HIDE DEF at2
<1>6. \A i \in 1..(l + 1) : u[i] = s[at2[i]] /\ s[at2[i]] \notin gone
  <2> SUFFICES ASSUME NEW i \in 1..(l + 1)
               PROVE  u[i] = s[at2[i]] /\ s[at2[i]] \notin gone
    OBVIOUS
  <2>1. CASE i = l + 1
    BY <2>1, <1>1, <1>5
  <2>2. CASE i \in 1..l
    BY <2>2, <1>1, <1>2, <1>5
  <2> QED
    BY <2>1, <2>2, <1>1
<1>7. \A i, j \in 1..(l + 1) : i < j => at2[i] < at2[j]
  <2> SUFFICES ASSUME NEW i \in 1..(l + 1), NEW j \in 1..(l + 1), i < j
               PROVE  at2[i] < at2[j]
    OBVIOUS
  <2>1. i \in 1..l
    BY <1>1
  <2>2. CASE j = l + 1
    BY <2>1, <2>2, <1>1, <1>5
  <2>3. CASE j \in 1..l
    BY <2>1, <2>3, <1>2, <1>5
  <2> QED
    BY <2>2, <2>3, <1>1
<1>8. \A k \in 1..(n + 1) : s[k] \notin gone => \E i \in 1..(l + 1) : u[i] = s[k]
  <2> SUFFICES ASSUME NEW k \in 1..(n + 1), s[k] \notin gone
               PROVE  \E i \in 1..(l + 1) : u[i] = s[k]
    OBVIOUS
  <2>1. CASE k = n + 1
    BY <1>1, <2>1
  <2>2. CASE k \in 1..n
    <3>1. PICK i \in 1..l : t[i] = s[k]
      BY <1>3, <2>2
    <3> QED
      BY <3>1, <1>1
  <2> QED
    BY <2>1, <2>2
<1>9. Len(u) <= n + 1
  BY <1>1, <1>3
<1>10. Filtered(u, s, gone, n + 1)
  BY <1>1, <1>4, <1>6, <1>7, <1>8, <1>9 DEF Filtered
<1> QED
  BY <1>10 DEF u

\* Without keeps, in their order, the elements of s that are not in gone.
LEMMA WithoutFilters ==
    ASSUME NEW A, NEW s \in Seq(A), NEW gone
    PROVE  Without(s, gone) \in Seq(A) /\ Filtered(Without(s, gone), s, gone, Len(s))
<1> DEFINE m == Len(s)
           f == CHOOSE g : Filters(g, s, gone, m)
<1>1. m \in Nat /\ \A i \in 1..m : s[i] \in A
  BY LenProperties, ElementOfSeq
<1>2. Filters(f, s, gone, m)
  BY <1>1, FiltersExists
<1>3. Without(s, gone) = f[m]
  BY DEF Without, Filters
<1> HIDE DEF f, m
<1>4. f[0] = <<>>
  BY <1>1, <1>2, FiltersAt
<1>5. \A n \in 1..m : f[n] = IF s[n] \in gone THEN f[n - 1] ELSE Append(f[n - 1], s[n])
  BY <1>1, <1>2, FiltersAt
<1> DEFINE S == {n \in Nat : n <= m => f[n] \in Seq(A) /\ Filtered(f[n], s, gone, n)}
<1>6. 0 \in S
  <2>1. Len(<<>>) = 0 /\ <<>> \in Seq(A) /\ 1..0 = {}
    OBVIOUS
  <2> QED
    BY <2>1, <1>4, FilteredNothing
<1>7. ASSUME NEW n \in Nat, n \in S PROVE n + 1 \in S
  <2> SUFFICES ASSUME n + 1 <= m
               PROVE  f[n + 1] \in Seq(A) /\ Filtered(f[n + 1], s, gone, n + 1)
    BY <1>7
  <2>1. f[n] \in Seq(A) /\ Filtered(f[n], s, gone, n)
    BY <1>1, <1>7
  <2>2. n + 1 \in 1..m /\ s[n + 1] \in A /\ (n + 1) - 1 = n
    BY <1>1
  <2>3. f[n + 1] = IF s[n + 1] \in gone THEN f[n] ELSE Append(f[n], s[n + 1])
    BY <1>5, <2>2
  <2>4. CASE s[n + 1] \in gone
    BY <2>1, <2>3, <2>4, FilteredSkip
  <2>5. CASE s[n + 1] \notin gone
    BY <2>1, <2>2, <2>3, <2>5, FilteredAppend, AppendProperties
  <2> QED
    BY <2>4, <2>5
<1>8. Nat \subseteq S
  <2> HIDE DEF S
  <2> QED
    BY <1>6, <1>7, SetInduction
<1>9. f[m] \in Seq(A) /\ Filtered(f[m], s, gone, m)
  BY <1>1, <1>8
<1> QED
  BY <1>3, <1>9 DEF m

\* LastOf keeps the end of a sequence, no longer than n.
LEMMA LastOfProperties ==
    ASSUME NEW A, NEW s \in Seq(A), NEW n \in Nat
    PROVE  /\ LastOf(s, n) \in Seq(A)
           /\ Len(LastOf(s, n)) <= n /\ Len(LastOf(s, n)) <= Len(s)
           /\ n > 0 /\ s # <<>> => Len(LastOf(s, n)) > 0
           /\ \A i \in 1..Len(LastOf(s, n)) :
                  LastOf(s, n)[i] = s[i + (Len(s) - Len(LastOf(s, n)))]
<1>1. Len(s) \in Nat /\ \A i \in 1..Len(s) : s[i] \in A
  BY LenProperties, ElementOfSeq
<1>2. CASE Len(s) > n
  <2> DEFINE a == Len(s) - n + 1
  <2>1. a \in 1..(Len(s) + 1) /\ a \in Int /\ Len(s) - a + 1 = n
    BY <1>1, <1>2
  <2>2. LastOf(s, n) = SubSeq(s, a, Len(s))
    BY <1>2 DEF LastOf
  <2>3. SubSeq(s, a, Len(s)) \in Seq(A) /\ Len(SubSeq(s, a, Len(s))) = n
    BY <1>1, <2>1
  <2>4. \A i \in 1..n : SubSeq(s, a, Len(s))[i] = s[a + i - 1]
    BY <1>1, <2>1, <2>3
  <2>5. \A i \in 1..n : a + i - 1 = i + (Len(s) - n)
    BY <1>1
  <2> QED
    BY <1>1, <1>2, <2>2, <2>3, <2>4, <2>5
<1>3. CASE ~(Len(s) > n)
  <2>1. LastOf(s, n) = s /\ Len(s) - Len(s) = 0 /\ \A i \in 1..Len(s) : i + 0 = i
    BY <1>1, <1>3 DEF LastOf
  <2> QED
    BY <1>1, <1>3, <2>1, EmptySeq
<1> QED
  BY <1>2, <1>3

----------------------------------------------------------------------------
(* Types.                                                                  *)

LEMMA RequestFields ==
    ASSUME NEW r \in Requests
    PROVE  /\ r.user \in Users /\ r.token \in Tokens
           /\ r.kind \in {"create", "cancel", "cancelAll"}
           /\ r.kind = "create" =>
                  /\ r.key \in Keys /\ r.parent \in Orders \cup {None}
                  /\ Named(r) \in Orders
           /\ r.kind = "cancel" => r.order \in Orders
BY DEF Requests, Named, Orders

LEMMA CreateIsRequest ==
    ASSUME NEW v \in Users, NEW t \in Tokens, NEW k \in Keys, NEW p \in Orders \cup {None}
    PROVE  Create(v, t, k, p) \in Requests
BY DEF Create, Requests

LEMMA TrackedAreOrders ==
    ASSUME TypeOK, NEW v \in Users
    PROVE  /\ open[v] \in Seq(Orders) /\ Len(open[v]) \in Nat /\ DOMAIN open[v] = 1..Len(open[v])
           /\ Tracked(v) \subseteq Orders
           /\ \A i \in 1..Len(open[v]) : open[v][i] \in Tracked(v)
           /\ \A o \in Orders : Desk(o) \in Tokens /\ o[2] \in Keys /\ o = <<o[1], o[2]>>
BY LenProperties, ElementOfSeq DEF TypeOK, Tracked, Orders, Desk

LEMMA TrackedAreOrdersNext ==
    ASSUME TypeOK', NEW v \in Users
    PROVE  Tracked(v)' \subseteq Orders
BY LenProperties, ElementOfSeq DEF TypeOK, Tracked

LEMMA SendType ==
    ASSUME TypeOK, NEW v \in Users, NEW r \in Requests, Send(v, r)
    PROVE  /\ call' \in [Users -> Requests \cup {None}]
           /\ reply' \in [Users -> Refusals \cup {"ok", "raced", "pending"}]
           /\ net' \subseteq Requests
BY DEF TypeOK, Send

LEMMA AnswerType ==
    ASSUME TypeOK, NEW r, NEW status \in Refusals \cup {"ok", "raced", "pending"},
           Answer(r, status)
    PROVE  /\ reply' \in [Users -> Refusals \cup {"ok", "raced", "pending"}]
           /\ net' \subseteq Requests
BY DEF TypeOK, Answer

LEMMA TrackType ==
    ASSUME TypeOK, NEW v \in Users, NEW o \in Orders, NEW p \in Orders \cup {None},
           Track(v, o, p)
    PROVE  /\ open' \in [Users -> Seq(Orders)]
           /\ \A u \in Users : Len(open'[u]) <= OpenOrders
           /\ links' \in [Users -> SUBSET (Orders \X Orders)]
<1>1. CASE o \in Tracked(v)
  BY <1>1 DEF Track, TypeOK
<1>2. CASE o \notin Tracked(v)
  <2> DEFINE longer == Append(open[v], o)
             kept == LastOf(longer, OpenOrders)
             known == links[v] \cup ({p} \ {None}) \X {o}
  <2>1. longer \in Seq(Orders)
    BY TrackedAreOrders, AppendProperties
  <2>2. kept \in Seq(Orders) /\ Len(kept) <= OpenOrders
    BY <2>1, LastOfProperties, OrderLoadAssumption
  <2>3. known \in SUBSET (Orders \X Orders)
    BY DEF TypeOK
  <2>4. /\ open' = [open EXCEPT ![v] = kept]
        /\ links' \in [Users -> SUBSET (Orders \X Orders)]
    <3>1. PICK evicted : links' = [links EXCEPT ![v] = {l \in known : l[1] \notin evicted}]
      BY <1>2 DEF Track
    <3>2. {l \in known : l[1] \notin evicted} \in SUBSET (Orders \X Orders)
      BY <2>3
    <3> HIDE DEF known
    <3> QED
      BY <1>2, <3>1, <3>2 DEF Track, TypeOK
  <2> HIDE DEF kept
  <2> QED
    BY <2>2, <2>4 DEF TypeOK
<1> QED
  BY <1>1, <1>2

LEMMA ForgetType ==
    ASSUME TypeOK, NEW v \in Users, NEW root, Forget(v, root)
    PROVE  /\ open' \in [Users -> Seq(Orders)]
           /\ \A u \in Users : Len(open'[u]) <= OpenOrders
           /\ links' \in [Users -> SUBSET (Orders \X Orders)]
<1> DEFINE gone == Subtree(v, root)
           rest == Without(open[v], gone)
           left == {l \in links[v] : l[1] \notin gone}
<1>1. rest \in Seq(Orders) /\ Len(rest) <= Len(open[v])
  BY TrackedAreOrders, WithoutFilters DEF Filtered
<1>2. Len(rest) <= OpenOrders
  BY <1>1, TrackedAreOrders, LenProperties, OrderLoadAssumption DEF TypeOK
<1>3. left \in SUBSET (Orders \X Orders)
  BY DEF TypeOK
<1>4. open' = [open EXCEPT ![v] = rest] /\ links' = [links EXCEPT ![v] = left]
  BY DEF Forget
<1> HIDE DEF rest, left
<1> QED
  BY <1>1, <1>2, <1>3, <1>4 DEF TypeOK

LEMMA TokensAreTokens ==
    ASSUME TypeOK, NEW v \in Users, NEW p \in ParentsFor(v), NEW t \in TokensFor(p)
    PROVE  t \in Tokens
<1>1. options.tokens \subseteq Tokens
  BY OrderLoadAssumption DEF TypeOK, Options
<1>2. p \in Orders \cup {None}
  BY TrackedAreOrders DEF ParentsFor
<1> QED
  BY <1>1, <1>2, TrackedAreOrders DEF TokensFor

LEMMA TypeSubmitFresh ==
    ASSUME TypeOK, NEW v \in Users, SubmitFresh(v)
    PROVE  TypeOK'
<1>1. PICK p \in ParentsFor(v) : \E t \in TokensFor(p) : Submit(v, t, nextKey, p)
  BY DEF SubmitFresh
<1>2. PICK t \in TokensFor(p) : Submit(v, t, nextKey, p)
  BY <1>1
<1>3. p \in Orders \cup {None} /\ t \in Tokens /\ nextKey \in Keys
  BY TokensAreTokens, TrackedAreOrders, OrderLoadAssumption
     DEF ParentsFor, SubmitFresh, TypeOK, Keys
<1>4. /\ call' \in [Users -> Requests \cup {None}]
      /\ reply' \in [Users -> Refusals \cup {"ok", "raced", "pending"}]
      /\ net' \subseteq Requests
  BY <1>2, <1>3, CreateIsRequest, SendType DEF Submit
<1>5. /\ usedKeys' \in [Users -> Seq(Keys)]
      /\ \A u \in Users : Len(usedKeys'[u]) <= ReplayableKeys
  <2> DEFINE kept == LastOf(Append(usedKeys[v], nextKey), ReplayableKeys)
  <2>1. Append(usedKeys[v], nextKey) \in Seq(Keys)
    BY <1>3, AppendProperties DEF TypeOK
  <2>2. kept \in Seq(Keys) /\ Len(kept) <= ReplayableKeys
    BY <2>1, LastOfProperties, OrderLoadAssumption
  <2>3. usedKeys' = usedKeys \/ usedKeys' = [usedKeys EXCEPT ![v] = kept]
    BY DEF SubmitFresh
  <2> HIDE DEF kept
  <2> QED
    BY <2>2, <2>3 DEF TypeOK
<1>6. pc' \in [Users -> {"idle", "submitted", "cancelled"}] /\ lastToken' \in [Users -> Tokens]
  BY <1>2, <1>3 DEF Submit, TypeOK
<1>7. nextKey' \in 1..(MaxKeys + 1)
  BY <1>3, OrderLoadAssumption DEF SubmitFresh, Keys
<1> QED
  BY <1>4, <1>5, <1>6, <1>7 DEF SubmitFresh, TypeOK, server, run

LEMMA TypeSubmitReplay ==
    ASSUME TypeOK, NEW v \in Users, SubmitReplay(v)
    PROVE  TypeOK'
<1>1. PICK p \in ParentsFor(v), i \in DOMAIN usedKeys[v] :
          /\ \E t \in TokensFor(p) : Submit(v, t, usedKeys[v][i], p)
          /\ resent' = resent \cup {usedKeys[v][i]}
  BY DEF SubmitReplay
<1>2. PICK t \in TokensFor(p) : Submit(v, t, usedKeys[v][i], p)
  BY <1>1
<1>3. p \in Orders \cup {None} /\ t \in Tokens /\ usedKeys[v][i] \in Keys
  BY TokensAreTokens, TrackedAreOrders, OrderLoadAssumption, ElementOfSeq, LenProperties
     DEF ParentsFor, TypeOK
<1>4. /\ call' \in [Users -> Requests \cup {None}]
      /\ reply' \in [Users -> Refusals \cup {"ok", "raced", "pending"}]
      /\ net' \subseteq Requests
  BY <1>2, <1>3, CreateIsRequest, SendType DEF Submit
<1>5. pc' \in [Users -> {"idle", "submitted", "cancelled"}] /\ lastToken' \in [Users -> Tokens]
  BY <1>2, <1>3 DEF Submit, TypeOK
<1>6. resent' \subseteq Keys
  BY <1>1, <1>3 DEF TypeOK
<1> QED
  BY <1>4, <1>5, <1>6 DEF SubmitReplay, TypeOK, server, run

LEMMA TypeSendCancel ==
    ASSUME TypeOK, NEW v \in Users, SendCancel(v)
    PROVE  TypeOK'
<1> DEFINE r == [user |-> v, kind |-> "cancel", token |-> Desk(Head(open[v])),
                 order |-> Head(open[v])]
<1>1. Head(open[v]) \in Orders
  BY HeadTailProperties DEF SendCancel, TypeOK
<1>2. r \in Requests
  BY <1>1 DEF Requests, Orders, Desk
<1>3. Send(v, r)
  BY DEF SendCancel
<1> HIDE DEF r
<1>4. /\ call' \in [Users -> Requests \cup {None}]
      /\ reply' \in [Users -> Refusals \cup {"ok", "raced", "pending"}]
      /\ net' \subseteq Requests
  BY <1>2, <1>3, SendType
<1>5. pc' \in [Users -> {"idle", "submitted", "cancelled"}]
  BY DEF SendCancel, TypeOK
<1> QED
  BY <1>4, <1>5 DEF SendCancel, TypeOK, server, run

LEMMA TypeSendCancelAll ==
    ASSUME TypeOK, NEW v \in Users, SendCancelAll(v)
    PROVE  TypeOK'
<1> DEFINE r == [user |-> v, kind |-> "cancelAll", token |-> lastToken[v]]
<1>1. r \in Requests
  BY DEF Requests, TypeOK
<1>2. Send(v, r)
  BY DEF SendCancelAll
<1> HIDE DEF r
<1>3. /\ call' \in [Users -> Requests \cup {None}]
      /\ reply' \in [Users -> Refusals \cup {"ok", "raced", "pending"}]
      /\ net' \subseteq Requests
  BY <1>1, <1>2, SendType
<1>4. pc' \in [Users -> {"idle", "submitted", "cancelled"}]
  BY DEF SendCancelAll, TypeOK
<1> QED
  BY <1>3, <1>4 DEF SendCancelAll, TypeOK, server, run

\* A request of the network is handled, refused or lost.
LEMMA TypeServiceStep ==
    ASSUME TypeOK, NEW r \in net, ServiceStep(r)
    PROVE  TypeOK'
<1> USE DEF server, run
<1>1. r \in Requests
  BY DEF TypeOK
<1> DEFINE Served(status) == status \in Refusals \cup {"ok", "raced", "pending"}
                               /\ Answer(r, status)
<1>2. ASSUME NEW status, Served(status),
             life' \in [Orders -> {"none", "live", "pending", "done"}],
             up' \in [Orders -> Orders \cup {None}],
             recorded' \in [Orders -> {"none", "ok"} \cup Refusals]
      PROVE  TypeOK'
  <2>1. /\ reply' \in [Users -> Refusals \cup {"ok", "raced", "pending"}]
        /\ net' \subseteq Requests
    BY <1>2, AnswerType
  <2> QED
    BY <1>2, <2>1 DEF Answer, TypeOK
<1>3. CASE Accept(r)
  <2>1. Named(r) \in Orders /\ r.parent \in Orders \cup {None}
    BY <1>1, <1>3, RequestFields DEF Accept, Creates
  <2>2. Served("ok")
    BY <1>3 DEF Accept
  <2> HIDE DEF Served
  <2> QED
    BY <1>2, <1>3, <2>1, <2>2 DEF Accept, TypeOK
<1>4. CASE Refuse(r)
  <2>1. Named(r) \in Orders
    BY <1>1, <1>4, RequestFields DEF Refuse, Creates
  <2>2. PICK why \in Refusals : recorded' = [recorded EXCEPT ![Named(r)] = why] /\ Answer(r, why)
    BY <1>4 DEF Refuse, ParentRefusal, Refusals
  <2>3. Served(why)
    BY <2>2
  <2>4. recorded' \in [Orders -> {"none", "ok"} \cup Refusals] /\ UNCHANGED <<life, up>>
    BY <1>4, <2>1, <2>2 DEF Refuse, TypeOK
  <2> HIDE DEF Served
  <2> QED
    BY <1>2, <2>3, <2>4 DEF TypeOK
<1>5. CASE AnswerFromRecord(r)
  <2>1. Named(r) \in Orders
    BY <1>1, <1>5, RequestFields DEF AnswerFromRecord, Creates
  <2>2. Served(recorded[Named(r)])
    BY <1>5, <2>1 DEF AnswerFromRecord, TypeOK
  <2> HIDE DEF Served
  <2> QED
    BY <1>2, <1>5, <2>2 DEF AnswerFromRecord, TypeOK
<1>6. CASE HandleCancel(r)
  <2>1. Served("ok") \/ Served("raced")
    BY <1>6 DEF HandleCancel
  <2>2. life' \in [Orders -> {"none", "live", "pending", "done"}]
    BY <1>6 DEF HandleCancel, TypeOK
  <2> HIDE DEF Served
  <2> QED
    BY <1>2, <1>6, <2>1, <2>2 DEF HandleCancel, TypeOK
<1>7. CASE HandleCancelAll(r)
  <2>1. Served("ok")
    BY <1>7 DEF HandleCancelAll
  <2>2. life' \in [Orders -> {"none", "live", "pending", "done"}]
    BY <1>7 DEF HandleCancelAll, TypeOK
  <2> HIDE DEF Served
  <2> QED
    BY <1>2, <1>7, <2>1, <2>2 DEF HandleCancelAll, TypeOK
<1>8. CASE RefuseExpired(r)
  <2>1. Served("expired")
    BY <1>8 DEF RefuseExpired, Refusals
  <2> HIDE DEF Served
  <2> QED
    BY <1>2, <1>8, <2>1 DEF RefuseExpired, TypeOK
<1>9. CASE Lose(r)
  BY <1>9 DEF Lose, TypeOK, generator
<1> QED
  BY <1>3, <1>4, <1>5, <1>6, <1>7, <1>8, <1>9 DEF ServiceStep

\* A user receives an answer, or stops waiting for it.
LEMMA TypeReceived ==
    ASSUME TypeOK, NEW v \in Users, NEW kind, Received(v, kind)
    PROVE  /\ call' \in [Users -> Requests \cup {None}]
           /\ reply' \in [Users -> Refusals \cup {"ok", "raced", "pending"}]
           /\ timeouts' \in 0..MaxTimeouts
           /\ call[v] \in Requests
           /\ UNCHANGED <<usedKeys, lastToken, resent, server, run, nextKey, net, expired>>
BY OrderLoadAssumption DEF Received, TypeOK, Waiting

LEMMA TypeAnswered ==
    ASSUME TypeOK, NEW v \in Users,
           SubmitAnswered(v) \/ SubmitFailed(v) \/ CancelAnswered(v) \/ CancelAllAnswered(v)
    PROVE  TypeOK'
<1> USE DEF server, run
<1>1. CASE SubmitAnswered(v)
  <2>1. Received(v, "create") /\ call[v].kind = "create"
    BY <1>1 DEF SubmitAnswered, Received
  <2>2. Named(call[v]) \in Orders /\ call[v].parent \in Orders \cup {None}
    BY <2>1, TypeReceived, RequestFields
  <2>3. /\ open' \in [Users -> Seq(Orders)]
        /\ \A u \in Users : Len(open'[u]) <= OpenOrders
        /\ links' \in [Users -> SUBSET (Orders \X Orders)]
    <3>1. CASE UNCHANGED <<open, links>>
      BY <3>1 DEF TypeOK
    <3>2. CASE Track(v, Named(call[v]), call[v].parent)
      BY <3>2, <2>2, TrackType
    <3> QED
      BY <1>1, <3>1, <3>2 DEF SubmitAnswered
  <2>4. guard' \subseteq Refusals /\ pc' \in [Users -> {"idle", "submitted", "cancelled"}]
    BY <1>1 DEF SubmitAnswered, TypeOK
  <2> QED
    BY <1>1, <2>1, <2>3, <2>4, TypeReceived DEF SubmitAnswered, TypeOK
<1>2. CASE SubmitFailed(v)
  <2>1. Received(v, "create")
    BY <1>2 DEF SubmitFailed
  <2> QED
    BY <1>2, <2>1, TypeReceived DEF SubmitFailed, TypeOK
<1>3. CASE CancelAnswered(v)
  <2>1. Received(v, "cancel") /\ call[v].kind = "cancel"
    BY <1>3 DEF CancelAnswered, Received
  <2>2. call[v].order \in Orders
    BY <2>1, TypeReceived, RequestFields
  <2>3. /\ open' \in [Users -> Seq(Orders)]
        /\ \A u \in Users : Len(open'[u]) <= OpenOrders
        /\ links' \in [Users -> SUBSET (Orders \X Orders)]
    BY <1>3, ForgetType DEF CancelAnswered
  <2>4. guard' \subseteq Refusals /\ asked' \in [Users -> SUBSET Orders]
    BY <1>3, <2>2 DEF CancelAnswered, CancelRefusal, TypeOK
  <2> QED
    BY <1>3, <2>1, <2>3, <2>4, TypeReceived DEF CancelAnswered, TypeOK
<1>4. CASE CancelAllAnswered(v)
  <2>1. Received(v, "cancelAll")
    BY <1>4 DEF CancelAllAnswered
  <2>2. <<>> \in Seq(Orders) /\ Len(<<>>) = 0
    OBVIOUS
  <2>3. /\ open' \in [Users -> Seq(Orders)]
        /\ \A u \in Users : Len(open'[u]) <= OpenOrders
        /\ links' \in [Users -> SUBSET (Orders \X Orders)]
    BY <1>4, <2>2, OrderLoadAssumption DEF CancelAllAnswered, TypeOK
  <2>4. guard' \subseteq Refusals
    BY <1>4 DEF CancelAllAnswered, CancelRefusal, TypeOK
  <2> QED
    BY <1>4, <2>1, <2>3, <2>4, TypeReceived DEF CancelAllAnswered, TypeOK
<1> QED
  BY <1>1, <1>2, <1>3, <1>4

LEMMA TypeInit == Init => TypeOK
<1>1. <<>> \in Seq(Orders) /\ <<>> \in Seq(Keys) /\ Len(<<>>) = 0
  OBVIOUS
<1>2. Init => options \in Profiles /\ shortLived \subseteq Tokens
  BY OrderLoadAssumption DEF Init, Options
<1> QED
  BY <1>1, <1>2, OrderLoadAssumption DEF Init, TypeOK

LEMMA TypeStep == TypeOK /\ [Next]_vars => TypeOK'
<1> SUFFICES ASSUME TypeOK, [Next]_vars PROVE TypeOK'
  OBVIOUS
<1> USE DEF generator, server, run
<1>1. CASE Setup \/ RefuseToRun
  BY <1>1 DEF Setup, RefuseToRun, TypeOK
<1>2. ASSUME NEW v \in Users, UserStep(v) PROVE TypeOK'
  BY <1>2, TypeSubmitFresh, TypeSubmitReplay, TypeSendCancel, TypeSendCancelAll,
     TypeAnswered DEF UserStep
<1>3. ASSUME NEW r \in net, ServiceStep(r) PROVE TypeOK'
  BY <1>3, TypeServiceStep
<1>4. ASSUME NEW t \in Tokens, Expire(t) PROVE TypeOK'
  BY <1>4 DEF Expire, TypeOK
<1>5. ASSUME NEW o \in Orders, End(o) PROVE TypeOK'
  BY <1>5 DEF End, TypeOK
<1>6. CASE UNCHANGED vars
  BY <1>6 DEF vars, TypeOK
<1> QED
  BY <1>1, <1>2, <1>3, <1>4, <1>5, <1>6 DEF Next

\* The variables of the load generator and of the service have their types, and a
\* user tracks no more than OPEN_ORDERS orders and remembers no more keys than
\* REPLAYABLE_KEYS.
THEOREM TypeCorrect == Spec => []TypeOK
BY TypeInit, TypeStep, PTL DEF Spec

----------------------------------------------------------------------------
(* What a step leaves alone.                                               *)

\* The requests on their way to the service or awaited by a user.
Sent == net \cup {call[v] : v \in {u \in Users : Waiting(u)}}
Creating(v)   == Waiting(v) /\ call[v].kind = "create"
Cancelling(v) == Waiting(v) /\ call[v].kind = "cancel"

\* Everything else than a step of a user or of the service.
OtherStep ==
    \/ Setup \/ RefuseToRun
    \/ \E t \in Tokens : Expire(t)
    \/ \E o \in Orders : End(o)
    \/ UNCHANGED vars

LEMMA StepKinds ==
    ASSUME [Next]_vars
    PROVE  \/ \E v \in Users : UserStep(v)
           \/ \E r \in net : ServiceStep(r)
           \/ OtherStep
BY DEF Next, OtherStep

LEMMA ServiceFrame ==
    ASSUME NEW r \in net, ServiceStep(r)
    PROVE  /\ net' = net \ {r} /\ Sent' \subseteq Sent
           /\ UNCHANGED <<open, links, usedKeys, call, pc, lastToken, asked, resent, options,
                          phase, nextKey, guard>>
<1>1. /\ net' = net \ {r}
      /\ UNCHANGED <<open, links, usedKeys, call, pc, lastToken, asked, resent, options,
                     phase, nextKey, guard>>
  <2>1. ASSUME NEW status, Answer(r, status)
        PROVE  /\ net' = net \ {r}
               /\ UNCHANGED <<open, links, usedKeys, call, pc, lastToken, asked, resent,
                              options, phase, nextKey, guard>>
    BY <2>1 DEF Answer, run
  <2>2. CASE Lose(r)
    BY <2>2 DEF Lose, generator, run
  <2>3. CASE Refuse(r)
    <3>1. \E status : Answer(r, status)
      BY <2>3 DEF Refuse
    <3> QED
      BY <2>1, <3>1
  <2>4. CASE HandleCancel(r)
    <3>1. \E status : Answer(r, status)
      BY <2>4 DEF HandleCancel
    <3> QED
      BY <2>1, <3>1
  <2>5. CASE Accept(r) \/ AnswerFromRecord(r) \/ HandleCancelAll(r) \/ RefuseExpired(r)
    <3>1. \E status : Answer(r, status)
      BY <2>5 DEF Accept, AnswerFromRecord, HandleCancelAll, RefuseExpired
    <3> QED
      BY <2>1, <3>1
  <2> QED
    BY <2>2, <2>3, <2>4, <2>5 DEF ServiceStep
<1> QED
  BY <1>1 DEF Sent, Waiting

LEMMA OtherFrame ==
    ASSUME OtherStep
    PROVE  /\ UNCHANGED <<generator, net, options, nextKey, guard, up, recorded>>
           /\ Sent' = Sent
<1>1. UNCHANGED <<generator, net, options, nextKey, guard, up, recorded>>
  BY DEF OtherStep, Setup, RefuseToRun, Expire, End, vars, server, run
<1> QED
  BY <1>1 DEF generator, Sent, Waiting

\* A user's step that sends r, and one that ends the wait for an answer.
LEMMA SendFrame ==
    ASSUME TypeOK, NEW v \in Users, NEW r, Send(v, r)
    PROVE  /\ net' = net \cup {r} /\ call'[v] = r /\ reply'[v] = "pending"
           /\ \A u \in Users \ {v} : call'[u] = call[u] /\ reply'[u] = reply[u]
           /\ Sent' \subseteq Sent \cup {r}
<1>1. /\ net' = net \cup {r} /\ call'[v] = r /\ reply'[v] = "pending"
      /\ \A u \in Users \ {v} : call'[u] = call[u] /\ reply'[u] = reply[u]
  BY DEF Send, TypeOK
<1>2. \A u \in Users : Waiting(u)' => call'[u] \in Sent \cup {r}
  BY <1>1 DEF Sent, Waiting
<1> QED
  BY <1>1, <1>2 DEF Sent

LEMMA ReceivedFrame ==
    ASSUME TypeOK, NEW v \in Users, NEW kind, Received(v, kind)
    PROVE  /\ Waiting(v) /\ call[v].kind = kind /\ ~Waiting(v)' /\ reply'[v] = "pending"
           /\ \A u \in Users \ {v} : call'[u] = call[u] /\ reply'[u] = reply[u]
           /\ UNCHANGED <<usedKeys, lastToken, resent, server, run, nextKey, net, expired>>
           /\ Sent' \subseteq Sent
<1>1. /\ Waiting(v) /\ call[v].kind = kind /\ call'[v] = None /\ reply'[v] = "pending"
      /\ \A u \in Users \ {v} : call'[u] = call[u] /\ reply'[u] = reply[u]
      /\ UNCHANGED <<usedKeys, lastToken, resent, server, run, nextKey, net, expired>>
  BY DEF Received, TypeOK
<1>2. \A u \in Users : Waiting(u)' => call'[u] \in Sent
  BY <1>1 DEF Sent, Waiting
<1> QED
  BY <1>1, <1>2 DEF Sent, Waiting

\* A submit, with a fresh key or a key of the user's own.
LEMMA SubmitPicked ==
    ASSUME NEW v \in Users, SubmitFresh(v) \/ SubmitReplay(v)
    PROVE  \E p, t, k :
               /\ p \in ParentsFor(v) /\ t \in TokensFor(p) /\ Submit(v, t, k, p)
               /\ SubmitFresh(v) => k = nextKey /\ nextKey' = nextKey + 1 /\ resent' = resent
               /\ ~SubmitFresh(v) =>
                      /\ nextKey' = nextKey /\ resent' = resent \cup {k}
                      /\ \E i \in DOMAIN usedKeys[v] : k = usedKeys[v][i]
BY DEF SubmitFresh, SubmitReplay

----------------------------------------------------------------------------
(* Parents and desks.                                                      *)

\* A parent is named by runs with children only and is of the desk the child goes to, so
\* that nothing the service answers says it is of another.
OneDesk ==
    /\ \A r \in Sent : r.kind = "create" /\ r.parent # None =>
           options.children /\ Desk(r.parent) = r.token
    /\ \A o \in Orders : recorded[o] # "otherDesk"
    /\ \A v \in Users : reply[v] # "otherDesk"
    /\ "otherDesk" \notin guard

LEMMA OneDeskStep ==
    ASSUME TypeOK, OneDesk, [Next]_vars
    PROVE  OneDesk'
<1>1. ASSUME NEW v \in Users, SubmitFresh(v) \/ SubmitReplay(v) PROVE OneDesk'
  <2>1. PICK p, t, k : p \in ParentsFor(v) /\ t \in TokensFor(p) /\ Submit(v, t, k, p)
    BY <1>1, SubmitPicked
  <2> DEFINE r == Create(v, t, k, p)
  <2>2. Send(v, r) /\ r.parent = p /\ r.token = t
    BY <2>1 DEF Submit, Create
  <2> HIDE DEF r
  <2>3. /\ Sent' \subseteq Sent \cup {r} /\ reply'[v] = "pending"
        /\ \A u \in Users \ {v} : reply'[u] = reply[u]
    BY <2>2, SendFrame
  <2>4. p # None => options.children /\ Desk(p) = t
    BY <2>1 DEF ParentsFor, TokensFor
  <2>5. UNCHANGED <<options, recorded, guard>>
    BY <1>1 DEF SubmitFresh, SubmitReplay, server, run
  <2> QED
    BY <2>2, <2>3, <2>4, <2>5 DEF OneDesk
<1>2. ASSUME NEW v \in Users, SendCancel(v) \/ SendCancelAll(v) PROVE OneDesk'
  <2>1. PICK r : Send(v, r) /\ r.kind # "create"
    BY <1>2 DEF SendCancel, SendCancelAll
  <2>2. /\ Sent' \subseteq Sent \cup {r} /\ reply'[v] = "pending"
        /\ \A u \in Users \ {v} : reply'[u] = reply[u]
    BY <2>1, SendFrame
  <2>3. UNCHANGED <<options, recorded, guard>>
    BY <1>2 DEF SendCancel, SendCancelAll, server, run
  <2> QED
    BY <2>1, <2>2, <2>3 DEF OneDesk
<1>3. ASSUME NEW v \in Users,
             SubmitAnswered(v) \/ SubmitFailed(v) \/ CancelAnswered(v) \/ CancelAllAnswered(v)
      PROVE  OneDesk'
  <2>1. \E kind : Received(v, kind)
    BY <1>3 DEF SubmitAnswered, SubmitFailed, CancelAnswered, CancelAllAnswered
  <2>2. /\ Sent' \subseteq Sent /\ reply'[v] = "pending" /\ UNCHANGED <<server, run>>
        /\ \A u \in Users \ {v} : reply'[u] = reply[u]
    BY <2>1, ReceivedFrame
  <2>3. guard' \subseteq guard \cup {reply[v]}
    BY <1>3 DEF SubmitAnswered, SubmitFailed, CancelAnswered, CancelAllAnswered, CancelRefusal
  <2> QED
    BY <2>2, <2>3 DEF OneDesk, server, run
<1>4. ASSUME NEW r \in net, ServiceStep(r) PROVE OneDesk'
  <2> SUFFICES /\ \A o \in Orders : recorded'[o] # "otherDesk"
               /\ \A v \in Users : reply'[v] # "otherDesk"
    BY <1>4, ServiceFrame DEF OneDesk
  <2>1. /\ r \in Requests /\ r \in Sent
        /\ r.kind = "create" /\ r.parent # None => Desk(r.parent) = r.token
    BY DEF TypeOK, Sent, OneDesk
  <2>2. ASSUME NEW status, status # "otherDesk", Answer(r, status)
        PROVE  \A v \in Users : reply'[v] # "otherDesk"
    BY <2>2 DEF Answer, OneDesk, TypeOK
  <2>3. CASE Accept(r)
    BY <2>2, <2>3 DEF Accept, OneDesk, TypeOK
  <2>4. CASE Refuse(r)
    <3>1. ParentRefusal(r.token, r.parent) # "otherDesk"
      BY <2>1, <2>4 DEF Refuse, Creates, ParentRefusal
    <3>2. PICK why : /\ recorded' = [recorded EXCEPT ![Named(r)] = why] /\ Answer(r, why)
                     /\ why # "otherDesk"
      <4>1. CASE ParentRefusal(r.token, r.parent) = "none"
        BY <2>4, <4>1 DEF Refuse
      <4>2. CASE ParentRefusal(r.token, r.parent) # "none"
        BY <2>4, <3>1, <4>2 DEF Refuse
      <4> QED
        BY <4>1, <4>2
    <3> QED
      BY <2>2, <3>2 DEF OneDesk, TypeOK
  <2>5. CASE AnswerFromRecord(r)
    <3>1. Named(r) \in Orders
      BY <2>1, <2>5, RequestFields DEF AnswerFromRecord, Creates
    <3> QED
      BY <2>2, <2>5, <3>1 DEF AnswerFromRecord, OneDesk, server
  <2>6. CASE HandleCancel(r)
    <3>1. Answer(r, "ok") \/ Answer(r, "raced")
      BY <2>6 DEF HandleCancel
    <3> QED
      BY <2>2, <2>6, <3>1 DEF HandleCancel, OneDesk
  <2>7. CASE HandleCancelAll(r) \/ RefuseExpired(r)
    BY <2>2, <2>7 DEF HandleCancelAll, RefuseExpired, OneDesk, server
  <2>8. CASE Lose(r)
    BY <2>8 DEF Lose, OneDesk, server, generator
  <2> QED
    BY <1>4, <2>3, <2>4, <2>5, <2>6, <2>7, <2>8 DEF ServiceStep
<1>5. CASE OtherStep
  BY <1>5, OtherFrame DEF OneDesk, generator
<1> QED
  BY <1>1, <1>2, <1>3, <1>4, <1>5, StepKinds DEF UserStep

\* A child is sent to the desk of its parent.
THEOREM OneDeskHolds == Spec => []OneDesk
<1>1. Init => OneDesk
  BY DEF Init, OneDesk, Sent, Waiting
<1>2. TypeOK /\ OneDesk /\ [Next]_vars => OneDesk'
  BY OneDeskStep
<1> QED
  BY <1>1, <1>2, TypeCorrect, PTL DEF Spec

----------------------------------------------------------------------------
(* Keys, calls and requests.                                               *)

\* A user waits for a request of its own, which is on its way while no answer is back.
CallsInFlight ==
    \A v \in Users : Waiting(v) =>
        /\ call[v].user = v
        /\ reply[v] = "pending" => call[v] \in net

\* What a user tracks is ordered by the keys of the orders.
OldestFirst(v) ==
    \A i, j \in DOMAIN open[v] : i < j => open[v][i][2] < open[v][j][2]

\* No order stands twice in what a user tracks.
Distinct(v) == \A i, j \in DOMAIN open[v] : open[v][i] = open[v][j] => i = j

\* Track appends the order and evicts the oldest ones, with what is entered under them.
LEMMA TrackEffect ==
    ASSUME TypeOK, NEW v \in Users, NEW o \in Orders, NEW p \in Orders \cup {None},
           Track(v, o, p), o \notin Tracked(v), Distinct(v)
    PROVE  /\ \E evicted \in SUBSET Tracked(v) :
                  /\ Tracked(v)' = (Tracked(v) \cup {o}) \ evicted
                  /\ links'[v] = {l \in links[v] \cup ({p} \ {None}) \X {o} : l[1] \notin evicted}
                  /\ (OldestFirst(v) /\ \A t \in Tracked(v) : t[2] < o[2])
                         => \A e \in evicted, t \in Tracked(v)' : e[2] < t[2]
           /\ Distinct(v)'
           /\ (OldestFirst(v) /\ \A t \in Tracked(v) : t[2] < o[2]) => OldestFirst(v)'
           /\ \A u \in Users \ {v} : open'[u] = open[u] /\ links'[u] = links[u]
<1> DEFINE longer == Append(open[v], o)
           kept == LastOf(longer, OpenOrders)
           d == Len(longer) - Len(kept)
           evicted == {longer[i] : i \in 1..d}
           known == links[v] \cup ({p} \ {None}) \X {o}
<1>1. /\ longer \in Seq(Orders) /\ Len(longer) = Len(open[v]) + 1 /\ Len(open[v]) \in Nat
      /\ longer[Len(longer)] = o /\ longer # <<>>
      /\ \A i \in 1..Len(open[v]) : longer[i] = open[v][i]
  BY TrackedAreOrders, AppendProperties
<1>2. /\ kept \in Seq(Orders) /\ Len(kept) <= Len(longer) /\ Len(kept) > 0
      /\ \A i \in 1..Len(kept) : kept[i] = longer[i + (Len(longer) - Len(kept))]
  <2>1. OpenOrders \in Nat /\ OpenOrders > 0
    BY OrderLoadAssumption
  <2> HIDE DEF longer
  <2> QED
    BY <1>1, <2>1, LastOfProperties
<1>3. Len(kept) \in Nat /\ DOMAIN kept = 1..Len(kept) /\ d \in 0..Len(open[v])
  <2> HIDE DEF longer, kept
  <2> QED
    BY <1>1, <1>2, LenProperties
<1>4. /\ open' = [open EXCEPT ![v] = kept]
      /\ links' = [links EXCEPT ![v] = {l \in known : l[1] \notin evicted}]
  BY DEF Track
<1> HIDE DEF longer, kept, known
<1>5. /\ open'[v] = kept /\ links'[v] = {l \in known : l[1] \notin evicted}
      /\ \A u \in Users \ {v} : open'[u] = open[u] /\ links'[u] = links[u]
  BY <1>4 DEF TypeOK
<1>6. /\ Tracked(v) = {longer[i] : i \in 1..Len(open[v])}
      /\ DOMAIN open[v] = 1..Len(open[v])
  BY <1>1, TrackedAreOrders DEF Tracked
<1>7. Tracked(v)' = {longer[i] : i \in (d + 1)..Len(longer)}
  <2>1. Tracked(v)' = {kept[i] : i \in 1..Len(kept)}
    BY <1>3, <1>5 DEF Tracked
  <2>2. \A i \in 1..Len(kept) : i + d \in (d + 1)..Len(longer) /\ kept[i] = longer[i + d]
    BY <1>1, <1>2, <1>3
  <2>3. \A j \in (d + 1)..Len(longer) :
            j - d \in 1..Len(kept) /\ kept[j - d] = longer[j]
    <3> SUFFICES ASSUME NEW j \in (d + 1)..Len(longer)
                 PROVE  j - d \in 1..Len(kept) /\ kept[j - d] = longer[j]
      OBVIOUS
    <3>1. Len(longer) \in Nat /\ Len(kept) \in Nat /\ d \in Int /\ j \in Int
          /\ d = Len(longer) - Len(kept) /\ d + 1 <= j /\ j <= Len(longer)
      BY <1>1, <1>3
    <3> HIDE DEF d
    <3>2. j - d \in 1..Len(kept) /\ (j - d) + d = j
      BY <3>1
    <3> QED
      BY <3>2, <2>2 DEF d
  <2> HIDE DEF d
  <2> QED
    BY <2>1, <2>2, <2>3
<1> DEFINE newest == OldestFirst(v) /\ \A t \in Tracked(v) : t[2] < o[2]
<1>8. newest => \A i, j \in 1..Len(longer) : i < j => longer[i][2] < longer[j][2]
  <2> SUFFICES ASSUME newest, NEW i \in 1..Len(longer), NEW j \in 1..Len(longer), i < j
               PROVE  longer[i][2] < longer[j][2]
    OBVIOUS
  <2>1. i \in 1..Len(open[v]) /\ longer[i] = open[v][i] /\ longer[i] \in Tracked(v)
    BY <1>1, <1>6
  <2>2. CASE j = Len(longer)
    BY <1>1, <2>1, <2>2
  <2>3. CASE j \in 1..Len(open[v])
    BY <1>1, <1>6, <2>1, <2>3 DEF OldestFirst
  <2> QED
    BY <1>1, <2>2, <2>3
<1>9. \A i \in 1..d : i \in 1..Len(open[v]) /\ i \in 1..Len(longer)
  BY <1>1, <1>3
<1>10. evicted \in SUBSET Tracked(v)
  BY <1>6, <1>9
<1>11. newest => \A e \in evicted, t \in Tracked(v)' : e[2] < t[2]
  <2> SUFFICES ASSUME newest, NEW i \in 1..d, NEW j \in (d + 1)..Len(longer)
               PROVE  longer[i][2] < longer[j][2]
    BY <1>7
  <2>1. i \in 1..Len(longer) /\ j \in 1..Len(longer) /\ i < j
    BY <1>1, <1>3
  <2> QED
    BY <2>1, <1>8
<1>12. \A i, j \in 1..Len(longer) : longer[i] = longer[j] => i = j
  <2> SUFFICES ASSUME NEW i \in 1..Len(longer), NEW j \in 1..Len(longer),
                      longer[i] = longer[j]
               PROVE  i = j
    OBVIOUS
  <2>1. \A k \in 1..Len(longer) : k = Len(longer) \/ k \in 1..Len(open[v])
    BY <1>1
  <2>2. \A k \in 1..Len(open[v]) : longer[k] # o
    BY <1>6
  <2>3. CASE i \in 1..Len(open[v]) /\ j \in 1..Len(open[v])
    BY <1>1, <1>6, <2>3 DEF Distinct
  <2> QED
    BY <1>1, <2>1, <2>2, <2>3
<1>13. Tracked(v) \cup {o} = {longer[i] : i \in 1..Len(longer)}
  BY <1>1, <1>6
<1>14. Tracked(v)' = (Tracked(v) \cup {o}) \ evicted
  <2>1. Tracked(v)' \subseteq Tracked(v) \cup {o}
    BY <1>1, <1>3, <1>7, <1>13
  <2>2. \A t \in Tracked(v)' : t \notin evicted
    <3> SUFFICES ASSUME NEW t \in Tracked(v)', t \in evicted PROVE FALSE
      OBVIOUS
    <3>1. PICK i \in 1..d, j \in (d + 1)..Len(longer) : t = longer[i] /\ t = longer[j]
      BY <1>7
    <3>2. i \in 1..Len(longer) /\ j \in 1..Len(longer) /\ i # j
      BY <1>1, <1>3
    <3> QED
      BY <3>1, <3>2, <1>12
  <2>3. \A t \in Tracked(v) \cup {o} : t \notin evicted => t \in Tracked(v)'
    <3> SUFFICES ASSUME NEW i \in 1..Len(longer), longer[i] \notin evicted
                 PROVE  longer[i] \in Tracked(v)'
      BY <1>13
    <3>1. i \in (d + 1)..Len(longer)
      BY <1>1, <1>3
    <3> QED
      BY <3>1, <1>7
  <2> QED
    BY <2>1, <2>2, <2>3
<1>15. newest => OldestFirst(v)'
  <2> SUFFICES ASSUME newest, NEW i \in 1..Len(kept), NEW j \in 1..Len(kept), i < j
               PROVE  kept[i][2] < kept[j][2]
    BY <1>3, <1>5 DEF OldestFirst
  <2>1. /\ i + d \in 1..Len(longer) /\ j + d \in 1..Len(longer) /\ i + d < j + d
        /\ kept[i] = longer[i + d] /\ kept[j] = longer[j + d]
    BY <1>1, <1>2, <1>3
  <2> QED
    BY <2>1, <1>8
<1>16. Distinct(v)'
  <2> SUFFICES ASSUME NEW i \in 1..Len(kept), NEW j \in 1..Len(kept), kept[i] = kept[j]
               PROVE  i = j
    BY <1>3, <1>5 DEF Distinct
  <2>1. /\ i + d \in 1..Len(longer) /\ j + d \in 1..Len(longer)
        /\ longer[i + d] = longer[j + d]
    BY <1>1, <1>2, <1>3
  <2>2. i + d = j + d
    BY <2>1, <1>12
  <2> QED
    BY <1>3, <2>2
<1> HIDE DEF evicted
<1> QED
  BY <1>5, <1>10, <1>11, <1>14, <1>15, <1>16 DEF known

\* Forget removes the subtree from what the user tracks, and what is entered under it.
LEMMA ForgetEffect ==
    ASSUME TypeOK, NEW v \in Users, NEW root, Forget(v, root)
    PROVE  /\ Tracked(v)' = Tracked(v) \ Subtree(v, root)
           /\ links'[v] = {l \in links[v] : l[1] \notin Subtree(v, root)}
           /\ OldestFirst(v) => OldestFirst(v)'
           /\ Distinct(v) => Distinct(v)'
           /\ \A u \in Users \ {v} : open'[u] = open[u] /\ links'[u] = links[u]
<1> DEFINE gone == Subtree(v, root)
           s == open[v]
           rest == Without(s, gone)
<1>1. s \in Seq(Orders) /\ Len(s) \in Nat /\ DOMAIN s = 1..Len(s)
  BY TrackedAreOrders
<1>2. rest \in Seq(Orders) /\ Filtered(rest, s, gone, Len(s))
  BY <1>1, WithoutFilters
<1>3. Len(rest) \in Nat /\ DOMAIN rest = 1..Len(rest)
  BY <1>2, LenProperties
<1>4. open' = [open EXCEPT ![v] = rest]
      /\ links' = [links EXCEPT ![v] = {l \in links[v] : l[1] \notin gone}]
  BY DEF Forget
<1> HIDE DEF gone, rest
<1>5. /\ open'[v] = rest /\ links'[v] = {l \in links[v] : l[1] \notin gone}
      /\ \A u \in Users \ {v} : open'[u] = open[u] /\ links'[u] = links[u]
  BY <1>4 DEF TypeOK
<1>6. PICK at \in [1..Len(rest) -> 1..Len(s)] :
           /\ \A i \in 1..Len(rest) : rest[i] = s[at[i]] /\ s[at[i]] \notin gone
           /\ \A i, j \in 1..Len(rest) : i < j => at[i] < at[j]
  BY <1>2 DEF Filtered
<1>7. \A k \in 1..Len(s) : s[k] \notin gone => \E i \in 1..Len(rest) : rest[i] = s[k]
  BY <1>2 DEF Filtered
<1>8. Tracked(v) = {s[i] : i \in 1..Len(s)} /\ Tracked(v)' = {rest[i] : i \in 1..Len(rest)}
  BY <1>1, <1>3, <1>5 DEF Tracked
<1>9. Tracked(v)' = Tracked(v) \ gone
  <2> HIDE DEF s
  <2> QED
    BY <1>6, <1>7, <1>8
<1>10. OldestFirst(v) => OldestFirst(v)'
  <2> SUFFICES ASSUME OldestFirst(v), NEW i \in 1..Len(rest), NEW j \in 1..Len(rest), i < j
               PROVE  rest[i][2] < rest[j][2]
    BY <1>3, <1>5 DEF OldestFirst
  <2>1. at[i] \in DOMAIN s /\ at[j] \in DOMAIN s /\ at[i] < at[j]
    BY <1>1, <1>6
  <2> QED
    BY <2>1, <1>6 DEF OldestFirst
<1>11. Distinct(v) => Distinct(v)'
  <2> SUFFICES ASSUME Distinct(v), NEW i \in 1..Len(rest), NEW j \in 1..Len(rest),
                      rest[i] = rest[j]
               PROVE  i = j
    BY <1>3, <1>5 DEF Distinct
  <2>1. at[i] \in DOMAIN s /\ at[j] \in DOMAIN s /\ at[i] = at[j]
    BY <1>1, <1>6 DEF Distinct
  <2>2. ~(i < j) /\ ~(j < i)
    BY <1>1, <1>6, <2>1
  <2> QED
    BY <1>3, <2>2
<1> QED
  BY <1>5, <1>9, <1>10, <1>11 DEF gone

LEMMA CallsInFlightStep ==
    ASSUME TypeOK, CallsInFlight, [Next]_vars
    PROVE  CallsInFlight'
<1>1. ASSUME NEW v \in Users,
             SubmitFresh(v) \/ SubmitReplay(v) \/ SendCancel(v) \/ SendCancelAll(v)
      PROVE  CallsInFlight'
  <2>1. PICK r : Send(v, r) /\ r.user = v
    <3>1. CASE SubmitFresh(v) \/ SubmitReplay(v)
      <4>1. PICK p, t, k : Submit(v, t, k, p)
        BY <3>1, SubmitPicked
      <4> QED
        BY <4>1 DEF Submit, Create
    <3>2. CASE SendCancel(v) \/ SendCancelAll(v)
      BY <3>2 DEF SendCancel, SendCancelAll
    <3> QED
      BY <1>1, <3>1, <3>2
  <2>2. /\ net' = net \cup {r} /\ call'[v] = r
        /\ \A u \in Users \ {v} : call'[u] = call[u] /\ reply'[u] = reply[u]
    BY <2>1, SendFrame
  <2> QED
    BY <2>1, <2>2 DEF CallsInFlight, Waiting
<1>2. ASSUME NEW v \in Users,
             SubmitAnswered(v) \/ SubmitFailed(v) \/ CancelAnswered(v) \/ CancelAllAnswered(v)
      PROVE  CallsInFlight'
  <2>1. \E kind : Received(v, kind)
    BY <1>2 DEF SubmitAnswered, SubmitFailed, CancelAnswered, CancelAllAnswered
  <2>2. /\ ~Waiting(v)' /\ net' = net
        /\ \A u \in Users \ {v} : call'[u] = call[u] /\ reply'[u] = reply[u]
    BY <2>1, ReceivedFrame
  <2> QED
    BY <2>2 DEF CallsInFlight, Waiting
<1>3. ASSUME NEW r \in net, ServiceStep(r) PROVE CallsInFlight'
  <2>1. net' = net \ {r} /\ UNCHANGED call
    BY <1>3, ServiceFrame
  <2>2. ASSUME NEW status, status # "pending", Answer(r, status) PROVE CallsInFlight'
    <3> SUFFICES ASSUME NEW v \in Users, Waiting(v)
                 PROVE  call[v].user = v /\ (reply'[v] = "pending" => call[v] \in net \ {r})
      BY <2>1 DEF CallsInFlight, Waiting
    <3>1. call[v].user = v /\ (reply[v] = "pending" => call[v] \in net)
      BY DEF CallsInFlight
    <3>2. CASE call[v] = r
      BY <2>2, <3>1, <3>2 DEF Answer, Awaited, TypeOK
    <3>3. CASE call[v] # r
      <4>1. Awaited(r) => r.user # v
        BY <3>3 DEF Awaited
      <4>2. reply'[v] = reply[v]
        BY <2>2, <4>1 DEF Answer, TypeOK
      <4> QED
        BY <3>1, <3>3, <4>2
    <3> QED
      BY <3>2, <3>3
  <2>3. r \in Requests
    BY DEF TypeOK
  <2>4. CASE Lose(r)
    BY <2>4 DEF Lose, Awaited, CallsInFlight, Waiting, generator
  <2>5. CASE ~Lose(r)
    <3>1. \E status : status # "pending" /\ Answer(r, status)
      <4>1. CASE Refuse(r)
        <5> DEFINE why == IF ParentRefusal(r.token, r.parent) = "none"
                          THEN "business" ELSE ParentRefusal(r.token, r.parent)
        <5>1. Answer(r, why) /\ why # "pending"
          BY <4>1 DEF Refuse, ParentRefusal
        <5> QED
          BY <5>1
      <4>2. CASE AnswerFromRecord(r)
        <5>1. Named(r) \in Orders
          BY <2>3, <4>2, RequestFields DEF AnswerFromRecord, Creates
        <5>2. recorded[Named(r)] # "pending"
          BY <5>1 DEF TypeOK, Refusals
        <5> QED
          BY <4>2, <5>2 DEF AnswerFromRecord
      <4>3. CASE HandleCancel(r)
        BY <4>3 DEF HandleCancel
      <4>4. CASE Accept(r) \/ HandleCancelAll(r) \/ RefuseExpired(r)
        BY <4>4 DEF Accept, HandleCancelAll, RefuseExpired
      <4> QED
        BY <1>3, <2>5, <4>1, <4>2, <4>3, <4>4 DEF ServiceStep
    <3> QED
      BY <2>2, <3>1
  <2> QED
    BY <2>4, <2>5
<1>4. CASE OtherStep
  BY <1>4, OtherFrame DEF CallsInFlight, Waiting, generator
<1> QED
  BY <1>1, <1>2, <1>3, <1>4, StepKinds DEF UserStep

----------------------------------------------------------------------------
(* Keys that are sent once, and keys that are sent again.                  *)

\* Every key the system knows has been drawn from the counter.
KeysInUse ==
    /\ \A r \in Sent : r.kind = "create" => r.key < nextKey
    /\ \A r \in Sent : r.kind = "cancel" => r.order[2] < nextKey
    /\ \A o \in Orders : recorded[o] # "none" => o[2] < nextKey
    /\ \A v \in Users : \A o \in Tracked(v) \cup asked[v] : o[2] < nextKey
    /\ \A v \in Users : \A i \in DOMAIN usedKeys[v] : usedKeys[v][i] < nextKey

\* One create request carries a key that is not sent again, and the service handles it
\* once; only an order that was accepted is cancelled.
RequestsOnce ==
    /\ \A r, q \in Sent :
           r.kind = "create" /\ q.kind = "create" /\ r.key = q.key /\ r.key \notin resent => r = q
    /\ \A r \in net : r.kind = "create" /\ r.key \notin resent => recorded[Named(r)] = "none"
    /\ \A r \in Sent : r.kind = "cancel" => recorded[r.order] = "ok"

\* A parent is older than its child, if the key of the child is not sent again.
ParentsOlder ==
    /\ \A r \in Sent : r.kind = "create" /\ r.parent # None /\ r.key \notin resent =>
           r.parent[2] < r.key
    /\ \A o \in Orders : recorded[o] = "ok" /\ up[o] # None /\ o[2] \notin resent =>
           up[o][2] < o[2]

\* The parent of the order a user is submitting is tracked, and an accepted one is
\* recorded; if its key is not sent again it is newer than what the user tracks and has
\* asked for, and stands as it was submitted.
SubmitsFresh ==
    \A v \in Users : Creating(v) =>
        /\ reply[v] = "ok" => recorded[Named(call[v])] = "ok"
        /\ call[v].parent # None => call[v].parent \in Tracked(v)
        /\ call[v].key \notin resent =>
               /\ reply[v] = "ok" => up[Named(call[v])] = call[v].parent
               /\ \A o \in Tracked(v) \cup asked[v] : o[2] < call[v].key

\* What a user tracks and what it has entered under it stands at the service; it has
\* cancelled none of it that was not sent again; it cancels what it tracks.
TrackedStand ==
    \A v \in Users :
        /\ Distinct(v) /\ (resent = {} => OldestFirst(v))
        /\ \A o \in Tracked(v) : recorded[o] = "ok"
        /\ \A l \in links[v] : recorded[l[2]] = "ok" /\ l[1] \in Tracked(v)
        /\ \A l \in links[v] : l[2][2] \notin resent => up[l[2]] = l[1]
        /\ \A o \in Tracked(v) \cap asked[v] : o[2] \in resent
        /\ Cancelling(v) => call[v].order \in Tracked(v)

FreshKeys == KeysInUse /\ RequestsOnce /\ ParentsOlder /\ SubmitsFresh /\ TrackedStand

LEMMA AwaitedCall ==
    ASSUME TypeOK, NEW v \in Users, Waiting(v)
    PROVE  call[v] \in Sent /\ call[v] \in Requests
BY DEF TypeOK, Waiting, Sent

LEMMA SentAreRequests == ASSUME TypeOK PROVE Sent \subseteq Requests
BY AwaitedCall DEF Sent, TypeOK

LEMMA FreshInit == Init => FreshKeys
<1> SUFFICES ASSUME Init PROVE FreshKeys
  OBVIOUS
<1>1. /\ \A v \in Users : open[v] = <<>> /\ links[v] = {} /\ ~Waiting(v) /\ asked[v] = {}
      /\ \A v \in Users : usedKeys[v] = <<>>
  BY DEF Init, Waiting
<1>2. DOMAIN <<>> = {} /\ \A v \in Users : DOMAIN open[v] = {} /\ DOMAIN usedKeys[v] = {}
  BY <1>1
<1>3. \A v \in Users : Tracked(v) = {} /\ OldestFirst(v) /\ Distinct(v)
  BY <1>2 DEF Tracked, OldestFirst, Distinct
<1> QED
  BY <1>1, <1>2, <1>3
     DEF Init, FreshKeys, KeysInUse, RequestsOnce, ParentsOlder, SubmitsFresh, TrackedStand,
         Sent, Creating, Cancelling

\* A key that may be sent again has been sent.
LEMMA UsedKeysBelow ==
    ASSUME TypeOK, FreshKeys, NEW v \in Users, SubmitFresh(v) \/ SubmitReplay(v)
    PROVE  \A u \in Users : \A i \in DOMAIN usedKeys'[u] : usedKeys'[u][i] < nextKey'
<1> SUFFICES ASSUME NEW u \in Users, NEW i \in DOMAIN usedKeys'[u]
             PROVE  usedKeys'[u][i] < nextKey'
  OBVIOUS
<1>1. /\ \A w \in Users : usedKeys[w] \in Seq(Keys)
      /\ \A w \in Users : \A j \in DOMAIN usedKeys[w] :
             usedKeys[w][j] < nextKey /\ usedKeys[w][j] \in Nat
      /\ nextKey \in Nat
  BY OrderLoadAssumption, ElementOfSeq, LenProperties DEF TypeOK, Keys, FreshKeys, KeysInUse
<1>2. CASE usedKeys' = usedKeys /\ nextKey' \in {nextKey, nextKey + 1}
  BY <1>1, <1>2
<1>3. CASE SubmitFresh(v) /\ usedKeys' # usedKeys
  <2> DEFINE longer == Append(usedKeys[v], nextKey)
             kept == LastOf(longer, ReplayableKeys)
  <2>1. nextKey \in Keys /\ nextKey' = nextKey + 1 /\ usedKeys' = [usedKeys EXCEPT ![v] = kept]
    BY <1>3, OrderLoadAssumption DEF SubmitFresh, TypeOK, Keys
  <2>2. /\ longer \in Seq(Keys) /\ Len(usedKeys[v]) \in Nat
        /\ Len(longer) = Len(usedKeys[v]) + 1 /\ longer[Len(longer)] = nextKey
        /\ \A j \in 1..Len(usedKeys[v]) : longer[j] = usedKeys[v][j]
    BY <1>1, <2>1, AppendProperties, LenProperties
  <2>3. \A j \in 1..Len(longer) : longer[j] < nextKey + 1
    <3> SUFFICES ASSUME NEW j \in 1..Len(longer) PROVE longer[j] < nextKey + 1
      OBVIOUS
    <3>1. CASE j = Len(longer)
      BY <1>1, <2>2, <3>1
    <3>2. CASE j \in 1..Len(usedKeys[v])
      <4>1. usedKeys[v][j] < nextKey /\ usedKeys[v][j] \in Nat
        BY <1>1, <3>2, LenProperties
      <4> QED
        BY <1>1, <2>2, <3>2, <4>1
    <3> QED
      BY <2>2, <3>1, <3>2
  <2> HIDE DEF longer
  <2>4. /\ kept \in Seq(Keys) /\ Len(kept) <= Len(longer)
        /\ \A j \in 1..Len(kept) : kept[j] = longer[j + (Len(longer) - Len(kept))]
    BY <2>2, LastOfProperties, OrderLoadAssumption
  <2> HIDE DEF kept
  <2>5. Len(kept) \in Nat /\ DOMAIN kept = 1..Len(kept)
    BY <2>4, LenProperties
  <2>6. CASE u = v
    <3>1. usedKeys'[u] = kept
      BY <1>1, <2>1, <2>6 DEF TypeOK
    <3>2. i \in 1..Len(kept)
      BY <2>5, <3>1
    <3>3. i + (Len(longer) - Len(kept)) \in 1..Len(longer)
      BY <2>2, <2>4, <2>5, <3>2
    <3> QED
      BY <2>1, <2>3, <2>4, <3>1, <3>2, <3>3
  <2>7. CASE u # v
    <3>1. usedKeys'[u] = usedKeys[u]
      BY <2>1, <2>7 DEF TypeOK
    <3> QED
      BY <1>1, <2>1, <3>1
  <2> QED
    BY <2>6, <2>7
<1> QED
  BY <1>2, <1>3 DEF SubmitFresh, SubmitReplay

\* A submit, with a fresh key or with one that is sent again.
LEMMA FreshSubmit ==
    ASSUME TypeOK, FreshKeys, NEW v \in Users,
           SubmitFresh(v) \/ SubmitReplay(v)
    PROVE  FreshKeys'
<1>1. PICK p, t, k :
          /\ p \in ParentsFor(v) /\ t \in TokensFor(p) /\ Submit(v, t, k, p)
          /\ \/ k = nextKey /\ nextKey' = nextKey + 1 /\ resent' = resent
             \/ /\ nextKey' = nextKey /\ resent' = resent \cup {k}
                /\ \E i \in DOMAIN usedKeys[v] : k = usedKeys[v][i]
  BY SubmitPicked
<1> DEFINE r == Create(v, t, k, p)
<1>2. /\ Send(v, r) /\ r.kind = "create" /\ r.key = k /\ r.parent = p /\ r.token = t
      /\ Named(r) = <<t, k>>
  BY <1>1 DEF Submit, Create, Named
<1> HIDE DEF r
<1>3. /\ Sent' \subseteq Sent \cup {r} /\ net' = net \cup {r} /\ call'[v] = r
      /\ reply'[v] = "pending"
      /\ \A u \in Users \ {v} : call'[u] = call[u] /\ reply'[u] = reply[u]
  BY <1>2, SendFrame
<1>4. UNCHANGED <<open, links, asked, life, up, recorded>>
  BY DEF SubmitFresh, SubmitReplay, server
<1>5. \A u \in Users : /\ Tracked(u)' = Tracked(u) /\ (OldestFirst(u) => OldestFirst(u)')
                       /\ Distinct(u) => Distinct(u)'
  BY <1>4 DEF Tracked, OldestFirst, Distinct
<1>6. nextKey \in Nat /\ t \in Tokens /\ k \in Keys /\ k < nextKey' /\ nextKey <= nextKey'
      /\ nextKey' \in Nat
  <2>1. t \in Tokens /\ nextKey \in Nat
    BY <1>1, TokensAreTokens, OrderLoadAssumption DEF TypeOK
  <2>2. CASE SubmitFresh(v) /\ k = nextKey /\ nextKey' = nextKey + 1
    BY <2>1, <2>2, OrderLoadAssumption DEF SubmitFresh, TypeOK, Keys
  <2>3. ASSUME NEW i \in DOMAIN usedKeys[v], k = usedKeys[v][i], nextKey' = nextKey
        PROVE  k \in Keys /\ k < nextKey'
    BY <2>3, ElementOfSeq, LenProperties DEF TypeOK, FreshKeys, KeysInUse
  <2>4. k = nextKey => nextKey <= MaxKeys
    <3>1. CASE SubmitFresh(v)
      BY <3>1 DEF SubmitFresh
    <3>2. CASE SubmitReplay(v) /\ ~SubmitFresh(v)
      <4>1. nextKey' = nextKey
        BY <3>2 DEF SubmitReplay
      <4>2. k < nextKey
        BY <1>1, <2>1, <2>3, <4>1
      <4> QED
        BY <2>1, <4>2
    <3> QED
      BY <3>1, <3>2
  <2>5. CASE k = nextKey /\ nextKey' = nextKey + 1
    BY <2>1, <2>4, <2>5, OrderLoadAssumption DEF TypeOK, Keys
  <2> QED
    BY <1>1, <2>1, <2>3, <2>5
<1>7. p # None => p \in Tracked(v)
  BY <1>1 DEF ParentsFor
<1>8. \A q \in Sent : q.kind = "create" => q.key < nextKey /\ q.key \in Nat
  BY SentAreRequests, RequestFields DEF FreshKeys, KeysInUse, Keys
<1>9. \A o \in Orders : recorded[o] # "none" => o[2] < nextKey /\ o[2] \in Nat
  BY TrackedAreOrders DEF FreshKeys, KeysInUse, Keys, Orders
<1>10. \A u \in Users : \A o \in Tracked(u) \cup asked[u] : o[2] < nextKey /\ o[2] \in Nat
  <2>1. \A u \in Users : Tracked(u) \cup asked[u] \subseteq Orders
    BY TrackedAreOrders DEF TypeOK
  <2> QED
    BY <2>1, TrackedAreOrders DEF FreshKeys, KeysInUse, Keys
<1>11. KeysInUse'
  <2>1. \A q \in Sent : q.kind = "cancel" => q.order[2] < nextKey /\ q.order[2] \in Nat
    BY SentAreRequests, RequestFields, TrackedAreOrders DEF FreshKeys, KeysInUse, Keys
  <2>2. \A x \in Nat : x < nextKey => x < nextKey'
    BY <1>6
  <2>3. /\ \A q \in Sent' : q.kind = "create" => q.key < nextKey'
        /\ \A q \in Sent' : q.kind = "cancel" => q.order[2] < nextKey'
    BY <1>2, <1>3, <1>6, <1>8, <2>1, <2>2
  <2>4. /\ \A o \in Orders : recorded'[o] # "none" => o[2] < nextKey'
        /\ \A u \in Users : \A o \in Tracked(u)' \cup asked'[u] : o[2] < nextKey'
    BY <1>4, <1>5, <1>9, <1>10, <2>2
  <2> QED
    BY <2>3, <2>4, UsedKeysBelow DEF KeysInUse
<1>12. k \notin resent' => k = nextKey /\ resent' = resent
  BY <1>1
<1>13. resent \subseteq resent'
  BY <1>1
<1>14. RequestsOnce'
  <2>1. k \notin resent' => \A q \in Sent : q.kind = "create" => q.key # k
    BY <1>6, <1>8, <1>12
  <2>2. k \notin resent' => recorded[<<t, k>>] = "none"
    <3>1. <<t, k>> \in Orders /\ <<t, k>>[2] = k
      BY <1>6 DEF Orders
    <3> QED
      BY <3>1, <1>6, <1>9, <1>12
  <2>3. \A q, z \in Sent' :
            q.kind = "create" /\ z.kind = "create" /\ q.key = z.key /\ q.key \notin resent' => q = z
    BY <1>2, <1>3, <1>13, <2>1 DEF FreshKeys, RequestsOnce
  <2>4. \A q \in net' : q.kind = "create" /\ q.key \notin resent' => recorded'[Named(q)] = "none"
    BY <1>2, <1>3, <1>4, <1>13, <2>2 DEF FreshKeys, RequestsOnce
  <2>5. \A q \in Sent' : q.kind = "cancel" => recorded'[q.order] = "ok"
    BY <1>2, <1>3, <1>4 DEF FreshKeys, RequestsOnce
  <2> QED
    BY <2>3, <2>4, <2>5 DEF RequestsOnce, Named
<1>15. SubmitsFresh'
  <2> SUFFICES ASSUME NEW u \in Users, Creating(u)'
               PROVE  /\ reply'[u] = "ok" => recorded'[Named(call'[u])] = "ok"
                      /\ call'[u].parent # None => call'[u].parent \in Tracked(u)'
                      /\ call'[u].key \notin resent' =>
                             /\ reply'[u] = "ok" => up'[Named(call'[u])] = call'[u].parent
                             /\ \A o \in Tracked(u)' \cup asked'[u] : o[2] < call'[u].key
    BY DEF SubmitsFresh, Named
  <2>1. CASE u = v
    BY <1>2, <1>3, <1>4, <1>5, <1>7, <1>10, <1>12, <2>1
  <2>2. CASE u # v
    <3>1. Creating(u) /\ call'[u] = call[u] /\ reply'[u] = reply[u]
      BY <1>3, <2>2 DEF Creating, Waiting
    <3> QED
      BY <1>4, <1>5, <1>13, <3>1 DEF FreshKeys, SubmitsFresh
  <2> QED
    BY <2>1, <2>2
<1>16. TrackedStand'
  <2>1. \A u \in Users : Cancelling(u)' => Cancelling(u) /\ call'[u] = call[u]
    BY <1>2, <1>3 DEF Cancelling, Waiting
  <2>2. resent' = {} => resent = {}
    BY <1>13
  <2> QED
    BY <1>4, <1>5, <1>13, <2>1, <2>2 DEF FreshKeys, TrackedStand
<1>17. ParentsOlder'
  BY <1>2, <1>3, <1>4, <1>7, <1>10, <1>12, <1>13 DEF FreshKeys, ParentsOlder
<1> QED
  BY <1>11, <1>14, <1>15, <1>16, <1>17 DEF FreshKeys

\* A cancel of the oldest order, or of everything.
LEMMA FreshSendCancel ==
    ASSUME TypeOK, FreshKeys, NEW v \in Users, SendCancel(v) \/ SendCancelAll(v)
    PROVE  FreshKeys'
<1>1. PICK r : /\ Send(v, r) /\ r.kind # "create"
               /\ r.kind = "cancel" => r.order \in Tracked(v)
  <2>1. CASE SendCancel(v)
    <3>1. open[v] # <<>> /\ 1 \in DOMAIN open[v] /\ Head(open[v]) = open[v][1]
      BY <2>1, HeadTailProperties, EmptySeq, TrackedAreOrders DEF SendCancel
    <3> QED
      BY <2>1, <3>1 DEF SendCancel, Tracked
  <2>2. CASE SendCancelAll(v)
    BY <2>2 DEF SendCancelAll
  <2> QED
    BY <2>1, <2>2
<1>2. /\ Sent' \subseteq Sent \cup {r} /\ net' = net \cup {r} /\ call'[v] = r
      /\ \A u \in Users \ {v} : call'[u] = call[u] /\ reply'[u] = reply[u]
  BY <1>1, SendFrame
<1>3. UNCHANGED <<open, links, usedKeys, asked, resent, life, up, recorded, nextKey>>
  BY DEF SendCancel, SendCancelAll, server
<1>4. \A u \in Users : /\ Tracked(u)' = Tracked(u) /\ (OldestFirst(u) => OldestFirst(u)')
                       /\ Distinct(u) => Distinct(u)'
  BY <1>3 DEF Tracked, OldestFirst, Distinct
<1>5. KeysInUse'
  BY <1>1, <1>2, <1>3, <1>4 DEF FreshKeys, KeysInUse
<1>6. RequestsOnce'
  BY <1>1, <1>2, <1>3 DEF FreshKeys, RequestsOnce, TrackedStand, Named
<1>7. SubmitsFresh'
  BY <1>1, <1>2, <1>3, <1>4 DEF FreshKeys, SubmitsFresh, Creating, Waiting, Named
<1>8. TrackedStand'
  BY <1>1, <1>2, <1>3, <1>4 DEF FreshKeys, TrackedStand, Cancelling, Waiting
<1>9. ParentsOlder'
  BY <1>1, <1>2, <1>3 DEF FreshKeys, ParentsOlder
<1> QED
  BY <1>5, <1>6, <1>7, <1>8, <1>9 DEF FreshKeys

\* What a step of the service may do to the records and to the trees: it records a
\* result for a key that has none, and an accepted order gets the parent it was sent with.
LEMMA ServiceRecords ==
    ASSUME TypeOK, NEW r \in net, ServiceStep(r), NEW o \in Orders
    PROVE  \/ recorded'[o] = recorded[o] /\ up'[o] = up[o]
           \/ /\ recorded[o] = "none" /\ Creates(r) /\ o = Named(r)
              /\ recorded'[o] # "none"
              /\ recorded'[o] = "ok" => Accept(r) /\ up'[o] = r.parent
<1>1. CASE Accept(r)
  BY <1>1 DEF Accept, TypeOK
<1>2. CASE Refuse(r)
  <2>1. PICK why \in Refusals : recorded' = [recorded EXCEPT ![Named(r)] = why]
    BY <1>2 DEF Refuse, ParentRefusal, Refusals
  <2> QED
    BY <1>2, <2>1 DEF Refuse, TypeOK, Refusals
<1>3. CASE ~Accept(r) /\ ~Refuse(r)
  BY <1>3 DEF ServiceStep, AnswerFromRecord, HandleCancel, HandleCancelAll, RefuseExpired,
     Lose, server
<1> QED
  BY <1>1, <1>2, <1>3

\* How the reply of a user may change when the service handles a request.
LEMMA ServiceReplies ==
    ASSUME TypeOK, RequestsOnce, NEW r \in net, ServiceStep(r), NEW v \in Users,
           reply'[v] # reply[v]
    PROVE  /\ call[v] = r
           /\ r.kind = "create" /\ reply'[v] = "ok" =>
                  Accept(r) \/ (r.key \in resent /\ recorded[Named(r)] = "ok" /\ UNCHANGED server)
<1>1. \E status :
          /\ Answer(r, status)
          /\ r.kind = "create" /\ status = "ok" =>
                 Accept(r) \/ (r.key \in resent /\ recorded[Named(r)] = "ok" /\ UNCHANGED server)
  <2>1. CASE Accept(r)
    <3>1. Answer(r, "ok")
      BY <2>1 DEF Accept
    <3> QED
      BY <2>1, <3>1
  <2>2. CASE Refuse(r)
    <3> DEFINE why == IF ParentRefusal(r.token, r.parent) = "none"
                      THEN "business" ELSE ParentRefusal(r.token, r.parent)
    <3>1. Answer(r, why) /\ why # "ok"
      BY <2>2 DEF Refuse, ParentRefusal
    <3> QED
      BY <3>1
  <2>3. CASE AnswerFromRecord(r)
    BY <2>3 DEF AnswerFromRecord, Creates, RequestsOnce
  <2>4. CASE HandleCancel(r) \/ HandleCancelAll(r) \/ RefuseExpired(r)
    BY <2>4 DEF HandleCancel, HandleCancelAll, RefuseExpired
  <2>5. CASE Lose(r)
    BY <2>5 DEF Lose, generator
  <2> QED
    BY <2>1, <2>2, <2>3, <2>4, <2>5 DEF ServiceStep
<1> QED
  BY <1>1 DEF Answer, Awaited, TypeOK

\* The service handles, refuses or loses a request.
LEMMA FreshService ==
    ASSUME TypeOK, FreshKeys, NEW r \in net, ServiceStep(r)
    PROVE  FreshKeys'
<1>1. /\ net' = net \ {r} /\ Sent' \subseteq Sent /\ r \in Sent /\ r \in Requests
      /\ UNCHANGED <<open, links, usedKeys, call, asked, resent, nextKey>>
  BY ServiceFrame DEF Sent, TypeOK
<1>2. \A v \in Users : /\ Tracked(v)' = Tracked(v) /\ (OldestFirst(v) => OldestFirst(v)')
                       /\ Distinct(v) => Distinct(v)'
                       /\ Creating(v)' = Creating(v) /\ Cancelling(v)' = Cancelling(v)
  BY <1>1 DEF Tracked, OldestFirst, Distinct, Creating, Cancelling, Waiting
<1>3. \A o \in Orders :
          \/ recorded'[o] = recorded[o] /\ up'[o] = up[o]
          \/ /\ recorded[o] = "none" /\ Creates(r) /\ o = Named(r)
             /\ recorded'[o] = "ok" => Accept(r) /\ up'[o] = r.parent
  BY ServiceRecords
<1>4. r.kind = "create" => Named(r) \in Orders /\ Named(r)[2] = r.key
  BY <1>1, RequestFields DEF Named
<1>5. \A v \in Users : Tracked(v) \subseteq Orders
  BY TrackedAreOrders
<1>6. KeysInUse'
  BY <1>1, <1>2, <1>3, <1>4 DEF FreshKeys, KeysInUse, Creates
<1>7. RequestsOnce'
  <2>1. ASSUME NEW q \in net \ {r}, q.kind = "create", q.key \notin resent
        PROVE  recorded'[Named(q)] = "none"
    <3>1. q \in Sent /\ Named(q) \in Orders /\ recorded[Named(q)] = "none" /\ Named(q)[2] = q.key
      BY <2>1, SentAreRequests, RequestFields DEF Sent, FreshKeys, RequestsOnce, Named
    <3>2. Named(q) = Named(r) /\ r.kind = "create" => q = r
      BY <1>1, <1>4, <2>1, <3>1 DEF FreshKeys, RequestsOnce
    <3> QED
      BY <1>3, <2>1, <3>1, <3>2 DEF Creates
  <2>2. ASSUME NEW q \in Sent, q.kind = "cancel" PROVE recorded'[q.order] = "ok"
    BY <1>3, <2>2, SentAreRequests, RequestFields DEF FreshKeys, RequestsOnce
  <2> QED
    BY <1>1, <2>1, <2>2 DEF FreshKeys, RequestsOnce, Named
<1>8. SubmitsFresh'
  <2> SUFFICES ASSUME NEW v \in Users, Creating(v)
               PROVE  reply'[v] = "ok" =>
                          /\ recorded'[Named(call[v])] = "ok"
                          /\ call[v].key \notin resent => up'[Named(call[v])] = call[v].parent
    BY <1>1, <1>2 DEF FreshKeys, SubmitsFresh, Named
  <2>1. Named(call[v]) \in Orders
    BY AwaitedCall, RequestFields DEF Creating
  <2>2. CASE reply'[v] = reply[v]
    BY <1>3, <2>1, <2>2 DEF FreshKeys, SubmitsFresh
  <2>3. CASE reply'[v] # reply[v]
    <3>1. /\ call[v] = r
          /\ reply'[v] = "ok" =>
                 Accept(r) \/ (r.key \in resent /\ recorded[Named(r)] = "ok" /\ UNCHANGED server)
      BY <2>3, ServiceReplies DEF FreshKeys, Creating
    <3>2. CASE Accept(r)
      BY <2>1, <3>1, <3>2 DEF Accept, TypeOK
    <3>3. CASE ~Accept(r)
      BY <3>1, <3>3 DEF server
    <3> QED
      BY <3>2, <3>3
  <2> QED
    BY <2>2, <2>3
<1>9. TrackedStand'
  <2>1. \A v \in Users : \A l \in links[v] : l[2] \in Orders
    BY DEF TypeOK
  <2> QED
    BY <1>1, <1>2, <1>3, <1>5, <2>1 DEF FreshKeys, TrackedStand
<1>10. ParentsOlder'
  BY <1>1, <1>3, <1>4 DEF FreshKeys, ParentsOlder, Creates
<1> QED
  BY <1>6, <1>7, <1>8, <1>9, <1>10 DEF FreshKeys

\* The part of FreshKeys that does not concern one user, when a user gets an answer.
LEMMA FreshReceived ==
    ASSUME TypeOK, FreshKeys, NEW v \in Users, NEW kind, Received(v, kind),
           \A u \in Users \ {v} : open'[u] = open[u] /\ links'[u] = links[u]
                                   /\ asked'[u] = asked[u],
           Distinct(v)', resent = {} => OldestFirst(v)',
           \A o \in Tracked(v)' : recorded[o] = "ok",
           \A o \in asked'[v] : o[2] < nextKey,
           \A l \in links'[v] : recorded[l[2]] = "ok" /\ l[1] \in Tracked(v)',
           \A l \in links'[v] : l[2][2] \notin resent => up[l[2]] = l[1],
           \A o \in Tracked(v)' \cap asked'[v] : o[2] \in resent, Tracked(v)' \subseteq Orders
    PROVE  FreshKeys'
<1>1. /\ ~Waiting(v)' /\ Sent' \subseteq Sent
      /\ \A u \in Users \ {v} : call'[u] = call[u] /\ reply'[u] = reply[u]
      /\ UNCHANGED <<usedKeys, resent, life, up, recorded, nextKey, net>>
  BY ReceivedFrame DEF server
<1>2. \A u \in Users \ {v} : /\ Tracked(u)' = Tracked(u) /\ (OldestFirst(u) => OldestFirst(u)')
                             /\ Distinct(u) => Distinct(u)'
                             /\ Creating(u)' = Creating(u) /\ Cancelling(u)' = Cancelling(u)
  BY <1>1 DEF Tracked, OldestFirst, Distinct, Creating, Cancelling, Waiting
<1>3. KeysInUse'
  <2>1. \A o \in Tracked(v)' : o[2] < nextKey
    BY DEF FreshKeys, KeysInUse
  <2>2. \A u \in Users : \A o \in (Tracked(u) \cup asked[u])' : o[2] < nextKey
    <3> SUFFICES ASSUME NEW u \in Users PROVE \A o \in (Tracked(u) \cup asked[u])' : o[2] < nextKey
      OBVIOUS
    <3>1. CASE u = v
      BY <2>1, <3>1
    <3>2. CASE u # v
      BY <1>2, <3>2 DEF FreshKeys, KeysInUse
    <3> QED
      BY <3>1, <3>2
  <2> QED
    BY <1>1, <2>2 DEF FreshKeys, KeysInUse
<1>4. RequestsOnce'
  BY <1>1 DEF FreshKeys, RequestsOnce, Named
<1>5. SubmitsFresh'
  <2> SUFFICES ASSUME NEW u \in Users, Creating(u)'
               PROVE  /\ reply'[u] = "ok" => recorded'[Named(call'[u])] = "ok"
                      /\ call'[u].parent # None => call'[u].parent \in Tracked(u)'
                      /\ call'[u].key \notin resent' =>
                             /\ reply'[u] = "ok" => up'[Named(call'[u])] = call'[u].parent
                             /\ \A o \in Tracked(u)' \cup asked'[u] : o[2] < call'[u].key
    BY DEF SubmitsFresh, Named
  <2>1. u # v
    BY <1>1 DEF Creating
  <2>2. /\ Creating(u) /\ call'[u] = call[u] /\ reply'[u] = reply[u]
        /\ Tracked(u)' = Tracked(u) /\ asked'[u] = asked[u]
    BY <1>1, <1>2, <2>1
  <2>3. /\ reply[u] = "ok" => recorded[Named(call[u])] = "ok"
        /\ call[u].parent # None => call[u].parent \in Tracked(u)
        /\ call[u].key \notin resent =>
               /\ reply[u] = "ok" => up[Named(call[u])] = call[u].parent
               /\ \A o \in Tracked(u) \cup asked[u] : o[2] < call[u].key
    BY <2>2 DEF FreshKeys, SubmitsFresh
  <2> QED
    BY <1>1, <2>2, <2>3
<1>6. TrackedStand'
  <2> SUFFICES ASSUME NEW u \in Users
               PROVE  /\ Distinct(u)' /\ (resent = {} => OldestFirst(u)')
                      /\ \A o \in Tracked(u)' : recorded[o] = "ok"
                      /\ \A l \in links'[u] : recorded[l[2]] = "ok" /\ l[1] \in Tracked(u)'
                      /\ \A l \in links'[u] : l[2][2] \notin resent => up[l[2]] = l[1]
                      /\ \A o \in Tracked(u)' \cap asked'[u] : o[2] \in resent
                      /\ Cancelling(u)' => call'[u].order \in Tracked(u)'
    BY <1>1 DEF TrackedStand
  <2>1. CASE u = v
    BY <1>1, <2>1 DEF Cancelling
  <2>2. CASE u # v
    <3>1. /\ Tracked(u)' = Tracked(u) /\ links'[u] = links[u] /\ asked'[u] = asked[u]
          /\ call'[u] = call[u] /\ Cancelling(u)' = Cancelling(u)
          /\ (OldestFirst(u) => OldestFirst(u)') /\ (Distinct(u) => Distinct(u)')
      BY <1>1, <1>2, <2>2
    <3> QED
      BY <3>1 DEF FreshKeys, TrackedStand
  <2> QED
    BY <2>1, <2>2
<1>7. ParentsOlder'
  BY <1>1 DEF FreshKeys, ParentsOlder
<1> QED
  BY <1>3, <1>4, <1>5, <1>6, <1>7 DEF FreshKeys

LEMMA RootInSubtree ==
    ASSUME NEW v \in Users, NEW root \in Orders
    PROVE  root \in Subtree(v, root)
BY DEF Subtree

\* A user gets an answer, or stops waiting.
LEMMA FreshAnswered ==
    ASSUME TypeOK, TypeOK', FreshKeys, NEW v \in Users,
           SubmitAnswered(v) \/ SubmitFailed(v) \/ CancelAnswered(v) \/ CancelAllAnswered(v)
    PROVE  FreshKeys'
<1> DEFINE c == call[v]
<1>1. /\ Distinct(v) /\ (resent = {} => OldestFirst(v))
      /\ \A o \in Tracked(v) \cap asked[v] : o[2] \in resent
      /\ \A o \in Tracked(v) : recorded[o] = "ok"
      /\ \A l \in links[v] : recorded[l[2]] = "ok" /\ l[1] \in Tracked(v)
      /\ \A l \in links[v] : l[2][2] \notin resent => up[l[2]] = l[1]
      /\ \A o \in asked[v] : o[2] < nextKey
      /\ Tracked(v)' \subseteq Orders /\ Tracked(v) \subseteq Orders
  BY TrackedAreOrders, TrackedAreOrdersNext DEF FreshKeys, KeysInUse, TrackedStand
<1>2. ASSUME UNCHANGED <<open, links, asked>>, NEW kind, Received(v, kind)
      PROVE  FreshKeys'
  <2>1. Tracked(v)' = Tracked(v) /\ Distinct(v)' /\ (resent = {} => OldestFirst(v)')
    BY <1>1, <1>2 DEF Tracked, OldestFirst, Distinct
  <2> QED
    BY <1>1, <1>2, <2>1, FreshReceived
<1>3. CASE SubmitAnswered(v)
  <2>1. Received(v, "create") /\ Waiting(v) /\ c.kind = "create" /\ Creating(v)
    BY <1>3, ReceivedFrame DEF SubmitAnswered, Creating
  <2>2. CASE UNCHANGED <<open, links>>
    BY <1>2, <1>3, <2>1, <2>2 DEF SubmitAnswered
  <2>3. CASE reply[v] = "ok" /\ Track(v, Named(c), c.parent) /\ Named(c) \notin Tracked(v)
    <3> DEFINE o == Named(c)
               p == c.parent
    <3>1. /\ o \in Orders /\ p \in Orders \cup {None} /\ o[2] = c.key
      BY <2>1, AwaitedCall, RequestFields DEF Named
    <3>2. /\ recorded[o] = "ok" /\ (p # None => p \in Tracked(v)) /\ o \notin Tracked(v)
          /\ o[2] \notin resent =>
                 up[o] = p /\ \A t \in Tracked(v) \cup asked[v] : t[2] < o[2]
      BY <2>1, <2>3, <3>1 DEF FreshKeys, SubmitsFresh
    <3>3. o \in asked[v] => o[2] \in resent
      <4>1. o[2] \in Nat
        BY <3>1, TrackedAreOrders DEF Keys
      <4> QED
        BY <3>2, <4>1
    <3> HIDE DEF o, p, c
    <3>4. Track(v, o, p)
      BY <2>3 DEF o, p, c
    <3>5. PICK evicted \in SUBSET Tracked(v) :
              /\ Tracked(v)' = (Tracked(v) \cup {o}) \ evicted
              /\ links'[v] = {l \in links[v] \cup ({p} \ {None}) \X {o} : l[1] \notin evicted}
      <4>1. Distinct(v) /\ o \notin Tracked(v)
        BY <1>1, <3>2
      <4> QED
        BY <3>1, <3>4, <4>1, TrackEffect
    <3>6. /\ Distinct(v)' /\ (resent = {} => OldestFirst(v)')
          /\ \A u \in Users \ {v} : open'[u] = open[u] /\ links'[u] = links[u]
      BY <1>1, <3>1, <3>2, <3>4, TrackEffect
    <3>7. asked' = asked
      BY <1>3 DEF SubmitAnswered
    <3>8. \A l \in links'[v] :
              /\ recorded[l[2]] = "ok" /\ l[1] \in Tracked(v)'
              /\ l[2][2] \notin resent => up[l[2]] = l[1]
      <4> SUFFICES ASSUME NEW l \in links'[v]
                   PROVE  /\ recorded[l[2]] = "ok" /\ l[1] \in Tracked(v)'
                          /\ l[2][2] \notin resent => up[l[2]] = l[1]
        OBVIOUS
      <4>1. CASE l \in links[v]
        BY <1>1, <3>5, <4>1
      <4>2. CASE l \in ({p} \ {None}) \X {o}
        <5>1. l[1] = p /\ l[2] = o /\ p # None
          BY <4>2
        <5> QED
          BY <3>2, <3>5, <5>1
      <4> QED
        BY <3>5, <4>1, <4>2
    <3>9. \A t \in Tracked(v)' \cap asked[v] : t[2] \in resent
      BY <1>1, <3>3, <3>5
    <3>10. \A t \in Tracked(v)' : recorded[t] = "ok"
      BY <1>1, <3>2, <3>5
    <3> QED
      BY <1>1, <2>1, <3>6, <3>7, <3>8, <3>9, <3>10, FreshReceived
  <2>4. Track(v, Named(c), c.parent) /\ Named(c) \in Tracked(v) => UNCHANGED <<open, links>>
    BY DEF Track
  <2> QED
    BY <1>3, <2>2, <2>3, <2>4 DEF SubmitAnswered
<1>4. CASE SubmitFailed(v)
  BY <1>2, <1>4 DEF SubmitFailed
<1>5. CASE CancelAnswered(v)
  <2>1. Received(v, "cancel") /\ Waiting(v) /\ c.kind = "cancel" /\ Cancelling(v)
    BY <1>5, ReceivedFrame DEF CancelAnswered, Cancelling
  <2>2. c.order \in Orders /\ c.order \in Tracked(v) /\ c.order[2] < nextKey
    BY <2>1, AwaitedCall, RequestFields DEF FreshKeys, TrackedStand, KeysInUse
  <2>3. Forget(v, c.order) /\ asked' = [asked EXCEPT ![v] = @ \cup {c.order}]
    BY <1>5 DEF CancelAnswered
  <2>4. /\ Tracked(v)' = Tracked(v) \ Subtree(v, c.order)
        /\ links'[v] = {l \in links[v] : l[1] \notin Subtree(v, c.order)}
        /\ Distinct(v)' /\ (resent = {} => OldestFirst(v)')
        /\ \A u \in Users \ {v} : open'[u] = open[u] /\ links'[u] = links[u]
    BY <1>1, <2>3, ForgetEffect
  <2>5. /\ asked'[v] = asked[v] \cup {c.order}
        /\ \A u \in Users \ {v} : asked'[u] = asked[u]
    BY <2>3 DEF TypeOK
  <2>6. c.order \in Subtree(v, c.order)
    BY <2>2, RootInSubtree
  <2>7. \A o \in Tracked(v)' \cap asked'[v] : o[2] \in resent
    BY <1>1, <2>4, <2>5, <2>6
  <2>8. \A l \in links'[v] :
            /\ recorded[l[2]] = "ok" /\ l[1] \in Tracked(v)'
            /\ l[2][2] \notin resent => up[l[2]] = l[1]
    BY <1>1, <2>4
  <2>9. \A o \in asked'[v] : o[2] < nextKey
    BY <1>1, <2>2, <2>5
  <2>10. \A o \in Tracked(v)' : recorded[o] = "ok"
    BY <1>1, <2>4
  <2> QED
    BY <1>1, <2>1, <2>4, <2>5, <2>7, <2>8, <2>9, <2>10, FreshReceived
<1>6. CASE CancelAllAnswered(v)
  <2>1. /\ open'[v] = <<>> /\ links'[v] = {} /\ asked' = asked
        /\ \A u \in Users \ {v} : open'[u] = open[u] /\ links'[u] = links[u]
    BY <1>6 DEF CancelAllAnswered, TypeOK
  <2>2. DOMAIN open'[v] = {}
    BY <2>1
  <2>3. Tracked(v)' = {} /\ OldestFirst(v)' /\ Distinct(v)'
    BY <2>2 DEF Tracked, OldestFirst, Distinct
  <2> QED
    BY <1>1, <1>6, <2>1, <2>3, FreshReceived DEF CancelAllAnswered
<1> QED
  BY <1>3, <1>4, <1>5, <1>6

LEMMA FreshStep ==
    ASSUME TypeOK, TypeOK', FreshKeys, [Next]_vars
    PROVE  FreshKeys'
<1>1. CASE OtherStep
  <2>1. /\ UNCHANGED <<generator, net, nextKey, up, recorded>> /\ Sent' = Sent
    BY <1>1, OtherFrame
  <2>2. \A v \in Users : /\ Tracked(v)' = Tracked(v) /\ (OldestFirst(v) => OldestFirst(v)')
                         /\ Distinct(v) => Distinct(v)'
                         /\ Creating(v)' = Creating(v) /\ Cancelling(v)' = Cancelling(v)
    BY <2>1 DEF Tracked, OldestFirst, Distinct, Creating, Cancelling, Waiting, generator
  <2> QED
    BY <2>1, <2>2
       DEF FreshKeys, KeysInUse, RequestsOnce, ParentsOlder, SubmitsFresh, TrackedStand,
           Named, generator
<1> QED
  BY <1>1, StepKinds, FreshSubmit, FreshSendCancel, FreshService, FreshAnswered DEF UserStep

\* The options of a run do not change.
LEMMA OptionsStay == ASSUME TypeOK, [Next]_vars PROVE options' = options
<1>1. ASSUME NEW v \in Users, UserStep(v) PROVE options' = options
  BY <1>1 DEF UserStep, SubmitFresh, SubmitReplay, SendCancel, SendCancelAll,
     SubmitAnswered, SubmitFailed, CancelAnswered, CancelAllAnswered, Received, run
<1> QED
  BY <1>1, StepKinds, ServiceFrame, OtherFrame

\* No key is taken back from those that were sent again.
LEMMA ResentGrows == ASSUME TypeOK, [Next]_vars PROVE resent \subseteq resent'
<1>1. ASSUME NEW v \in Users, UserStep(v) PROVE resent \subseteq resent'
  BY <1>1 DEF UserStep, SubmitFresh, SubmitReplay, SendCancel, SendCancelAll,
     SubmitAnswered, SubmitFailed, CancelAnswered, CancelAllAnswered, Received
<1> QED
  BY <1>1, StepKinds, ServiceFrame, OtherFrame DEF generator

\* A key that is not sent again is sent once, an order is recorded once, and what the
\* users believe of the orders they track is what the service has recorded.
THEOREM FreshCorrect == Spec => []FreshKeys
<1>1. TypeOK /\ TypeOK' /\ FreshKeys /\ [Next]_vars => FreshKeys'
  BY FreshStep
<1> QED
  BY <1>1, FreshInit, TypeCorrect, PTL DEF Spec

\* What a user has entered as a child of an order it tracks was accepted by the service,
\* and is a child of that order there unless its key was sent again, whatever was
\* evicted, forgotten, timed out or replayed in between.
THEOREM LinksMatchTheTree == Spec => []LinksMatchTree
<1>1. FreshKeys => LinksMatchTree
  BY DEF FreshKeys, TrackedStand, LinksMatchTree
<1> QED
  BY <1>1, FreshCorrect, PTL

\* No user holds an order twice, nor one it has cancelled whose key was not sent again.
THEOREM NoSecondCancel == Spec => []CancelsEachOrderOnce
<1>1. FreshKeys => CancelsEachOrderOnce
  BY DEF FreshKeys, TrackedStand, CancelsEachOrderOnce, Distinct
<1> QED
  BY <1>1, FreshCorrect, PTL

----------------------------------------------------------------------------
(* Cancels and the trees of children.                                      *)

\* setup refuses a run that cancels everything and submits children.
SetupHeld ==
    /\ phase = "running" => ~(options.cancelAll /\ options.children)
    /\ options.children => \A r \in Sent : r.kind # "cancelAll"

LEMMA SetupHeldStep ==
    ASSUME TypeOK, SetupHeld, [Next]_vars
    PROVE  SetupHeld'
<1>1. ASSUME NEW v \in Users, SubmitFresh(v) \/ SubmitReplay(v) PROVE SetupHeld'
  <2>1. PICK p, t, k : Submit(v, t, k, p)
    BY <1>1, SubmitPicked
  <2>2. Sent' \subseteq Sent \cup {Create(v, t, k, p)}
    BY <2>1, SendFrame DEF Submit
  <2>3. Create(v, t, k, p).kind = "create"
    BY DEF Create
  <2>4. UNCHANGED <<options, phase>>
    BY <1>1 DEF SubmitFresh, SubmitReplay, run
  <2> QED
    BY <2>2, <2>3, <2>4 DEF SetupHeld
<1>2. ASSUME NEW v \in Users, SendCancel(v) \/ SendCancelAll(v) PROVE SetupHeld'
  <2>1. PICK r : Send(v, r) /\ (r.kind = "cancelAll" => options.cancelAll)
    BY <1>2 DEF SendCancel, SendCancelAll
  <2>2. Sent' \subseteq Sent \cup {r}
    BY <2>1, SendFrame
  <2>3. UNCHANGED <<options, phase>> /\ ~(options.cancelAll /\ options.children)
    BY <1>2 DEF SendCancel, SendCancelAll, MayStart, SetupHeld, run
  <2> QED
    BY <2>1, <2>2, <2>3 DEF SetupHeld
<1>3. ASSUME NEW v \in Users,
             SubmitAnswered(v) \/ SubmitFailed(v) \/ CancelAnswered(v) \/ CancelAllAnswered(v)
      PROVE  SetupHeld'
  <2>1. \E kind : Received(v, kind)
    BY <1>3 DEF SubmitAnswered, SubmitFailed, CancelAnswered, CancelAllAnswered
  <2> QED
    BY <2>1, ReceivedFrame DEF SetupHeld, run
<1>4. ASSUME NEW r \in net, ServiceStep(r) PROVE SetupHeld'
  <2>1. UNCHANGED <<options, phase>> /\ Sent' \subseteq Sent
    BY <1>4, ServiceFrame
  <2> QED
    BY <2>1 DEF SetupHeld
<1>5. CASE OtherStep
  <2>1. options' = options /\ Sent' = Sent
    BY <1>5, OtherFrame
  <2>2. phase' = "running" => ~(options.cancelAll /\ options.children) \/ phase = "running"
    BY <1>5 DEF OtherStep, Setup, MayRun, RefuseToRun, Expire, End, vars, run
  <2> QED
    BY <2>1, <2>2 DEF SetupHeld
<1> QED
  BY <1>1, <1>2, <1>3, <1>4, <1>5, StepKinds DEF UserStep

\* The order a user's submit was accepted for, which the user does not track yet.
Newborn(v) == IF Creating(v) /\ reply[v] = "ok" THEN {Named(call[v])} ELSE {}

\* What a user will forget when the cancel it waits for is over.
Doomed(v) == IF Cancelling(v) THEN Subtree(v, call[v].order) ELSE {}

\* U is a set of orders no cancel can reach, of this user or of another: it has what
\* user v will still track, and with an order the chain of its parents.
Untouched(v, U) ==
    /\ (Tracked(v) \ Doomed(v)) \cup Newborn(v) \subseteq U
    /\ U \cap Doomed(v) = {}
    /\ \A d \in U : recorded[d] = "ok" /\ life[d] # "pending" /\ up[d] \in U \cup {None}
    /\ \A d \in U \ Newborn(v) : up[d] \in Tracked(v) \cup Newborn(v) =>
           d \in Tracked(v) /\ <<up[d], d>> \in links[v]
    /\ \A r \in net : r.kind = "cancel" => r.order \notin U
    /\ \A u \in Users \ {v} : U \cap (Tracked(u) \cup Newborn(u)) = {}

SomeUntouched(v) == \E U \in SUBSET Orders : Untouched(v, U)

\* The orders below o in the trees of the service, o included.
Below(o) ==
    {c \in Orders : \A S \in SUBSET Orders :
        (o \in S /\ \A d \in Orders : up[d] \in S => d \in S) => c \in S}

LEMMA NoneIsNoOrder == None \notin Orders
BY OrderLoadAssumption

LEMMA BelowClosed ==
    ASSUME NEW o \in Orders
    PROVE  /\ o \in Below(o) /\ Below(o) \in SUBSET Orders
           /\ \A d \in Orders : up[d] \in Below(o) => d \in Below(o)
BY DEF Below

LEMMA BelowLeast ==
    ASSUME NEW o \in Orders, NEW S \in SUBSET Orders, o \in S,
           \A d \in Orders : up[d] \in S => d \in S
    PROVE  Below(o) \subseteq S
BY DEF Below

\* What a user knows of a subtree lies below its root at the service...
LEMMA SubtreeIsBelow ==
    ASSUME TypeOK, FreshKeys, resent = {}, NEW v \in Users, NEW o \in Orders
    PROVE  Subtree(v, o) \subseteq Below(o)
<1>1. o \in Below(o) /\ Below(o) \in SUBSET Orders
      /\ \A l \in links[v] : l[1] \in Below(o) => l[2] \in Below(o)
  <2>1. \A l \in links[v] : l[2] \in Orders /\ up[l[2]] = l[1]
    BY DEF TypeOK, FreshKeys, TrackedStand
  <2> QED
    BY <2>1, BelowClosed
<1> QED
  BY <1>1 DEF Subtree

\* ... and of what it tracks there, the user knows all.
LEMMA TrackedBelow ==
    ASSUME TypeOK, NEW v \in Users, NEW U \in SUBSET Orders, Untouched(v, U), ~Waiting(v),
           NEW o \in Tracked(v)
    PROVE  Tracked(v) \cap Below(o) \subseteq Subtree(v, o)
<1>1. Tracked(v) \subseteq Orders /\ Tracked(v) \subseteq U /\ Newborn(v) = {}
  BY TrackedAreOrders DEF Untouched, Doomed, Newborn, Creating, Cancelling
<1> SUFFICES ASSUME NEW x \in Tracked(v) \cap Below(o),
                    NEW S \in SUBSET Orders, o \in S,
                    \A l \in links[v] : l[1] \in S => l[2] \in S
             PROVE  x \in S
  BY <1>1 DEF Subtree
<1> DEFINE R == (S \cap Tracked(v)) \cup (Orders \ U)
<1>2. ASSUME NEW d \in Orders, up[d] \in R PROVE d \in R
  <2>1. CASE d \notin U
    BY <2>1
  <2>2. CASE d \in U
    <3>1. up[d] \in U
      BY <1>1, <1>2, <2>2, NoneIsNoOrder DEF Untouched
    <3>2. up[d] \in S /\ up[d] \in Tracked(v)
      BY <1>2, <3>1
    <3>3. d \in Tracked(v) /\ <<up[d], d>> \in links[v]
      BY <1>1, <2>2, <3>2 DEF Untouched
    <3> QED
      BY <3>2, <3>3
  <2> QED
    BY <2>1, <2>2
<1>3. R \in SUBSET Orders /\ o \in R
  BY <1>1
<1>4. Below(o) \subseteq R
  <2> HIDE DEF R
  <2> QED
    BY <1>1, <1>2, <1>3, BelowLeast
<1> QED
  BY <1>1, <1>4

\* A step of another user keeps U out of the reach of cancels, if what that user tracks
\* and what it cancels stays outside.
LEMMA UntouchedByOther ==
    ASSUME NEW v \in Users, NEW w \in Users \ {v}, NEW U \in SUBSET Orders, Untouched(v, U),
           UNCHANGED <<life, up, recorded>>,
           \A u \in Users \ {w} : /\ open'[u] = open[u] /\ links'[u] = links[u]
                                  /\ call'[u] = call[u] /\ reply'[u] = reply[u],
           U \cap (Tracked(w) \cup Newborn(w))' = {},
           \A r \in net' \ net : r.kind = "cancel" => r.order \notin U
    PROVE  Untouched(v, U)'
<1>1. \A u \in Users \ {w} : /\ Tracked(u)' = Tracked(u) /\ Newborn(u)' = Newborn(u)
                              /\ Doomed(u)' = Doomed(u)
  <2> SUFFICES ASSUME NEW u \in Users \ {w}
               PROVE  /\ Tracked(u)' = Tracked(u) /\ Newborn(u)' = Newborn(u)
                      /\ Doomed(u)' = Doomed(u)
    OBVIOUS
  <2>1. open'[u] = open[u] /\ links'[u] = links[u] /\ call'[u] = call[u] /\ reply'[u] = reply[u]
    OBVIOUS
  <2>2. Tracked(u)' = Tracked(u)
    BY <2>1 DEF Tracked
  <2>3. Newborn(u)' = Newborn(u)
    BY <2>1 DEF Newborn, Creating, Waiting, Named
  <2>4. Doomed(u)' = Doomed(u)
    <3>1. Cancelling(u)' <=> Cancelling(u)
      BY <2>1 DEF Cancelling, Waiting
    <3>2. \A o : Subtree(u, o)' = Subtree(u, o)
      BY <2>1 DEF Subtree
    <3> QED
      BY <2>1, <3>1, <3>2 DEF Doomed
  <2> QED
    BY <2>2, <2>3, <2>4
<1> QED
  BY <1>1 DEF Untouched

\* A user submits: what is untouched stays so.
LEMMA UntouchedSubmit ==
    ASSUME TypeOK, NEW w \in Users, SubmitFresh(w) \/ SubmitReplay(w),
           NEW v \in Users, NEW U \in SUBSET Orders, Untouched(v, U)
    PROVE  Untouched(v, U)'
<1>1. PICK p, t, k : Submit(w, t, k, p)
  BY SubmitPicked
<1> DEFINE r == Create(w, t, k, p)
<1>2. Send(w, r) /\ r.kind = "create"
  BY <1>1 DEF Submit, Create
<1> HIDE DEF r
<1>3. /\ net' = net \cup {r} /\ call'[w] = r /\ reply'[w] = "pending"
      /\ \A u \in Users \ {w} : call'[u] = call[u] /\ reply'[u] = reply[u]
  BY <1>2, SendFrame
<1>4. UNCHANGED <<open, links, life, up, recorded>> /\ ~Waiting(w)
  BY DEF SubmitFresh, SubmitReplay, MayStart, server
<1>5. \A u \in Users : /\ Tracked(u)' = Tracked(u) /\ Newborn(u)' = Newborn(u)
                       /\ Doomed(u)' = Doomed(u)
  BY <1>2, <1>3, <1>4
     DEF Tracked, Newborn, Doomed, Creating, Cancelling, Waiting, Subtree, Named
<1> QED
  BY <1>2, <1>3, <1>4, <1>5 DEF Untouched

\* A user cancels its oldest order: what lies below that order is given up.
LEMMA UntouchedSendCancel ==
    ASSUME TypeOK, FreshKeys, resent = {}, NEW w \in Users, SendCancel(w),
           NEW v \in Users, SomeUntouched(v)
    PROVE  SomeUntouched(v)'
<1> DEFINE o == Head(open[w])
           r == [user |-> w, kind |-> "cancel", token |-> Desk(o), order |-> o]
<1>1. Send(w, r) /\ r.kind = "cancel" /\ r.order = o
  BY DEF SendCancel
<1>2. o \in Tracked(w) /\ o \in Orders
  <2>1. open[w] # <<>> /\ 1 \in DOMAIN open[w] /\ Head(open[w]) = open[w][1]
    BY HeadTailProperties, EmptySeq, TrackedAreOrders DEF SendCancel
  <2> QED
    BY <2>1, TrackedAreOrders DEF Tracked
<1> HIDE DEF r, o
<1>3. /\ net' = net \cup {r} /\ call'[w] = r /\ reply'[w] = "pending"
      /\ \A u \in Users \ {w} : call'[u] = call[u] /\ reply'[u] = reply[u]
  BY <1>1, SendFrame
<1>4. UNCHANGED <<open, links, life, up, recorded>> /\ ~Waiting(w)
  BY DEF SendCancel, MayStart, server
<1>5. PICK U \in SUBSET Orders : Untouched(v, U)
  BY DEF SomeUntouched
<1>6. CASE v # w
  <2>1. Tracked(w)' = Tracked(w) /\ Newborn(w)' = {}
    BY <1>1, <1>3, <1>4 DEF Tracked, Newborn, Creating
  <2>2. U \cap Tracked(w) = {}
    BY <1>5, <1>6 DEF Untouched
  <2>3. Untouched(v, U)'
    BY <1>1, <1>2, <1>3, <1>4, <1>5, <1>6, <2>1, <2>2, UntouchedByOther
  <2> QED
    BY <2>3 DEF SomeUntouched
<1>7. CASE v = w
  <2> PICK V \in SUBSET U : V = U \ Below(o)
    OBVIOUS
  <2>1. /\ Tracked(v) \cap Below(o) \subseteq Subtree(v, o)
        /\ Subtree(v, o) \subseteq Below(o) /\ o \in Below(o)
        /\ \A d \in Orders : up[d] \in Below(o) => d \in Below(o)
    BY <1>2, <1>4, <1>5, <1>7, TrackedBelow, SubtreeIsBelow, BelowClosed
  <2>2. r # None
    <3>1. r \in Requests
      BY <1>2, TrackedAreOrders DEF r, Requests
    <3> QED
      BY <3>1, OrderLoadAssumption
  <2>3. /\ Newborn(v) = {} /\ Doomed(v) = {} /\ Newborn(v)' = {} /\ Tracked(v)' = Tracked(v)
    BY <1>1, <1>3, <1>4, <1>7
       DEF Newborn, Doomed, Creating, Cancelling, Waiting, Tracked
  <2>4. Doomed(v)' = Subtree(v, o)
    BY <1>1, <1>3, <1>4, <1>7, <2>2 DEF Doomed, Cancelling, Waiting, Subtree
  <2>5. \A u \in Users \ {v} : Tracked(u)' = Tracked(u) /\ Newborn(u)' = Newborn(u)
    BY <1>3, <1>4, <1>7 DEF Tracked, Newborn, Creating, Waiting, Named
  <2>6. V \in SUBSET Orders /\ \A d \in V : up[d] \in V \cup {None}
    BY <1>5, <2>1 DEF Untouched
  <2>7. (Tracked(v) \ Subtree(v, o)) \subseteq V
    BY <1>5, <2>1, <2>3 DEF Untouched
  <2>8. V \cap Subtree(v, o) = {} /\ o \notin V
    BY <2>1
  <2>9. Untouched(v, V)'
    BY <1>1, <1>3, <1>4, <1>5, <2>3, <2>4, <2>5, <2>6, <2>7, <2>8 DEF Untouched
  <2> QED
    BY <2>6, <2>9 DEF SomeUntouched
<1> QED
  BY <1>6, <1>7

\* A user gets an answer or stops waiting: it tracks the order it submitted, or gives it
\* up if it cannot read the answer, or it forgets what it cancelled.
LEMMA UntouchedAnswered ==
    ASSUME TypeOK, TypeOK', FreshKeys, resent = {}, SetupHeld, options.children,
           NEW w \in Users,
           SubmitAnswered(w) \/ SubmitFailed(w) \/ CancelAnswered(w) \/ CancelAllAnswered(w),
           NEW v \in Users, NEW U \in SUBSET Orders, Untouched(v, U)
    PROVE  SomeUntouched(v)'
<1> DEFINE c == call[w]
<1>1. PICK kind : Received(w, kind) /\ c.kind = kind
  BY ReceivedFrame DEF SubmitAnswered, SubmitFailed, CancelAnswered, CancelAllAnswered
<1>2. /\ Waiting(w) /\ ~Waiting(w)'
      /\ \A u \in Users \ {w} : call'[u] = call[u] /\ reply'[u] = reply[u]
      /\ UNCHANGED <<life, up, recorded, net>>
  BY <1>1, ReceivedFrame DEF server
<1>3. Newborn(w)' = {} /\ Doomed(w)' = {}
  BY <1>2 DEF Newborn, Doomed, Creating, Cancelling
<1>4. OldestFirst(w) /\ Distinct(w) /\ \A l \in links[w] : l[1] \in Tracked(w)
  BY DEF FreshKeys, TrackedStand
<1>5. ASSUME /\ Tracked(w)' \subseteq Tracked(w) \cup Newborn(w)
             /\ \A u \in Users \ {w} : open'[u] = open[u] /\ links'[u] = links[u],
             v # w
      PROVE  SomeUntouched(v)'
  <2>1. U \cap (Tracked(w) \cup Newborn(w)) = {}
    BY <1>5 DEF Untouched
  <2>2. Untouched(v, U)'
    BY <1>2, <1>3, <1>5, <2>1, UntouchedByOther
  <2> QED
    BY <2>2 DEF SomeUntouched
<1>6. ASSUME v = w, Tracked(v)' \subseteq U,
             \A u \in Users \ {w} : open'[u] = open[u],
             \A d \in U : up[d] \in Tracked(v)' =>
                 d \in Tracked(v)' /\ <<up[d], d>> \in links'[v]
      PROVE  SomeUntouched(v)'
  <2>1. \A u \in Users \ {v} : call'[u] = call[u] /\ reply'[u] = reply[u] /\ open'[u] = open[u]
    BY <1>2, <1>6
  <2>2. \A u \in Users \ {v} : Tracked(u)' = Tracked(u) /\ Newborn(u)' = Newborn(u)
    BY <2>1 DEF Tracked, Newborn, Creating, Waiting, Named
  <2>3. Untouched(v, U)'
    BY <1>2, <1>3, <1>6, <2>2 DEF Untouched
  <2> QED
    BY <2>3 DEF SomeUntouched
<1>7. CASE CancelAllAnswered(w)
  BY <1>1, <1>7, AwaitedCall DEF SetupHeld, CancelAllAnswered, Received
<1>8. ASSUME UNCHANGED <<open, links>>, kind = "create", reply[w] # "ok"
      PROVE  SomeUntouched(v)'
  <2>1. Tracked(w)' = Tracked(w) /\ Newborn(w) = {} /\ Doomed(w) = {}
    BY <1>1, <1>2, <1>8 DEF Tracked, Newborn, Doomed, Creating, Cancelling
  <2>2. CASE v = w
    BY <1>6, <1>8, <2>1, <2>2 DEF Untouched
  <2> QED
    BY <1>5, <1>8, <2>1, <2>2
<1>9. CASE SubmitFailed(w)
  BY <1>1, <1>8, <1>9, ReceivedFrame DEF SubmitFailed, Received
<1>10. CASE CancelAnswered(w)
  <2>1. Cancelling(w) /\ Forget(w, c.order)
    BY <1>2, <1>10 DEF CancelAnswered, Received, Cancelling
  <2>2. /\ Tracked(w)' = Tracked(w) \ Doomed(w) /\ Newborn(w) = {}
        /\ links'[w] = {l \in links[w] : l[1] \notin Doomed(w)}
        /\ \A u \in Users \ {w} : open'[u] = open[u] /\ links'[u] = links[u]
    BY <2>1, ForgetEffect DEF Doomed, Newborn, Creating, Cancelling
  <2>3. CASE v = w
    <3>1. \A d \in U : up[d] \in Tracked(v)' =>
              d \in Tracked(v)' /\ <<up[d], d>> \in links'[v]
      BY <2>2, <2>3 DEF Untouched
    <3> QED
      BY <1>6, <2>2, <2>3, <3>1 DEF Untouched
  <2> QED
    BY <1>5, <2>2, <2>3
<1>11. CASE SubmitAnswered(w)
  <2>1. Creating(w) /\ kind = "create" /\ Doomed(w) = {}
    BY <1>1, <1>2, <1>11 DEF SubmitAnswered, Received, Creating, Doomed, Cancelling
  <2>2. CASE reply[w] # "ok"
    BY <1>8, <1>11, <2>1, <2>2 DEF SubmitAnswered
  <2>3. CASE reply[w] = "ok"
    <3>0. PICK o \in Orders, p \in Orders \cup {None} : o = Named(c) /\ p = c.parent
      BY <2>1, AwaitedCall, RequestFields DEF Creating
    <3>1. o[2] = c.key /\ Newborn(w) = {o}
      BY <2>1, <2>3, <3>0 DEF Named, Newborn
    <3>2. up[o] = p /\ (p # None => p \in Tracked(w)) /\ \A t \in Tracked(w) : t[2] < o[2]
      BY <2>1, <2>3, <3>0, <3>1 DEF FreshKeys, SubmitsFresh
    <3>3. o \notin Tracked(w)
      <4>1. o[2] \in Nat
        BY TrackedAreOrders DEF Keys
      <4> QED
        BY <3>2, <4>1
    <3>4. CASE Track(w, o, p)
      <4>5. PICK evicted \in SUBSET Tracked(w) :
                /\ Tracked(w)' = (Tracked(w) \cup {o}) \ evicted
                /\ links'[w] = {l \in links[w] \cup ({p} \ {None}) \X {o} : l[1] \notin evicted}
                /\ \A e \in evicted, t \in Tracked(w)' : e[2] < t[2]
        <5>1. OldestFirst(w) /\ Distinct(w) /\ \A t \in Tracked(w) : t[2] < o[2]
          BY <1>4, <3>2
        <5> QED
          BY <3>0, <3>3, <3>4, <5>1, TrackEffect
      <4>6. \A u \in Users \ {w} : open'[u] = open[u] /\ links'[u] = links[u]
        BY <1>4, <3>0, <3>1, <3>2, <3>3, <3>4, TrackEffect
      <4>7. CASE v = w
        <5>1. ASSUME NEW d \in U, up[d] \in Tracked(v)'
              PROVE  d \in Tracked(v)' /\ <<up[d], d>> \in links'[v]
          <6>1. up[d] \notin evicted /\ up[d] \in Orders /\ up[d] # None
            BY <3>1, <4>5, <4>7, <5>1, TrackedAreOrders, NoneIsNoOrder
          <6>2. CASE d = o
            BY <3>2, <3>3, <4>5, <4>7, <5>1, <6>1, <6>2
          <6>3. CASE d # o
            <7>1. d \in Tracked(v) /\ <<up[d], d>> \in links[v]
              BY <3>1, <4>5, <4>7, <5>1, <6>3 DEF Untouched
            <7>2. up[d][2] < d[2] /\ up[d][2] \in Nat /\ d[2] \in Nat
              BY <6>1, TrackedAreOrders DEF Untouched, FreshKeys, ParentsOlder, Keys
            <7>3. d \notin evicted
              BY <4>5, <4>7, <5>1, <7>2
            <7> QED
              BY <4>5, <4>7, <6>1, <7>1, <7>3
          <6> QED
            BY <6>2, <6>3
        <5>2. Tracked(v)' \subseteq U
          BY <2>1, <3>1, <4>5, <4>7 DEF Untouched
        <5> QED
          BY <1>6, <4>6, <4>7, <5>1, <5>2
      <4> QED
        BY <1>5, <3>1, <4>5, <4>6, <4>7
    <3>5. CASE UNCHANGED <<open, links>>
      <4>1. Tracked(w)' = Tracked(w)
        BY <3>5 DEF Tracked
      <4>2. CASE v = w
        <5> PICK V \in SUBSET U : V = U \ {o}
          OBVIOUS
        <5>1. Doomed(v) = {} /\ Newborn(v) = {o} /\ Tracked(v)' \subseteq V
          BY <2>1, <3>1, <3>3, <4>1, <4>2 DEF Untouched
        <5>2. \A d \in V : up[d] # o
          <6> SUFFICES ASSUME NEW d \in V, up[d] = o PROVE FALSE
            OBVIOUS
          <6>1. <<o, d>> \in links[v]
            BY <5>1 DEF Untouched
          <6> QED
            BY <1>4, <3>3, <4>2, <6>1
        <5>3. \A d \in V : up[d] \in Tracked(v) => d \in Tracked(v) /\ <<up[d], d>> \in links[v]
          BY <5>1 DEF Untouched
        <5>4. \A d \in V : recorded[d] = "ok" /\ life[d] # "pending" /\ up[d] \in V \cup {None}
          BY <5>2 DEF Untouched
        <5>5. \A u \in Users \ {v} : Tracked(u)' = Tracked(u) /\ Newborn(u)' = Newborn(u)
          BY <1>2, <3>5, <4>2 DEF Tracked, Newborn, Creating, Waiting, Named
        <5>6. Untouched(v, V)'
          BY <1>2, <1>3, <3>5, <4>1, <4>2, <5>1, <5>3, <5>4, <5>5 DEF Untouched
        <5> QED
          BY <5>6 DEF SomeUntouched
      <4> QED
        BY <1>5, <3>5, <4>1, <4>2
    <3> QED
      BY <1>11, <2>3, <3>0, <3>4, <3>5 DEF SubmitAnswered
  <2> QED
    BY <2>2, <2>3
<1> QED
  BY <1>7, <1>9, <1>10, <1>11

\* The service accepts the submit of a user: the new order is that user's newborn.
LEMMA NewbornAfter ==
    ASSUME TypeOK, FreshKeys, resent = {}, NEW r \in net, ServiceStep(r), NEW v \in Users
    PROVE  /\ Accept(r) /\ call[v] = r /\ r.user = v => Newborn(v) = {} /\ Newborn(v)' = {Named(r)}
           /\ ~(Accept(r) /\ call[v] = r /\ r.user = v) => Newborn(v)' = Newborn(v)
<1>1. call' = call /\ Creating(v)' = Creating(v) /\ r \in Requests
  BY ServiceFrame DEF Creating, Waiting, TypeOK
<1>2. Creating(v) /\ reply[v] = "ok" => call[v] # r
  <2> SUFFICES ASSUME Creating(v), reply[v] = "ok", call[v] = r PROVE FALSE
    OBVIOUS
  <2>1. recorded[Named(r)] = "ok"
    BY DEF FreshKeys, SubmitsFresh
  <2>2. r.kind = "create"
    BY DEF Creating
  <2>3. recorded[Named(r)] = "none"
    BY <2>2 DEF FreshKeys, RequestsOnce
  <2> QED
    BY <2>1, <2>3
<1>3. CASE Accept(r) /\ call[v] = r /\ r.user = v
  <2>1. r.kind = "create" /\ reply'[v] = "ok"
    BY <1>3 DEF Accept, Creates, Answer, Awaited, TypeOK
  <2>2. Creating(v)
    BY <1>1, <1>3, <2>1, OrderLoadAssumption DEF Creating, Waiting
  <2> QED
    BY <1>1, <1>2, <1>3, <2>1, <2>2 DEF Newborn, Named
<1>4. CASE ~(Accept(r) /\ call[v] = r /\ r.user = v)
  <2>1. Creating(v) => (reply'[v] = "ok" <=> reply[v] = "ok")
    <3> SUFFICES ASSUME Creating(v), reply'[v] # reply[v], reply'[v] = "ok" \/ reply[v] = "ok"
                 PROVE  FALSE
      OBVIOUS
    <3>1. call[v] = r /\ r.kind = "create" /\ (reply'[v] = "ok" => Accept(r))
      BY ServiceReplies DEF FreshKeys, Creating
    <3>2. Accept(r) /\ r.user # v
      BY <1>2, <1>4, <3>1
    <3> QED
      BY <3>2 DEF Accept, Answer, TypeOK
  <2>2. UNCHANGED call /\ (Creating(v) <=> Waiting(v) /\ call[v].kind = "create")
    BY <1>1 DEF Creating
  <2>3. CASE Creating(v)
    BY <1>4, <2>1, <2>2, <2>3 DEF Newborn, Creating, Waiting, Named
  <2>4. CASE ~Creating(v)
    BY <1>4, <2>2, <2>4 DEF Newborn, Creating, Waiting
  <2> QED
    BY <2>3, <2>4
<1> QED
  BY <1>3, <1>4

\* The service handles, refuses or loses a request.
LEMMA UntouchedService ==
    ASSUME TypeOK, FreshKeys, resent = {}, CallsInFlight, SetupHeld, options.children,
           NEW r \in net, ServiceStep(r), NEW v \in Users, SomeUntouched(v)
    PROVE  SomeUntouched(v)'
<1>1. PICK U \in SUBSET Orders : Untouched(v, U)
  BY DEF SomeUntouched
<1>2. /\ net' = net \ {r} /\ UNCHANGED <<open, links, call>> /\ r \in Requests /\ r \in Sent
  BY ServiceFrame DEF TypeOK, Sent
<1>3. \A u \in Users : Tracked(u)' = Tracked(u) /\ Doomed(u)' = Doomed(u)
  BY <1>2 DEF Tracked, Doomed, Cancelling, Waiting, Subtree
<1>4. CASE ~Accept(r)
  <2>1. \A u \in Users : Newborn(u)' = Newborn(u)
    BY <1>4, NewbornAfter
  <2>2. \A d \in U : recorded'[d] = "ok" /\ up'[d] = up[d]
    BY <1>1, ServiceRecords DEF Untouched
  <2>3. \A d \in U : life'[d] = life[d]
    <3>1. CASE HandleCancel(r)
      <4> DEFINE S == Orders \ U
      <4>1. r.order \in S
        BY <1>1, <1>2, <3>1, RequestFields DEF HandleCancel, Untouched
      <4>2. \A d \in Orders : up[d] \in S => d \in S
        BY <1>1, NoneIsNoOrder DEF Untouched
      <4>3. Taken(r.order) \subseteq S
        <5>1. S \in SUBSET Orders
          OBVIOUS
        <5> HIDE DEF S
        <5> QED
          BY <4>1, <4>2, <5>1 DEF Taken
      <4> QED
        BY <1>1, <3>1, <4>3 DEF HandleCancel, TypeOK
    <3>2. CASE HandleCancelAll(r)
      BY <1>2, <3>2 DEF HandleCancelAll, SetupHeld
    <3>3. CASE ~HandleCancel(r) /\ ~HandleCancelAll(r)
      BY <1>4, <3>3 DEF ServiceStep, Refuse, AnswerFromRecord, RefuseExpired, Lose, server
    <3> QED
      BY <3>1, <3>2, <3>3
  <2>4. Untouched(v, U)'
    BY <1>1, <1>2, <1>3, <2>1, <2>2, <2>3 DEF Untouched
  <2> QED
    BY <2>4 DEF SomeUntouched
<1>5. CASE Accept(r)
  <2>1. PICK o \in Orders : o = Named(r)
    BY <1>2, <1>5, RequestFields DEF Accept, Creates
  <2>2. /\ recorded[o] = "none" /\ recorded'[o] = "ok" /\ life'[o] = "live"
        /\ up'[o] = r.parent /\ r.kind = "create"
        /\ \A d \in Orders \ {o} :
               recorded'[d] = recorded[d] /\ life'[d] = life[d] /\ up'[d] = up[d]
    BY <1>5, <2>1 DEF Accept, Creates, TypeOK
  <2>3. o \notin U /\ \A u \in Users : o \notin Tracked(u)
    BY <1>1, <2>2 DEF Untouched, FreshKeys, TrackedStand
  <2>4. CASE call[v] # r
    <3>1. Newborn(v)' = Newborn(v) /\ \A u \in Users : Newborn(u)' \subseteq Newborn(u) \cup {o}
      BY <2>1, <2>4, NewbornAfter
    <3>2. Untouched(v, U)'
      BY <1>1, <1>2, <1>3, <2>2, <2>3, <3>1 DEF Untouched
    <3> QED
      BY <3>2 DEF SomeUntouched
  <2>5. CASE call[v] = r
    <3>1. Creating(v) /\ r.user = v /\ Doomed(v) = {} /\ Newborn(v) = {} /\ Newborn(v)' = {o}
      <4>1. Creating(v) /\ Doomed(v) = {}
        BY <1>2, <2>2, <2>5, OrderLoadAssumption DEF Creating, Cancelling, Waiting, Doomed
      <4>2. r.user = v
        BY <2>5, <4>1 DEF CallsInFlight, Creating
      <4> QED
        BY <1>5, <2>1, <2>5, <4>1, <4>2, NewbornAfter
    <3>2. r.parent \in U \cup {None}
      BY <1>1, <2>5, <3>1 DEF FreshKeys, SubmitsFresh, Untouched
    <3>3. \A u \in Users \ {v} : o \notin Tracked(u) /\ Newborn(u)' = Newborn(u) /\ o \notin Newborn(u)
      <4>1. \A u \in Users \ {v} : Newborn(u)' = Newborn(u)
        BY <3>1, NewbornAfter
      <4>2. \A u \in Users : o \notin Newborn(u)
        BY <2>2 DEF Newborn, FreshKeys, SubmitsFresh
      <4> QED
        BY <2>3, <4>1, <4>2
    <3>4. \A q \in net : q.kind = "cancel" => q.order # o
      BY <2>2 DEF FreshKeys, RequestsOnce, Sent
    <3>5. \A d \in U : up[d] # o /\ d # o
      BY <1>1, <2>1, <2>3, NoneIsNoOrder DEF Untouched
    <3> DEFINE V == U \cup {o}
    <3>6. \A d \in V : recorded'[d] = "ok" /\ life'[d] # "pending" /\ up'[d] \in V \cup {None}
      BY <1>1, <2>2, <3>2, <3>5 DEF Untouched
    <3>7. \A d \in V \ Newborn(v)' : up'[d] \in (Tracked(v) \cup Newborn(v))' =>
              d \in Tracked(v)' /\ <<up'[d], d>> \in links'[v]
      BY <1>1, <1>2, <1>3, <2>2, <3>1, <3>5 DEF Untouched
    <3>8. /\ ((Tracked(v) \ Doomed(v)) \cup Newborn(v))' \subseteq V /\ V \cap Doomed(v)' = {}
          /\ \A q \in net' : q.kind = "cancel" => q.order \notin V
          /\ \A u \in Users \ {v} : V \cap (Tracked(u) \cup Newborn(u))' = {}
          /\ V \in SUBSET Orders
      BY <1>1, <1>2, <1>3, <3>1, <3>3, <3>4 DEF Untouched
    <3> HIDE DEF V
    <3>9. PICK W : W = V
      OBVIOUS
    <3>10. Untouched(v, W)'
      BY <3>6, <3>7, <3>8, <3>9 DEF Untouched
    <3> QED
      BY <3>8, <3>9, <3>10 DEF SomeUntouched
  <2> QED
    BY <2>4, <2>5
<1> QED
  BY <1>4, <1>5

\* What else happens only ends orders.
LEMMA UntouchedOther ==
    ASSUME TypeOK, OtherStep, NEW v \in Users, NEW U \in SUBSET Orders, Untouched(v, U)
    PROVE  Untouched(v, U)'
<1>1. UNCHANGED <<open, links, call, reply, net, up, recorded>>
  BY OtherFrame DEF generator
<1>2. \A u \in Users : /\ Tracked(u)' = Tracked(u) /\ Newborn(u)' = Newborn(u)
                       /\ Doomed(u)' = Doomed(u)
  BY <1>1 DEF Tracked, Newborn, Doomed, Creating, Cancelling, Waiting, Subtree, Named
<1>3. \A d \in Orders : life'[d] \in {life[d], "done"}
  BY DEF OtherStep, Setup, RefuseToRun, Expire, End, vars, server, TypeOK
<1> QED
  BY <1>1, <1>2, <1>3 DEF Untouched

\* While no key was sent again, what a user still tracks is out of the reach of every
\* cancel.
SafeInv == resent = {} /\ options.children => \A v \in Users : SomeUntouched(v)

\* No answer blames the generator itself.
SelfMade == {"parentPending"}
BlamelessInv ==
    resent = {} =>
        /\ \A v \in Users : reply[v] \notin SelfMade
        /\ guard \cap SelfMade = {}

LEMMA SafeInit == Init => SafeInv
<1> SUFFICES ASSUME Init, NEW v \in Users PROVE SomeUntouched(v)
  BY DEF SafeInv
<1>1. /\ net = {} /\ \A u \in Users : open[u] = <<>> /\ ~Waiting(u)
  BY DEF Init, Waiting
<1>2. DOMAIN <<>> = {} /\ \A u \in Users : DOMAIN open[u] = DOMAIN <<>>
  BY <1>1
<1>3. \A u \in Users : Tracked(u) = {} /\ Newborn(u) = {} /\ Doomed(u) = {}
  BY <1>1, <1>2 DEF Tracked, Newborn, Doomed, Creating, Cancelling
<1>4. Untouched(v, {})
  BY <1>1, <1>3 DEF Untouched
<1> QED
  BY <1>4 DEF SomeUntouched

LEMMA SafeStep ==
    ASSUME TypeOK, TypeOK', FreshKeys, CallsInFlight, SetupHeld, SafeInv, [Next]_vars
    PROVE  SafeInv'
<1> SUFFICES ASSUME resent = {}, options.children, NEW v \in Users
             PROVE  SomeUntouched(v)'
  BY OptionsStay, ResentGrows DEF SafeInv
<1>1. FreshKeys /\ resent = {} /\ SomeUntouched(v)
  BY DEF SafeInv
<1>2. PICK U \in SUBSET Orders : Untouched(v, U)
  BY <1>1 DEF SomeUntouched
<1>3. ASSUME NEW w \in Users, UserStep(w) PROVE SomeUntouched(v)'
  <2>1. CASE SubmitFresh(w) \/ SubmitReplay(w)
    <3>1. Untouched(v, U)'
      BY <1>2, <2>1, UntouchedSubmit
    <3> QED
      BY <1>2, <3>1 DEF SomeUntouched
  <2>2. CASE SendCancel(w)
    BY <1>1, <2>2, UntouchedSendCancel
  <2>3. CASE SendCancelAll(w)
    BY <2>3 DEF SendCancelAll, MayStart, SetupHeld
  <2>4. CASE SubmitAnswered(w) \/ SubmitFailed(w) \/ CancelAnswered(w) \/ CancelAllAnswered(w)
    BY <1>1, <1>2, <2>4, UntouchedAnswered
  <2> QED
    BY <1>3, <2>1, <2>2, <2>3, <2>4 DEF UserStep
<1>4. ASSUME NEW r \in net, ServiceStep(r) PROVE SomeUntouched(v)'
  BY <1>1, <1>4, UntouchedService
<1>5. CASE OtherStep
  <2>1. Untouched(v, U)'
    BY <1>2, <1>5, UntouchedOther
  <2> QED
    BY <1>2, <2>1 DEF SomeUntouched
<1> QED
  BY <1>3, <1>4, <1>5, StepKinds

\* A submit that somebody waits for names no parent whose cancellation is pending: it is in the set that cancels cannot reach.
LEMMA ParentStands ==
    ASSUME TypeOK, OneDesk, FreshKeys, SafeInv, resent = {},
           NEW v \in Users, Creating(v)
    PROVE  ParentRefusal(call[v].token, call[v].parent) \notin SelfMade
<1> DEFINE p == call[v].parent
<1>1. call[v] \in Sent /\ call[v].kind = "create" /\ call[v] \in Requests
  BY AwaitedCall DEF Creating
<1>2. CASE p = None
  BY <1>2 DEF ParentRefusal, SelfMade
<1>3. CASE p # None
  <2>1. options.children
    BY <1>1, <1>3 DEF OneDesk
  <2>2. p \in Tracked(v)
    BY <1>1, <1>3 DEF FreshKeys, SubmitsFresh
  <2>3. PICK U \in SUBSET Orders : Untouched(v, U)
    BY <2>1 DEF SafeInv, SomeUntouched
  <2>4. life[p] # "pending"
    BY <2>2, <2>3 DEF Untouched, Doomed, Creating, Cancelling
  <2> QED
    BY <2>2, <2>4 DEF ParentRefusal, SelfMade
<1> QED
  BY <1>2, <1>3

LEMMA BlamelessStep ==
    ASSUME TypeOK, OneDesk, FreshKeys, SafeInv, BlamelessInv, [Next]_vars
    PROVE  BlamelessInv'
<1> SUFFICES ASSUME resent = {}
             PROVE  /\ \A v \in Users : reply'[v] \notin SelfMade
                    /\ guard' \cap SelfMade = {}
  BY ResentGrows DEF BlamelessInv
<1>1. (\A v \in Users : reply[v] \notin SelfMade) /\ guard \cap SelfMade = {}
  BY DEF BlamelessInv
<1>2. ASSUME NEW v \in Users, UserStep(v)
      PROVE  /\ \A u \in Users : reply'[u] \notin SelfMade
             /\ guard' \cap SelfMade = {}
  <2>1. \A u \in Users : reply'[u] \in {reply[u], "pending"}
    <3>1. (\E r : Send(v, r)) \/ \E kind : Received(v, kind)
      BY <1>2 DEF UserStep, SubmitFresh, SubmitReplay, Submit, SendCancel, SendCancelAll,
         SubmitAnswered, SubmitFailed, CancelAnswered, CancelAllAnswered
    <3> QED
      BY <3>1 DEF Send, Received, TypeOK
  <2>2. guard' \subseteq guard \cup {reply[v]}
    BY <1>2 DEF UserStep, SubmitFresh, SubmitReplay, SendCancel, SendCancelAll,
       SubmitAnswered, SubmitFailed, CancelAnswered, CancelAllAnswered, CancelRefusal
  <2>3. "pending" \notin SelfMade
    BY DEF SelfMade
  <2> QED
    BY <1>1, <2>1, <2>2, <2>3
<1>3. ASSUME NEW r \in net, ServiceStep(r)
      PROVE  \A u \in Users : reply'[u] \notin SelfMade
  <2> SUFFICES ASSUME NEW u \in Users, reply'[u] \in SelfMade PROVE FALSE
    OBVIOUS
  <2>1. call[u] = r /\ RequestsOnce
    BY <1>1, <1>3, ServiceReplies DEF FreshKeys
  <2>2. ASSUME NEW status, Answer(r, status) PROVE status \in SelfMade
    BY <1>1, <2>2 DEF Answer, TypeOK
  <2>3. CASE Accept(r) \/ HandleCancel(r) \/ HandleCancelAll(r) \/ RefuseExpired(r)
    <3>1. \E status : Answer(r, status) /\ status \notin SelfMade
      BY <2>3 DEF Accept, HandleCancel, HandleCancelAll, RefuseExpired, SelfMade
    <3> QED
      BY <2>2, <3>1
  <2>4. CASE Lose(r)
    BY <1>1, <2>4 DEF Lose, generator
  <2>5. CASE AnswerFromRecord(r)
    BY <2>1, <2>5 DEF AnswerFromRecord, Creates, RequestsOnce
  <2>6. CASE Refuse(r)
    <3>1. Creating(u)
      BY <2>1, <2>6, OrderLoadAssumption DEF Refuse, Creates, Creating, Waiting, TypeOK
    <3>2. ParentRefusal(r.token, r.parent) \notin SelfMade
      BY <2>1, <3>1, ParentStands
    <3>3. \E status : Answer(r, status) /\ status \notin SelfMade
      <4>1. CASE ParentRefusal(r.token, r.parent) = "none"
        <5>1. Answer(r, "business")
          BY <2>6, <4>1 DEF Refuse
        <5> QED
          BY <5>1 DEF SelfMade
      <4>2. CASE ParentRefusal(r.token, r.parent) # "none"
        <5>1. Answer(r, ParentRefusal(r.token, r.parent))
          BY <2>6, <4>2 DEF Refuse
        <5> QED
          BY <3>2, <5>1
      <4> QED
        BY <4>1, <4>2
    <3> QED
      BY <2>2, <3>3
  <2> QED
    BY <1>3, <2>3, <2>4, <2>5, <2>6 DEF ServiceStep
<1>4. CASE OtherStep
  BY <1>1, <1>4, OtherFrame DEF generator
<1> QED
  BY <1>1, <1>2, <1>3, <1>4, StepKinds, ServiceFrame

\* The generator never makes the service refuse a submit by its own doing: it sends no
\* child to another desk than its parent's, and, as long as no key was sent again, none
\* below an order that it, or any other user, has begun to cancel, for any number of
\* users, tokens and tracked orders.
THEOREM NoSelfMadeRefusals == Spec => []NoSelfMadeRefusal
<1>1. Init => CallsInFlight /\ SetupHeld /\ SafeInv /\ BlamelessInv
  <2>1. Init => CallsInFlight /\ SetupHeld /\ BlamelessInv
    BY DEF Init, CallsInFlight, SetupHeld, BlamelessInv, SelfMade, Sent, Waiting
  <2> QED
    BY <2>1, SafeInit
<1>2. TypeOK /\ CallsInFlight /\ [Next]_vars => CallsInFlight'
  BY CallsInFlightStep
<1>3. TypeOK /\ SetupHeld /\ [Next]_vars => SetupHeld'
  BY SetupHeldStep
<1>4. TypeOK /\ TypeOK' /\ FreshKeys /\ CallsInFlight /\ SetupHeld /\ SafeInv /\ [Next]_vars
          => SafeInv'
  BY SafeStep
<1>5. TypeOK /\ OneDesk /\ FreshKeys /\ SafeInv /\ BlamelessInv /\ [Next]_vars => BlamelessInv'
  BY BlamelessStep
<1>6. OneDesk /\ BlamelessInv => NoSelfMadeRefusal
  BY DEF OneDesk, BlamelessInv, NoSelfMadeRefusal, SelfMade
<1> QED
  BY <1>1, <1>2, <1>3, <1>4, <1>5, <1>6, TypeCorrect, FreshCorrect, OneDeskHolds, PTL DEF Spec

=============================================================================

----------------------------- MODULE EdgeProofs -----------------------------
(***************************************************************************)
(* Proofs about Edge, for any addresses, credentials, secrets, bodies,     *)
(* limits and lifetimes: whose address a request counts for, what of an    *)
(* event is stored, how many requests pass, and whom a token admits.       *)
(***************************************************************************)
EXTENDS Edge, FiniteSetTheorems, WellFoundedInduction, SequenceTheorems, TLAPS

(* What is said of all natural numbers, of recursive functions and of texts. *)

\* A set of natural numbers has a least one: a finite set of finite sets has a least.
LEMMA Least ==
  ASSUME NEW T, T \subseteq Nat, T # {}
  PROVE \E x \in T : \A y \in T : x <= y
<1> DEFINE D == {0..x : x \in T}
<1>1. D \subseteq FiniteSubsetsOf(Nat) /\ D # {}
  <2>1. \A x \in Nat : IsFiniteSet(0..x)
    BY FS_Interval
  <2>2. \A x \in T : 0..x \in FiniteSubsetsOf(Nat)
    <3>1. SUFFICES ASSUME NEW x \in T PROVE 0..x \in FiniteSubsetsOf(Nat)
      OBVIOUS
    <3>2. x \in Nat /\ 0..x \subseteq Nat
      OBVIOUS
    <3> QED BY <2>1, <3>2 DEF FiniteSubsetsOf
  <2>3. D # {}
    OBVIOUS
  <2> QED BY <2>2, <2>3
<1>2. IsWellFoundedOn(StrictSubsetOrdering(Nat), FiniteSubsetsOf(Nat))
  BY FS_StrictSubsetOrderingWellFounded
<1>3. PICK d \in D : \A e \in D : ~ (<<e, d>> \in StrictSubsetOrdering(Nat))
  <2> HIDE DEF D
  <2> QED BY <1>1, <1>2, WFMin
<1>4. PICK x \in T : d = 0..x
  OBVIOUS
<1>5. ASSUME NEW y \in T PROVE x <= y
  <2>1. SUFFICES ASSUME y < x PROVE FALSE
    OBVIOUS
  <2>2. 0..y \in D /\ 0..y \subseteq Nat /\ 0..x \subseteq Nat
    OBVIOUS
  <2>3. 0..y \subseteq 0..x /\ 0..y # 0..x
    <3>1. x \in 0..x /\ x \notin 0..y
      BY <2>1
    <3> QED BY <2>1, <3>1
  <2>5. IsFiniteSet(0..y) /\ IsFiniteSet(0..x)
    BY FS_Interval
  <2>4. <<0..y, 0..x>> \in StrictSubsetOrdering(Nat)
    BY <2>2, <2>3, <2>5 DEF StrictSubsetOrdering, FiniteSubsetsOf
  <2> QED BY <1>3, <1>4, <2>2, <2>4
<1> QED BY <1>5

\* A set that has 0, and with every number the next, has them all.
LEMMA Induction ==
  ASSUME NEW S, 0 \in S, \A n \in Nat : n \in S => n + 1 \in S
  PROVE Nat \subseteq S
<1>1. SUFFICES ASSUME Nat \ S # {} PROVE FALSE
  OBVIOUS
<1>2. PICK x \in Nat \ S : \A y \in Nat \ S : x <= y
  BY <1>1, Least
<1>3. x # 0 /\ x - 1 \in Nat
  BY <1>2
<1>4. x - 1 \in S
  BY <1>2, <1>3
<1>5. (x - 1) + 1 = x
  BY <1>2
<1> QED BY <1>2, <1>3, <1>4, <1>5

\* g begins with x, and goes on for n steps from one value to the next.
Iterates(g, X, x, step, n) ==
  g \in [0 .. n -> X] /\ g[0] = x /\ \A i \in 1 .. n : g[i] = step[i][g[i - 1]]

\* A recursive definition along 0 .. n defines something.
LEMMA Recursion ==
  ASSUME NEW X, NEW x \in X, NEW step \in [Nat -> [X -> X]], NEW n \in Nat
  PROVE  \E g : Iterates(g, X, x, step, n)
<1> DEFINE Good(k, g) == g[0] = x /\ \A i \in 1 .. k : g[i] = step[i][g[i - 1]]
           S == {k \in Nat : \E g \in [0 .. k -> X] : Good(k, g)}
<1>1. 0 \in S
  <2>1. [i \in 0 .. 0 |-> x] \in [0 .. 0 -> X] /\ Good(0, [i \in 0 .. 0 |-> x])
    OBVIOUS
  <2> QED BY <2>1
<1>2. ASSUME NEW k \in Nat, k \in S PROVE k + 1 \in S
  <2>1. PICK g \in [0 .. k -> X] : Good(k, g)
    BY <1>2
  <2> DEFINE h == [i \in 0 .. k + 1 |-> IF i = k + 1 THEN step[i][g[k]] ELSE g[i]]
  <2>2. /\ \A i \in 0 .. k : h[i] = g[i] /\ g[i] \in X
        /\ h[k + 1] = step[k + 1][g[k]] /\ h[k + 1] \in X
    OBVIOUS
  <2>3. h \in [0 .. k + 1 -> X]
    BY <2>2
  <2>4. Good(k + 1, h)
    <3>1. h[0] = x
      BY <2>1, <2>2
    <3>2. ASSUME NEW i \in 1 .. k + 1 PROVE h[i] = step[i][h[i - 1]]
      <4>1. CASE i = k + 1
        BY <2>2, <4>1
      <4>2. CASE i \in 1 .. k
        <5>1. i - 1 \in 0 .. k /\ i \in 0 .. k
          BY <4>2
        <5> QED BY <2>1, <2>2, <4>2, <5>1
      <4> QED BY <4>1, <4>2
    <3> HIDE DEF h
    <3> QED BY <3>1, <3>2
  <2> HIDE DEF h, Good
  <2> QED BY <2>3, <2>4
<1>3. n \in S
  <2> HIDE DEF S
  <2> QED BY <1>1, <1>2, Induction
<1> QED
  BY <1>3 DEF Iterates

\* Each rune begins where the one before it ends.
LEMMA OffsetsDef ==
  ASSUME NEW s \in Seq(Nat)
  PROVE  /\ Offsets(s) \in [0 .. Len(s) -> Nat] /\ Offsets(s)[0] = 0
         /\ \A k \in 1 .. Len(s) : Offsets(s)[k] = Offsets(s)[k - 1] + s[k]
<1> DEFINE n == Len(s)
           step == [k \in Nat |-> [v \in Nat |-> IF k \in 1 .. n THEN v + s[k] ELSE 0]]
           F(f) == f = [k \in 0 .. n |-> IF k = 0 THEN 0 ELSE f[k - 1] + s[k]]
<1>0. n \in Nat /\ \A k \in 1 .. n : s[k] \in Nat
  OBVIOUS
<1>1. step \in [Nat -> [Nat -> Nat]]
  BY <1>0
<1>2. PICK g : Iterates(g, Nat, 0, step, n)
  <2> HIDE DEF step, n
  <2> QED BY <1>0, <1>1, Recursion
<1>25. /\ g \in [0 .. n -> Nat] /\ g[0] = 0
       /\ \A i \in 1 .. n : g[i] = step[i][g[i - 1]]
  BY <1>2 DEF Iterates
<1>3. ASSUME NEW i \in 1 .. n PROVE g[i] = g[i - 1] + s[i]
  <2>1. i \in Nat /\ i - 1 \in 0 .. n /\ g[i - 1] \in Nat
    BY <1>0, <1>25, <1>3
  <2>2. step[i][g[i - 1]] = g[i - 1] + s[i]
    BY <2>1
  <2> QED BY <1>25, <2>2
<1>4. F(g)
  BY <1>25, <1>3
<1>5. F(Offsets(s))
  <2>1. Offsets(s) = CHOOSE f : F(f)
    BY DEF Offsets
  <2> HIDE DEF F
  <2> QED BY <1>4, <2>1
<1> DEFINE o == Offsets(s)
<1> HIDE DEF o, step
<1>6. /\ o[0] = 0 /\ DOMAIN o = 0 .. n /\ o = [i \in 0 .. n |-> o[i]]
      /\ \A k \in 1 .. n : o[k] = o[k - 1] + s[k]
  BY <1>0, <1>5 DEF o
<1> HIDE DEF F
<1> DEFINE S == {k \in Nat : k <= n => o[k] \in Nat}
<1>7. 0 \in S
  BY <1>6
<1>8. ASSUME NEW k \in Nat, k \in S PROVE k + 1 \in S
  <2>1. SUFFICES ASSUME k + 1 <= n PROVE o[k + 1] \in Nat
    OBVIOUS
  <2>2. k + 1 \in 1 .. n /\ (k + 1) - 1 = k /\ o[k] \in Nat
    BY <1>0, <1>8, <2>1
  <2>3. o[k + 1] = o[(k + 1) - 1] + s[k + 1] /\ s[k + 1] \in Nat
    BY <1>0, <1>6, <2>2
  <2> QED BY <2>2, <2>3
<1>9. \A k \in 0 .. n : o[k] \in Nat
  <2>1. Nat \subseteq S
    <3> HIDE DEF S
    <3> QED BY <1>7, <1>8, Induction
  <2> QED BY <1>0, <2>1
<1> QED
  BY <1>6, <1>9 DEF o

\* No rune of a text begins after its end.
LEMMA StartsWithin ==
  ASSUME NEW s \in Seq(Nat)
  PROVE  /\ Size(s) \in Nat /\ RuneStarts(s) \subseteq 0 .. Size(s)
         /\ {0, Size(s)} \subseteq RuneStarts(s)
<1> DEFINE n == Len(s)
           o == Offsets(s)
<1>1. /\ n \in Nat /\ \A k \in 1 .. n : s[k] \in Nat
      /\ o \in [0 .. n -> Nat] /\ o[0] = 0
      /\ \A k \in 1 .. n : o[k] = o[k - 1] + s[k]
  BY OffsetsDef
<1> HIDE DEF n, o
<1> DEFINE S == {j \in Nat : j <= n => o[n - j] <= o[n]}
<1>2. 0 \in S
  BY <1>1
<1>3. ASSUME NEW j \in Nat, j \in S PROVE j + 1 \in S
  <2>1. SUFFICES ASSUME j + 1 <= n PROVE o[n - (j + 1)] <= o[n]
    OBVIOUS
  <2>2. /\ n - j \in 1 .. n /\ (n - j) - 1 = n - (j + 1) /\ (n - j) - 1 \in 0 .. n
        /\ n - j \in 0 .. n /\ n \in 0 .. n
    BY <1>1, <2>1
  <2>3. o[n - j] = o[n - (j + 1)] + s[n - j] /\ s[n - j] \in Nat
    BY <1>1, <2>2
  <2>4. o[n - j] <= o[n]
    BY <1>1, <1>3, <2>2
  <2>5. o[n - j] \in Nat /\ o[n - (j + 1)] \in Nat /\ o[n] \in Nat
    BY <1>1, <2>2
  <2> QED BY <2>3, <2>4, <2>5
<1>4. \A k \in 0 .. n : o[k] \in Nat /\ o[k] <= o[n]
  <2>1. Nat \subseteq S
    <3> HIDE DEF S
    <3> QED BY <1>2, <1>3, Induction
  <2>2. SUFFICES ASSUME NEW k \in 0 .. n PROVE o[k] <= o[n]
    BY <1>1
  <2>3. n - k \in Nat /\ n - k <= n /\ n - (n - k) = k
    BY <1>1
  <2> QED BY <2>1, <2>3
<1>5. 0 \in 0 .. n /\ n \in 0 .. n
  BY <1>1
<1> QED
  BY <1>1, <1>4, <1>5 DEF RuneStarts, Size, n, o

\* truncate keeps the runes that fit into the limit, all of them, and nothing of the next.
LEMMA TruncatedFits ==
  ASSUME NEW s \in Seq(Nat), NEW max \in Nat
  PROVE  /\ Truncated(s, max) \in RuneStarts(s) /\ Truncated(s, max) \in 0 .. max
         /\ \A m \in RuneStarts(s) : m <= max => m <= Truncated(s, max)
<1> DEFINE R == RuneStarts(s)
           step == [k \in Nat |-> [v \in Nat |-> IF k \in R THEN k ELSE v]]
           F(f) == f = [k \in 0 .. max |-> IF k > 0 /\ k \notin R THEN f[k - 1] ELSE k]
<1>1. Size(s) \in R /\ R \subseteq 0 .. Size(s) /\ 0 \in R /\ Size(s) \in Nat
  BY StartsWithin
<1> HIDE DEF R
<1>2. step \in [Nat -> [Nat -> Nat]]
  OBVIOUS
<1>3. PICK g : Iterates(g, Nat, 0, step, max)
  <2> HIDE DEF step
  <2> QED BY <1>2, Recursion
<1>4. /\ g \in [0 .. max -> Nat] /\ g[0] = 0
      /\ \A i \in 1 .. max : g[i] = step[i][g[i - 1]]
  BY <1>3 DEF Iterates
<1>5. ASSUME NEW i \in 1 .. max PROVE g[i] = IF i \in R THEN i ELSE g[i - 1]
  <2>1. i \in Nat /\ i - 1 \in 0 .. max /\ g[i - 1] \in Nat
    BY <1>4
  <2>2. step[i][g[i - 1]] = IF i \in R THEN i ELSE g[i - 1]
    BY <2>1
  <2> QED BY <1>4, <2>2
<1>6. F(g)
  BY <1>4, <1>5
<1> DEFINE back == CHOOSE f : F(f)
<1>7. F(back)
  <2> HIDE DEF F
  <2> QED BY <1>6
<1>8. Truncated(s, max) = IF Size(s) <= max THEN Size(s) ELSE back[max]
  BY DEF Truncated, R
<1> HIDE DEF back, step
<1>9. \A k \in 0 .. max : back[k] = IF k > 0 /\ k \notin R THEN back[k - 1] ELSE k
  BY <1>7
<1> HIDE DEF F
<1> DEFINE S == {k \in Nat : k <= max =>
                   /\ back[k] \in R /\ back[k] \in 0 .. k
                   /\ \A m \in R : m <= k => m <= back[k]}
<1>10. 0 \in S
  BY <1>1, <1>9
<1>11. ASSUME NEW k \in Nat, k \in S PROVE k + 1 \in S
  <2>1. SUFFICES ASSUME k + 1 <= max
                 PROVE  /\ back[k + 1] \in R /\ back[k + 1] \in 0 .. k + 1
                        /\ \A m \in R : m <= k + 1 => m <= back[k + 1]
    OBVIOUS
  <2>2. /\ back[k] \in R /\ back[k] \in 0 .. k
        /\ \A m \in R : m <= k => m <= back[k]
    BY <1>11, <2>1
  <2>3. back[k + 1] = IF k + 1 \notin R THEN back[k] ELSE k + 1
    BY <1>9, <2>1
  <2> QED BY <1>1, <2>2, <2>3
<1>12. max \in S
  <2> HIDE DEF S
  <2> QED BY <1>10, <1>11, Induction
<1>13. CASE Size(s) <= max
  BY <1>1, <1>8, <1>13 DEF R
<1>14. CASE ~ Size(s) <= max
  BY <1>8, <1>12, <1>14 DEF R
<1> QED
  BY <1>13, <1>14
-----------------------------------------------------------------------------
(* Whose address counts. *)

LEMMA Appended ==
  ASSUME NEW f \in Seq(Claims), NEW c \in Claims
  PROVE  /\ Append(f, c) \in Seq(Claims) /\ Len(Append(f, c)) = Len(f) + 1
         /\ Append(f, c)[Len(f) + 1] = c
         /\ DOMAIN Append(f, c) = 1 .. Len(f) + 1 /\ Len(f) \in Nat
  OBVIOUS

\* When k is the last place in X-Forwarded-For with a public address, that one counts.
LEMMA LastPublic ==
  ASSUME NEW m, NEW n \in Nat, DOMAIN m.forwarded = 1 .. n,
         NEW k \in 1 .. n, m.forwarded[k] \in Public,
         \A j \in 1 .. n : j > k => m.forwarded[j] \notin Public
  PROVE  Hops(m) # {} /\ m.forwarded[Max(Hops(m))] = m.forwarded[k]
<1>1. k \in Hops(m) /\ \A j \in Hops(m) : j \in Nat /\ k >= j
  BY DEF Hops
<1>2. Max(Hops(m)) = k
  <2>1. \A x \in Hops(m) : (\A y \in Hops(m) : x >= y) => x = k
    BY <1>1
  <2>2. QED
    BY <1>1, <2>1 DEF Max
<1>3. QED
  BY <1>1, <1>2

\* A public X-Real-IP from inside counts before anything else.
LEMMA RealFirst ==
  ASSUME NEW m, m.peer = Internal, m.real \in Public
  PROVE  ClientIP(m) = m.real
BY EdgeAssumption DEF ClientIP

\* Without one, the peer of the first proxy that writes X-Forwarded-For, alone or before
\* another proxy inside.
LEMMA FirstHop ==
  ASSUME NEW m, m.peer = Internal, m.real \notin Public,
         NEW c \in Public, NEW f \in Seq(Claims),
         m.forwarded \in {Append(f, c), Append(Append(f, c), Internal)}
  PROVE  ClientIP(m) = c
<1>1. Internal \notin Public /\ c \in Claims /\ Internal \in Claims
  BY EdgeAssumption DEF Claims
<1> SUFFICES Hops(m) # {} /\ m.forwarded[Max(Hops(m))] = c
  BY <1>1 DEF ClientIP
<1>2. CASE m.forwarded = Append(f, c)
  <2>1. /\ Len(f) + 1 \in Nat /\ DOMAIN m.forwarded = 1 .. Len(f) + 1
        /\ m.forwarded[Len(f) + 1] = c
    BY <1>1, <1>2, Appended
  <2>2. /\ Len(f) + 1 \in 1 .. Len(f) + 1
        /\ \A j \in 1 .. Len(f) + 1 : ~(j > Len(f) + 1)
    BY <1>1, Appended
  <2> QED BY <2>1, <2>2, LastPublic
<1>3. CASE m.forwarded = Append(Append(f, c), Internal)
  <2> DEFINE g == Append(f, c)
  <2>1. g \in Seq(Claims) /\ Len(g) = Len(f) + 1 /\ Len(f) \in Nat /\ g[Len(f) + 1] = c
    BY <1>1, Appended
  <2> HIDE DEF g
  <2>2. /\ DOMAIN m.forwarded = 1 .. Len(g) + 1
        /\ m.forwarded[Len(g) + 1] = Internal
        /\ m.forwarded[Len(g)] = c
    BY <1>1, <1>3, <2>1, Appended DEF g
  <2>3. /\ Len(g) + 1 \in Nat /\ Len(g) \in 1 .. Len(g) + 1
        /\ \A j \in 1 .. Len(g) + 1 : j > Len(g) => j = Len(g) + 1
    BY <2>1
  <2> QED BY <1>1, <2>2, <2>3, LastPublic
<1> QED
  BY <1>2, <1>3

\* What a proxy writes, header by header.
LEMMA Written ==
  ASSUME NEW p \in Proxies, NEW m
  PROVE  /\ Forwarded(p, m).peer = Internal
         /\ p.real \in {"set", "removed", "kept"}
         /\ p.real = "set" => Forwarded(p, m).real = m.peer
         /\ p.real = "removed" => Forwarded(p, m).real = Junk
         /\ p.real = "kept" => Forwarded(p, m).real = m.real
         /\ p.forwarded = "appended" => Forwarded(p, m).forwarded = Append(m.forwarded, m.peer)
         /\ p.forwarded # "appended" => Forwarded(p, m).forwarded = m.forwarded
         /\ p.real # "set" => p.forwarded = "appended"
BY DEF Proxies, Forwarded

\* What has come to the server over one proxy or two, and over none.
LEMMA WaysAre ==
  ASSUME NEW way \in Ways, NEW m
  PROVE  \/ way = <<>> /\ Arrived(way, m) = m /\ ~PassedOn(way)
         \/ \E p \in Proxies :
              /\ Arrived(way, m) = Forwarded(p, m)
              /\ PassedOn(way) <=> p.real = "kept"
         \/ \E p, q \in Proxies :
              /\ p.forwarded = "appended" \/ q.real = "kept"
              /\ Arrived(way, m) = Forwarded(q, Forwarded(p, m))
              /\ PassedOn(way) <=> p.real = "kept" /\ q.real = "kept"
<1>1. CASE way = <<>>
  BY <1>1 DEF Arrived, PassedOn
<1>2. ASSUME NEW p \in Proxies, way = <<p>>
      PROVE  Arrived(way, m) = Forwarded(p, m) /\ (PassedOn(way) <=> p.real = "kept")
  <2>1. way # <<>> /\ Len(way) = 1 /\ way[1] = p /\ DOMAIN way = {1}
    BY <1>2
  <2> QED BY <2>1 DEF Arrived, PassedOn
<1>3. ASSUME NEW p \in Proxies, NEW q \in Proxies, way = <<p, q>>
      PROVE  /\ Arrived(way, m) = Forwarded(q, Forwarded(p, m))
             /\ PassedOn(way) <=> p.real = "kept" /\ q.real = "kept"
  <2>1. way # <<>> /\ Len(way) = 2 /\ way[1] = p /\ way[2] = q /\ DOMAIN way = {1, 2}
    BY <1>3
  <2> QED BY <2>1 DEF Arrived, PassedOn
<1>4. \/ way = <<>> \/ \E p \in Proxies : way = <<p>>
      \/ \E p, q \in Proxies : /\ p.forwarded = "appended" \/ q.real = "kept"
                              /\ way = <<p, q>>
  <2>1. CASE \E w \in {v \in Proxies \X Proxies : v[1].forwarded = "appended" \/ v[2].real = "kept"} :
               way = <<w[1], w[2]>>
    <3>1. PICK w \in Proxies \X Proxies : /\ w[1].forwarded = "appended" \/ w[2].real = "kept"
                                         /\ way = <<w[1], w[2]>>
      BY <2>1
    <3>2. w[1] \in Proxies /\ w[2] \in Proxies
      OBVIOUS
    <3> QED BY <3>1, <3>2
  <2> QED BY <2>1 DEF Ways
<1> QED
  BY <1>1, <1>2, <1>3, <1>4

\* clientip.go: over one proxy or two, and whatever headers came along, a client outside is
\* taken for itself and for nobody else, but where no proxy writes X-Real-IP: there it is
\* taken for the public address it puts into that header itself, if it does.
THEOREM OwnAddress ==
  \A c \in Public : \A m \in Sent(c) : \A way \in Ways :
    ClientIP(Arrived(way, m)) = IF PassedOn(way) /\ m.real \in Public THEN m.real ELSE c
<1> SUFFICES ASSUME NEW c \in Public, NEW m \in Sent(c), NEW way \in Ways
             PROVE  ClientIP(Arrived(way, m)) =
                      IF PassedOn(way) /\ m.real \in Public THEN m.real ELSE c
  OBVIOUS
<1>1. Internal \notin Public /\ Junk \notin Public /\ Internal # Junk /\ c \in Claims
  BY EdgeAssumption DEF Claims, Internal, Junk
<1>2. m.peer = c /\ m.forwarded \in Seq(Claims)
  <2>1. <<>> \in Seq(Claims) /\ \A a \in Claims : <<a>> \in Seq(Claims)
    OBVIOUS
  <2>2. PICK r \in Claims, f \in {<<>>} \cup {<<a>> : a \in Claims} :
          m = [peer |-> c, real |-> r, forwarded |-> f]
    BY DEF Sent, Direct
  <2> QED BY <2>1, <2>2
<1>3. CASE way = <<>>
  <2>1. Arrived(way, m) = m /\ ~PassedOn(way)
    BY <1>3 DEF Arrived, PassedOn
  <2> QED BY <1>2, <2>1 DEF ClientIP
<1>4. ASSUME NEW p \in Proxies, Arrived(way, m) = Forwarded(p, m),
             PassedOn(way) <=> p.real = "kept"
      PROVE  ClientIP(Arrived(way, m)) = IF PassedOn(way) /\ m.real \in Public THEN m.real ELSE c
  <2> DEFINE n == Forwarded(p, m)
  <2>1. /\ n.peer = Internal
        /\ p.real \in {"set", "removed", "kept"}
        /\ p.real = "set" => n.real = c
        /\ p.real = "removed" => n.real = Junk
        /\ p.real = "kept" => n.real = m.real
        /\ p.real # "set" => n.forwarded = Append(m.forwarded, c)
    BY <1>2, Written
  <2> HIDE DEF n
  <2>2. CASE n.real \in Public
    BY <1>1, <1>4, <2>1, <2>2, RealFirst DEF n
  <2>3. CASE n.real \notin Public
    <3>1. n.forwarded \in {Append(m.forwarded, c), Append(Append(m.forwarded, c), Internal)}
      BY <2>1, <2>3
    <3>2. ClientIP(n) = c
      BY <1>2, <2>1, <2>3, <3>1, FirstHop
    <3> QED BY <1>4, <2>1, <2>3, <3>2 DEF n
  <2> QED BY <2>2, <2>3
<1>5. ASSUME NEW p \in Proxies, NEW q \in Proxies,
             p.forwarded = "appended" \/ q.real = "kept",
             Arrived(way, m) = Forwarded(q, Forwarded(p, m)),
             PassedOn(way) <=> p.real = "kept" /\ q.real = "kept"
      PROVE  ClientIP(Arrived(way, m)) = IF PassedOn(way) /\ m.real \in Public THEN m.real ELSE c
  <2> DEFINE n == Forwarded(p, m)
             o == Forwarded(q, n)
  <2>1. /\ n.peer = Internal
        /\ p.real \in {"set", "removed", "kept"}
        /\ p.real = "set" => n.real = c
        /\ p.real = "removed" => n.real = Junk
        /\ p.real = "kept" => n.real = m.real
        /\ p.forwarded = "appended" => n.forwarded = Append(m.forwarded, c)
        /\ p.real # "set" => p.forwarded = "appended"
    BY <1>2, Written
  <2>2. /\ o.peer = Internal
        /\ q.real \in {"set", "removed", "kept"}
        /\ q.real = "set" => o.real = Internal
        /\ q.real = "removed" => o.real = Junk
        /\ q.real = "kept" => o.real = n.real
        /\ o.forwarded \in {n.forwarded, Append(n.forwarded, Internal)}
    <3> HIDE DEF n
    <3> QED BY <2>1, Written
  <2> HIDE DEF n, o
  <2>3. CASE o.real \in Public
    BY <1>1, <1>5, <2>1, <2>2, <2>3, RealFirst DEF n, o
  <2>4. CASE o.real \notin Public
    <3>1. p.forwarded = "appended"
      BY <1>5, <2>1, <2>2, <2>4
    <3>2. o.forwarded \in {Append(m.forwarded, c), Append(Append(m.forwarded, c), Internal)}
      BY <2>1, <2>2, <3>1
    <3>3. ClientIP(o) = c
      BY <1>2, <2>2, <2>4, <3>2, FirstHop
    <3>4. PassedOn(way) => m.real \notin Public
      BY <1>5, <2>1, <2>2, <2>4
    <3> QED BY <1>5, <3>3, <3>4 DEF n, o
  <2> QED BY <2>3, <2>4
<1> QED
  BY <1>3, <1>4, <1>5, WaysAre

LEMMA AppendedTwice ==
  ASSUME NEW x
  PROVE  Append(<<>>, x) = <<x>> /\ Append(<<x>>, x) = <<x, x>>
<1>1. Append(<<>>, x) = <<x>>
  OBVIOUS
<1>2. /\ <<x>> \in Seq({x}) /\ <<x, x>> \in Seq({x}) /\ Append(<<x>>, x) \in Seq({x})
      /\ Len(Append(<<x>>, x)) = 2 /\ Len(<<x, x>>) = 2
      /\ \A i \in 1 .. 2 : Append(<<x>>, x)[i] = <<x, x>>[i]
  OBVIOUS
<1>3. Append(<<x>>, x) = <<x, x>>
  BY <1>2, SeqEqual
<1> QED
  BY <1>1, <1>3

\* And a client inside for the proxies, of which it is one.
LEMMA InsideAddress ==
  ASSUME NEW m \in Sent(Internal), NEW way \in Ways
  PROVE  ClientIP(Arrived(way, m)) = Internal
<1> DEFINE Inside(n) == /\ n.peer = Internal /\ n.real \in {Internal, Junk}
                        /\ n.forwarded \in {<<>>, <<Internal>>, <<Internal, Internal>>}
<1>1. Internal \notin Public /\ Junk \notin Public
  BY EdgeAssumption
<1>2. m.peer = Internal /\ m.real = Junk /\ m.forwarded = <<>>
  BY <1>1 DEF Sent
<1> DEFINE one == <<Internal>>
<1>7. Append(<<>>, Internal) = one /\ Append(one, Internal) = <<Internal, Internal>>
  BY AppendedTwice
<1> HIDE DEF one
<1>3. ASSUME NEW p \in Proxies
      PROVE  /\ Forwarded(p, m).peer = Internal /\ Forwarded(p, m).real \in {Internal, Junk}
             /\ Forwarded(p, m).forwarded \in {<<>>, one}
  BY <1>2, <1>7, Written
<1>4. ASSUME NEW p \in Proxies, NEW q \in Proxies PROVE Inside(Forwarded(q, Forwarded(p, m)))
  <2> DEFINE n == Forwarded(p, m)
  <2>1. n.peer = Internal /\ n.real \in {Internal, Junk} /\ n.forwarded \in {<<>>, one}
    BY <1>3
  <2> HIDE DEF n
  <2>2. Inside(Forwarded(q, n))
    <3>1. /\ Forwarded(q, n).peer = Internal /\ Forwarded(q, n).real \in {Internal, Junk}
          /\ Forwarded(q, n).forwarded \in {n.forwarded, Append(n.forwarded, Internal)}
      BY <2>1, Written
    <3> QED BY <1>7, <2>1, <3>1 DEF one
  <2> QED BY <2>2 DEF n
<1>8. ASSUME NEW p \in Proxies PROVE Inside(Forwarded(p, m))
  BY <1>3 DEF one
<1>5. Inside(Arrived(way, m))
  <2>1. Inside(m)
    BY <1>2
  <2> HIDE DEF Inside
  <2> QED BY <1>4, <1>8, <2>1, WaysAre
<1>6. Hops(Arrived(way, m)) = {}
  BY <1>1, <1>5 DEF Hops
<1> QED
  BY <1>1, <1>5, <1>6 DEF ClientIP

\* Whom a request of c counts for, and that X-Real-IP it would be by.
OwnOrClaimed(c, a) ==
  /\ a.ip \in Clients
  /\ a.ip = IF c \in Public /\ a.claim \in Public THEN a.claim ELSE c

LEMMA OwnAddresses ==
  ASSUME NEW d \in Deployments, NEW c \in Clients, NEW a \in Addresses[d][c]
  PROVE  OwnOrClaimed(c, a)
<1>1. PICK way \in d, m \in Sent(c) :
        a = [ip |-> ClientIP(Arrived(way, m)), claim |-> IF PassedOn(way) THEN m.real ELSE Junk]
  BY DEF Addresses
<1>2. way \in Ways /\ Junk \notin Public /\ Internal \notin Public
  BY EdgeAssumption
<1>3. CASE c \in Public
  BY <1>1, <1>2, <1>3, OwnAddress DEF OwnOrClaimed, Clients
<1>4. CASE c = Internal
  BY <1>1, <1>2, <1>4, InsideAddress DEF OwnOrClaimed, Clients
<1> QED
  BY <1>3, <1>4 DEF Clients
-----------------------------------------------------------------------------
(* The tokens. *)

\* The tokens handed out, and what is being checked.
TokensHold ==
  /\ now \in Nat /\ checking \subseteq Credentials /\ used \subseteq Routes
  /\ \A t \in tokens : /\ t.by = [user |-> "admin", password |-> "admin's"]
                       /\ t.at \in Nat /\ t.at <= now
                       /\ t.token.end = (t.at + 2 * Lifetime) \div 2

LEMMA TokensInit == Init => TokensHold
  BY EdgeAssumption DEF Init, TokensHold

LEMMA TokensStep == TokensHold /\ [Next]_vars => TokensHold'
<1> SUFFICES ASSUME TokensHold, [Next]_vars PROVE TokensHold'
  OBVIOUS
<1>1. ASSUME NEW k \in checking, Checked(k) PROVE TokensHold'
  <2>1. \A t \in tokens' : t \in tokens \/ (/\ k.user = "admin" /\ PassOK(k)
                                            /\ t = [token |-> Generated, at |-> now, by |-> k])
    BY <1>1 DEF Checked
  <2>2. now' = now
    BY <1>1 DEF Checked
  <2>3. k \in [user : STRING, password : STRING]
    BY EdgeAssumption DEF TokensHold
  <2>4. (k.user = "admin" /\ PassOK(k)) => k = [user |-> "admin", password |-> "admin's"]
    BY <2>3 DEF PassOK
  <2>5. checking' \subseteq checking
    BY <1>1 DEF Checked
  <2>6. QED
    <3>1. Generated.end = (now + 2 * Lifetime) \div 2
      BY DEF Generated
    <3>2. used' = used
      BY <1>1 DEF Checked
    <3>3. QED
      BY <2>1, <2>2, <2>4, <2>5, <3>1, <3>2 DEF TokensHold
<1>2. CASE Tick
  BY <1>2 DEF Tick, TokensHold
<1>3. ASSUME now' = now, used' = used, tokens' \subseteq tokens,
             checking' \subseteq checking \cup Credentials
      PROVE  TokensHold'
  BY <1>3 DEF TokensHold
<1>4. ASSUME NEW c \in Clients PROVE
        /\ \A r \in used : TurnAway(r, c) => TokensHold'
        /\ \A body \in Bodies : Track(c, body) => TokensHold'
        /\ \A k \in Credentials : Login(c, k) => TokensHold'
  BY <1>3 DEF TurnAway, Track, Login
<1>5. ASSUME NEW t \in tokens, Enter(t) \/ Logout(t) PROVE TokensHold'
  BY <1>3, <1>5 DEF Enter, Logout
<1>6. CASE Restart \/ UNCHANGED vars
  BY <1>3, <1>6 DEF Restart, vars
<1>7. QED
  BY <1>1, <1>2, <1>4, <1>5, <1>6 DEF Next

\* A token's end is rounded down to a whole second.
LEMMA Rounded ==
  ASSUME NEW at \in Nat, NEW n \in Nat, NEW end, end = (at + 2 * Lifetime) \div 2
  PROVE  /\ n < 2 * end => n - at < 2 * Lifetime
         /\ ~(n < 2 * end) => n - at > 2 * (Lifetime - 1)
<1>1. Lifetime \in Nat
  BY EdgeAssumption
<1>2. QED
  BY <1>1

LEMMA Entered ==
  ASSUME TokensHold, NEW t \in tokens, Enter(t)
  PROVE  AdmittedByLogin'
<1>1. /\ last' = [op |-> "enter", admitted |-> Valid(t.token), with |-> t]
      /\ now' = now /\ secret' = secret
  BY DEF Enter
<1>2. /\ t.by = [user |-> "admin", password |-> "admin's"] /\ t.at \in Nat /\ now \in Nat
      /\ t.token.end = (t.at + 2 * Lifetime) \div 2
  BY DEF TokensHold
<1>3. Valid(t.token) => t.token.key = secret /\ now - t.at < 2 * Lifetime
  BY <1>2, Rounded DEF Valid
<1>4. ~Valid(t.token) => t.token.key # secret \/ now - t.at > 2 * (Lifetime - 1)
  BY <1>2, Rounded DEF Valid
<1>5. QED
  BY <1>1, <1>2, <1>3, <1>4 DEF AdmittedByLogin
-----------------------------------------------------------------------------
(* The rate limits: fixed windows, each beginning with a request. *)

\* The greatest of some places in a sequence.
LEMMA Greatest ==
  ASSUME NEW n \in Nat, NEW T, T \subseteq 1 .. n, T # {}
  PROVE  Max(T) \in T /\ \A y \in T : y <= Max(T)
<1> DEFINE D == {n - i : i \in T}
<1>1. D \subseteq Nat /\ D # {}
  <2>1. \A i \in T : n - i \in Nat
    OBVIOUS
  <2> QED BY <2>1
<1>2. PICK e \in D : \A f \in D : e <= f
  <2> HIDE DEF D
  <2> QED BY <1>1, Least
<1>3. PICK x \in T : e = n - x
  BY <1>2
<1>4. \A y \in T : x >= y
  <2> SUFFICES ASSUME NEW y \in T PROVE x >= y
    OBVIOUS
  <2>1. n - x <= n - y
    BY <1>2, <1>3
  <2> QED BY <2>1
<1>5. \E z \in T : \A y \in T : z >= y
  BY <1>4
<1>6. Max(T) \in T /\ \A y \in T : Max(T) >= y
  BY <1>5 DEF Max
<1>7. \A y \in T : y \in Int
  OBVIOUS
<1> QED
  BY <1>6, <1>7

\* What Recent leaves out comes first, and is old; what it keeps is not.
LEMMA RecentKeeps ==
  ASSUME NEW N, N \subseteq Nat, NEW s \in Seq(N), NEW t \in Nat
  PROVE  /\ Recent(s, t) \in Seq(N)
         /\ \E d \in 0 .. Len(s) :
              /\ Len(Recent(s, t)) = Len(s) - d
              /\ \A i \in 1 .. Len(s) - d : Recent(s, t)[i] = s[i + d]
              /\ d > 0 => t - s[d] > 2 * Window
              /\ \A i \in d + 1 .. Len(s) : t - s[i] <= 2 * Window
<1> DEFINE n == Len(s)
           old == {i \in DOMAIN s : t - s[i] > 2 * Window}
           Left(d) == /\ Len(Recent(s, t)) = n - d
                      /\ \A i \in 1 .. n - d : Recent(s, t)[i] = s[i + d]
                      /\ d > 0 => t - s[d] > 2 * Window
                      /\ \A i \in d + 1 .. n : t - s[i] <= 2 * Window
<1>0. n \in Nat /\ DOMAIN s = 1 .. n /\ \A i \in 1 .. n : s[i] \in N
  OBVIOUS
<1>1. n \in Nat /\ DOMAIN s = 1 .. n /\ \A i \in 1 .. n : s[i] \in N /\ s[i] \in Int
  <2>1. \A x \in N : x \in Int
    OBVIOUS
  <2> QED BY <1>0, <2>1
<1>20. SUFFICES Recent(s, t) \in Seq(N) /\ \E d \in 0 .. n : Left(d)
  OBVIOUS
<1>2. Window \in Nat
  BY EdgeAssumption
<1>3. CASE old = {}
  <2>1. Recent(s, t) = s
    BY <1>3 DEF Recent
  <2>2. \A i \in 1 .. n : t - s[i] <= 2 * Window
    BY <1>1, <1>2, <1>3
  <2>3. 0 \in 0 .. n /\ n - 0 = n /\ 0 + 1 = 1 /\ \A i \in 1 .. n : i + 0 = i
    BY <1>1
  <2>4. Left(0)
    BY <2>1, <2>2, <2>3
  <2> HIDE DEF Left
  <2> QED BY <2>1, <2>3, <2>4
<1>4. CASE old # {}
  <2> DEFINE d == Max(old)
  <2>1. d \in old /\ \A i \in old : i <= d
    <3>1. old \subseteq 1 .. n
      BY <1>1
    <3> HIDE DEF old
    <3> QED BY <1>1, <1>4, <3>1, Greatest
  <2>2. Recent(s, t) = SubSeq(s, d + 1, n)
    BY <1>4 DEF Recent
  <2>3. d \in 1 .. n /\ t - s[d] > 2 * Window
    BY <1>1, <2>1
  <2>4. \A i \in d + 1 .. n : t - s[i] <= 2 * Window
    <3> SUFFICES ASSUME NEW i \in d + 1 .. n PROVE t - s[i] <= 2 * Window
      OBVIOUS
    <3>1. i \in 1 .. n /\ ~ i <= d
      BY <1>1, <2>3
    <3>2. i \notin old
      BY <2>1, <3>1
    <3> QED BY <1>1, <1>2, <3>1, <3>2
  <2> HIDE DEF d, old
  <2>5. /\ SubSeq(s, d + 1, n) \in Seq(N) /\ Len(SubSeq(s, d + 1, n)) = n - d
        /\ \A i \in 1 .. n - d : SubSeq(s, d + 1, n)[i] = s[i + d]
    <3>1. d + 1 \in 1 .. n + 1 /\ d \in Int /\ (n - (d + 1)) + 1 = n - d
      BY <1>1, <2>3
    <3>2. /\ SubSeq(s, d + 1, n) \in Seq(N)
          /\ Len(SubSeq(s, d + 1, n)) = IF d + 1 <= n THEN (n - (d + 1)) + 1 ELSE 0
          /\ \A i \in 1 .. (n - (d + 1)) + 1 : SubSeq(s, d + 1, n)[i] = s[(d + 1) + i - 1]
      BY <1>1, <3>1, SubSeqProperties
    <3>3. \A i \in 1 .. n - d : (d + 1) + i - 1 = i + d
      BY <1>1, <3>1
    <3>4. Len(SubSeq(s, d + 1, n)) = n - d
      <4> HIDE DEF n
      <4>1. CASE d + 1 <= n
        BY <3>1, <3>2, <4>1
      <4>2. CASE ~ d + 1 <= n
        <5>1. d = n
          BY <1>1, <2>3, <3>1, <4>2
        <5>2. n - d = 0
          BY <1>1, <5>1
        <5> QED BY <3>2, <4>2, <5>2
      <4> QED BY <4>1, <4>2
    <3>5. \A i \in 1 .. n - d : SubSeq(s, d + 1, n)[i] = s[i + d]
      BY <3>1, <3>2, <3>3
    <3> QED BY <3>2, <3>4, <3>5
  <2>6. d \in 0 .. n
    BY <1>1, <2>3
  <2>7. Left(d)
    BY <2>2, <2>3, <2>4, <2>5
  <2> HIDE DEF Left
  <2> QED BY <2>2, <2>5, <2>6, <2>7
<1> QED
  BY <1>3, <1>4

\* What a window says of the times s at which requests of its address passed, at t.  The
\* last ones, as many as it counts, passed in it, and those before in earlier ones, of
\* which the last holds no more than the limit.
Counts(hits, end, s, L, t) ==
  LET n     == Len(s)
      m     == IF hits < L THEN hits ELSE L
      start == end - Window
  IN  /\ n <= 2 * L
      /\ \A i \in 1 .. n : s[i] <= t /\ t - s[i] <= 2 * Window
      /\ end = 0 => n = 0
      /\ end # 0 =>
           /\ 2 * start <= t
           /\ t < 2 * end => n >= m
           /\ \A i \in 1 .. n :
                /\ s[i] < 2 * end
                /\ i <= n - m => s[i] < 2 * start
                /\ i > n - m => s[i] >= 2 * start
                /\ i <= n - m - L => s[i] < 2 * (start - Window)

\* Counted, of any window.
NextWindow(w, L, t) ==
  IF w.end = 0 \/ t \div 2 >= w.end THEN [hits |-> 1, end |-> t \div 2 + Window]
  ELSE IF w.hits > L THEN w
  ELSE [w EXCEPT !.hits = @ + 1]

\* The window (h, e) that follows (hits, end): one that begins at t, or the same with a hit
\* more.
Follows(h, e, hits, end, L, t) ==
  \/ /\ end = 0 \/ 2 * end <= t
     /\ h = 1 /\ \E x \in Nat : e = x + Window /\ t \in {2 * x, 2 * x + 1}
  \/ /\ end # 0 /\ t < 2 * end /\ e = end
     /\ h = IF hits > L THEN hits ELSE hits + 1

\* The next window does follow.
LEMMA Windows ==
  ASSUME NEW w \in [hits : Nat, end : Nat], NEW L \in Nat \ {0}, NEW t \in Nat
  PROVE  /\ NextWindow(w, L, t) \in [hits : Nat, end : Nat]
         /\ Follows(NextWindow(w, L, t).hits, NextWindow(w, L, t).end, w.hits, w.end, L, t)
<1> DEFINE v == NextWindow(w, L, t)
<1>1. PICK hits \in Nat, end \in Nat : w = [hits |-> hits, end |-> end]
  OBVIOUS
<1>2. Window \in Nat \ {0} /\ w.end = end /\ w.hits = hits
  BY <1>1, EdgeAssumption
<1>3. t \div 2 \in Nat /\ t \in {2 * (t \div 2), 2 * (t \div 2) + 1}
  OBVIOUS
<1>4. t \div 2 >= end <=> 2 * end <= t
  BY <1>3
<1>5. CASE end = 0 \/ t \div 2 >= end
  <2>1. v = [hits |-> 1, end |-> t \div 2 + Window]
    BY <1>2, <1>5 DEF NextWindow
  <2>2. v.hits = 1 /\ v.end = t \div 2 + Window /\ v \in [hits : Nat, end : Nat]
    BY <1>2, <1>3, <2>1
  <2> QED BY <1>2, <1>3, <1>4, <1>5, <2>2 DEF Follows
<1>6. CASE ~ (end = 0 \/ t \div 2 >= end)
  <2>1. end # 0 /\ t < 2 * end
    BY <1>4, <1>6
  <2>2. CASE hits > L
    <3>1. v = w
      BY <1>2, <1>6, <2>2 DEF NextWindow
    <3> QED BY <1>2, <2>1, <2>2, <3>1 DEF Follows
  <2>3. CASE ~ hits > L
    <3>1. v = [hits |-> hits + 1, end |-> end]
      BY <1>1, <1>2, <1>6, <2>3 DEF NextWindow
    <3>2. v.hits = hits + 1 /\ v.end = end /\ v \in [hits : Nat, end : Nat]
      BY <3>1
    <3> QED BY <1>2, <2>1, <2>3, <3>2 DEF Follows
  <2> QED BY <2>2, <2>3
<1> QED
  BY <1>5, <1>6

\* No request has been counted yet.
LEMMA CountsFresh ==
  ASSUME NEW L \in Nat, NEW t
  PROVE  Counts(0, 0, <<>>, L, t)
BY DEF Counts

\* Time goes by, and what is old is forgotten.
LEMMA CountsLater ==
  ASSUME NEW hits \in Nat, NEW end \in Nat, NEW N, N \subseteq Nat, NEW s \in Seq(N), NEW L \in Nat \ {0},
         NEW t \in Nat, Counts(hits, end, s, L, t)
  PROVE  Counts(hits, end, Recent(s, t + 1), L, t + 1)
<1> DEFINE n == Len(s)
           u == t + 1
           r == Recent(s, u)
           m == IF hits < L THEN hits ELSE L
           start == end - Window
<1>1. /\ n \in Nat /\ Window \in Nat \ {0}
      /\ m \in Nat /\ start \in Int /\ u \in Nat /\ u = t + 1
  BY EdgeAssumption
<1> HIDE DEF u
<1>2. PICK d \in 0 .. n :
        /\ Len(r) = n - d
        /\ \A i \in 1 .. n - d : r[i] = s[i + d]
        /\ d > 0 => u - s[d] > 2 * Window
        /\ \A i \in d + 1 .. n : u - s[i] <= 2 * Window
  BY <1>1, RecentKeeps
<1>3. \A i \in 1 .. n : s[i] \in Nat
  <2>1. \A i \in 1 .. n : s[i] \in N
    OBVIOUS
  <2> QED BY <2>1
<1>4. /\ n <= 2 * L
      /\ \A i \in 1 .. n : s[i] <= t /\ t - s[i] <= 2 * Window
      /\ end = 0 => n = 0
      /\ end # 0 =>
           /\ 2 * start <= t
           /\ t < 2 * end => n >= m
           /\ \A i \in 1 .. n :
                /\ s[i] < 2 * end
                /\ i <= n - m => s[i] < 2 * start
                /\ i > n - m => s[i] >= 2 * start
                /\ i <= n - m - L => s[i] < 2 * (start - Window)
  BY DEF Counts
<1> HIDE DEF n, r, m, start
<1>5. Len(r) \in Nat /\ Len(r) = n - d /\ d \in Nat
  BY <1>1, <1>2
<1>6. \A i \in 1 .. Len(r) : i + d \in d + 1 .. n /\ i + d \in 1 .. n /\ r[i] = s[i + d]
  BY <1>1, <1>2, <1>5
<1>7. Len(r) <= 2 * L
  BY <1>1, <1>4, <1>5
<1>8. \A i \in 1 .. Len(r) : r[i] <= u /\ u - r[i] <= 2 * Window
  <2>1. SUFFICES ASSUME NEW i \in 1 .. Len(r) PROVE r[i] <= u /\ u - r[i] <= 2 * Window
    OBVIOUS
  <2>2. s[i + d] \in Nat /\ s[i + d] <= t /\ u - s[i + d] <= 2 * Window
    BY <1>2, <1>3, <1>4, <1>6
  <2> QED BY <1>1, <1>6, <2>2
<1>9. end = 0 => Len(r) = 0
  BY <1>1, <1>4, <1>5
<1>10. ASSUME end # 0
       PROVE  /\ 2 * start <= u
              /\ \A i \in 1 .. Len(r) :
                   /\ r[i] < 2 * end
                   /\ i <= Len(r) - m => r[i] < 2 * start
                   /\ i > Len(r) - m => r[i] >= 2 * start
                   /\ i <= Len(r) - m - L => r[i] < 2 * (start - Window)
  <2>1. 2 * start <= u
    BY <1>1, <1>4, <1>10
  <2>2. SUFFICES ASSUME NEW i \in 1 .. Len(r)
                 PROVE  /\ r[i] < 2 * end
                        /\ i <= Len(r) - m => r[i] < 2 * start
                        /\ i > Len(r) - m => r[i] >= 2 * start
                        /\ i <= Len(r) - m - L => r[i] < 2 * (start - Window)
    BY <2>1
  <2>3. /\ s[i + d] < 2 * end
        /\ i + d <= n - m => s[i + d] < 2 * start
        /\ i + d > n - m => s[i + d] >= 2 * start
        /\ i + d <= n - m - L => s[i + d] < 2 * (start - Window)
    BY <1>4, <1>6, <1>10
  <2> QED BY <1>1, <1>5, <1>6, <2>3
<1>11. ASSUME end # 0, u < 2 * end PROVE Len(r) >= m
  <2>1. n >= m
    BY <1>1, <1>4, <1>11
  <2>2. SUFFICES ASSUME d > 0, d > n - m PROVE FALSE
    BY <1>1, <1>5, <2>1
  <2>3. d \in 1 .. n /\ u - s[d] > 2 * Window
    BY <1>1, <1>2, <2>2
  <2>4. s[d] >= 2 * start /\ s[d] \in Nat
    BY <1>3, <1>4, <1>11, <2>2, <2>3
  <2>5. u - s[d] <= u - 2 * start
    BY <1>1, <2>4
  <2>6. u - 2 * start < 2 * Window
    BY <1>1, <1>11 DEF start
  <2> QED BY <1>1, <2>3, <2>4, <2>5, <2>6
<1> QED
  <2>1. Counts(hits, end, r, L, u)
    BY <1>7, <1>8, <1>9, <1>10, <1>11 DEF Counts, m, start
  <2> QED BY <2>1 DEF r, u

\* A request passes: there is room for it in its window, or a window begins with it.
LEMMA CountsPass ==
  ASSUME NEW hits \in Nat, NEW end \in Nat, NEW N, N \subseteq Nat, NEW s \in Seq(N), NEW L \in Nat \ {0},
         NEW t \in N, Counts(hits, end, s, L, t),
         NEW h \in Nat, NEW e \in Nat, Follows(h, e, hits, end, L, t), h <= L
  PROVE  Counts(h, e, Append(s, t), L, t)
<1> DEFINE a == Append(s, t)
           n == Len(s)
           m == IF hits < L THEN hits ELSE L
           k == IF h < L THEN h ELSE L
           start == end - Window
           begin == e - Window
           q == n + 1 - h
<1>1. /\ n \in Nat /\ Window \in Nat \ {0}
      /\ m \in Nat /\ m <= L /\ start \in Int /\ t \in Nat
  BY EdgeAssumption
<1>2. \/ /\ end = 0 \/ 2 * end <= t
         /\ h = 1 /\ \E x \in Nat : e = x + Window /\ t \in {2 * x, 2 * x + 1}
      \/ /\ end # 0 /\ t < 2 * end /\ e = end
         /\ h = IF hits > L THEN hits ELSE hits + 1
  BY DEF Follows
<1>3. k = h
  BY <1>1
<1>4. Len(a) = n + 1 /\ a[n + 1] = t /\ \A i \in 1 .. n : a[i] = s[i]
  OBVIOUS
<1>5. \A i \in 1 .. n : s[i] \in Nat
  <2>1. \A i \in 1 .. n : s[i] \in N
    OBVIOUS
  <2> QED BY <2>1
<1>6. /\ n <= 2 * L
      /\ \A i \in 1 .. n : s[i] <= t /\ t - s[i] <= 2 * Window
      /\ end = 0 => n = 0
      /\ end # 0 =>
           /\ 2 * start <= t
           /\ t < 2 * end => n >= m
           /\ \A i \in 1 .. n :
                /\ s[i] < 2 * end
                /\ i <= n - m => s[i] < 2 * start
                /\ i > n - m => s[i] >= 2 * start
                /\ i <= n - m - L => s[i] < 2 * (start - Window)
  BY DEF Counts
<1> HIDE DEF a, n, m, k
<1>7. \A i \in 1 .. Len(a) : (i \in 1 .. n /\ a[i] = s[i]) \/ (i = n + 1 /\ a[i] = t)
  BY <1>1, <1>4
<1>8. \A i \in 1 .. Len(a) : a[i] <= t /\ t - a[i] <= 2 * Window
  <2>1. t <= t /\ t - t <= 2 * Window
    BY <1>1
  <2> QED BY <1>6, <1>7, <2>1
\* What counts in both cases: the new window has begun, and what passed before lies where
\* Counts has it.
<1>9. /\ e # 0 /\ begin \in Int /\ 2 * begin <= t /\ t < 2 * e
      /\ n + 1 >= h
      /\ \A i \in 1 .. n :
           /\ s[i] < 2 * e
           /\ i <= q => s[i] < 2 * begin
           /\ i > q => s[i] >= 2 * begin
           /\ i <= q - L => s[i] < 2 * (begin - Window)
      /\ h >= 1
  <2>1. CASE end = 0 \/ 2 * end <= t
    <3>1. h = 1
      BY <1>1, <1>2, <2>1
    <3>15. q = n
      BY <1>1, <3>1
    <3>2. PICK x \in Nat : e = x + Window /\ t \in {2 * x, 2 * x + 1}
      BY <1>1, <1>2, <2>1
    <3>3. begin = x /\ 2 * x <= t /\ t <= 2 * x + 1
      BY <1>1, <3>2
    <3>4. end # 0 => end <= x
      BY <1>1, <2>1, <3>3
    <3>5. ASSUME NEW i \in 1 .. n
          PROVE  /\ s[i] < 2 * e /\ s[i] < 2 * begin
                 /\ i <= q - L => s[i] < 2 * (begin - Window)
      <4>1. end # 0 /\ s[i] < 2 * end
        BY <1>1, <1>6
      <4>2. i <= n - L => i <= n - m
        BY <1>1
      <4>3. i <= n - L => s[i] < 2 * start
        BY <1>6, <4>1, <4>2
      <4>4. q - L = n - L
        BY <1>1, <3>1
      <4>5. s[i] \in Nat /\ end <= x /\ begin = x /\ e = x + Window
        BY <1>5, <3>2, <3>3, <3>4, <4>1
      <4>6. s[i] < 2 * e /\ s[i] < 2 * begin
        <5> HIDE DEF begin
        <5> QED BY <1>1, <4>1, <4>5
      <4>7. i <= n - L => s[i] < 2 * (begin - Window)
        <5>1. start <= begin - Window
          BY <1>1, <4>5
        <5> HIDE DEF begin
        <5> QED BY <1>1, <4>3, <4>5, <5>1
      <4> HIDE DEF begin, q
      <4> QED BY <4>4, <4>6, <4>7
    <3>6. \A i \in 1 .. n : ~ i > q
      BY <1>1, <3>15
    <3>7. e # 0 /\ t < 2 * e /\ n + 1 >= h /\ begin \in Int /\ h >= 1
      BY <1>1, <3>1, <3>2, <3>3
    <3> HIDE DEF begin, q
    <3> QED BY <3>3, <3>5, <3>6, <3>7
  <2>2. CASE ~ (end = 0 \/ 2 * end <= t)
    <3>1. /\ end # 0 /\ t < 2 * end /\ e = end /\ begin = start
          /\ h = hits + 1 /\ m = hits /\ q = n - m
      <4>1. /\ end # 0 /\ t < 2 * end /\ e = end
            /\ h = IF hits > L THEN hits ELSE hits + 1
        BY <1>1, <1>2, <2>2
      <4>2. ~ hits > L /\ h = hits + 1 /\ hits < L
        BY <1>1, <1>3, <4>1
      <4>3. m = hits
        BY <4>2 DEF m
      <4> QED BY <1>1, <4>1, <4>2, <4>3
    <3>2. n >= m
      BY <1>6, <3>1
    <3>3. /\ 2 * begin <= t
          /\ \A i \in 1 .. n :
                /\ s[i] < 2 * e
                /\ i <= q => s[i] < 2 * begin
                /\ i > q => s[i] >= 2 * begin
                /\ i <= q - L => s[i] < 2 * (begin - Window)
      <4> HIDE DEF begin, start, q
      <4> QED BY <1>6, <3>1
    <3>4. e # 0 /\ begin \in Int /\ t < 2 * e /\ n + 1 >= h /\ h >= 1
      BY <1>1, <3>1, <3>2
    <3> HIDE DEF begin, start, q
    <3> QED BY <3>3, <3>4
  <2> QED BY <2>1, <2>2
<1>10. Len(a) <= 2 * L
  <2>1. SUFFICES ASSUME n = 2 * L PROVE FALSE
    BY <1>1, <1>4, <1>6
  <2>2. 1 \in 1 .. n /\ 1 <= q - L
    BY <1>1, <1>3, <2>1
  <2>3. s[1] \in Nat /\ s[1] < 2 * (begin - Window) /\ t - s[1] <= 2 * Window
    BY <1>5, <1>6, <1>9, <2>2
  <2> QED BY <1>1, <1>9, <2>3
<1>11. ASSUME NEW i \in 1 .. Len(a)
       PROVE  /\ a[i] < 2 * e
              /\ i <= Len(a) - k => a[i] < 2 * begin
              /\ i > Len(a) - k => a[i] >= 2 * begin
              /\ i <= Len(a) - k - L => a[i] < 2 * (begin - Window)
  <2>1. Len(a) - k = q
    BY <1>1, <1>3, <1>4
  <2>2. CASE i \in 1 .. n /\ a[i] = s[i]
    <3> HIDE DEF begin, q
    <3> QED BY <1>9, <2>1, <2>2
  <2>3. CASE i = n + 1 /\ a[i] = t
    <3>1. ~ i <= q /\ ~ i <= q - L
      BY <1>1, <1>3, <1>9, <2>3
    <3>2. t < 2 * e /\ t >= 2 * begin
      BY <1>1, <1>9
    <3> HIDE DEF begin, q
    <3> QED BY <2>1, <2>3, <3>1, <3>2
  <2> QED BY <1>7, <2>2, <2>3
<1>12. Len(a) >= k
  BY <1>3, <1>4, <1>9
<1>13. Counts(h, e, a, L, t)
  BY <1>8, <1>9, <1>10, <1>11, <1>12 DEF Counts, k, begin
<1> QED
  BY <1>13 DEF a

\* A request is refused: it is the window's, and so are as many that passed as the limit.
LEMMA CountsRefuse ==
  ASSUME NEW hits \in Nat, NEW end \in Nat, NEW N, N \subseteq Nat, NEW s \in Seq(N), NEW L \in Nat \ {0},
         NEW t \in Nat, Counts(hits, end, s, L, t),
         NEW h \in Nat, NEW e \in Nat, Follows(h, e, hits, end, L, t), ~ h <= L
  PROVE  /\ Counts(h, e, s, L, t)
         /\ Len(s) >= L /\ t - s[Len(s) - L + 1] < 2 * Window
<1> DEFINE n == Len(s)
           start == end - Window
<1>1. /\ n \in Nat /\ Window \in Nat \ {0}
      /\ start \in Int
  BY EdgeAssumption
<1>2. \/ h = 1
      \/ /\ end # 0 /\ t < 2 * end /\ e = end
         /\ h = IF hits > L THEN hits ELSE hits + 1
  BY DEF Follows
<1>4. end # 0 /\ t < 2 * end /\ e = end /\ ~ hits < L /\ ~ h < L
  BY <1>1, <1>2
<1>5. Counts(h, e, s, L, t)
  BY <1>4 DEF Counts
<1>6. n >= L /\ \A i \in 1 .. n : i > n - L => s[i] >= 2 * start
  BY <1>4 DEF Counts
<1>7. n - L + 1 \in 1 .. n /\ n - L + 1 > n - L
  BY <1>1, <1>6
<1>8. s[n - L + 1] \in Nat /\ s[n - L + 1] >= 2 * start
  <2>1. s[n - L + 1] \in N
    BY <1>7
  <2> QED BY <1>6, <1>7, <2>1
<1>9. t - s[n - L + 1] < 2 * Window
  BY <1>1, <1>4, <1>8
<1> QED
  BY <1>5, <1>6, <1>9

\* The state, and how far a window counts.
Types ==
  /\ ways \in Deployments /\ used \in Mixes
  /\ now \in 0 .. LastTick
  /\ secret \in Secrets
  /\ limiter \in [Routes -> [Clients -> [hits : Nat, end : Nat]]]
  /\ \A r \in Routes, a \in Clients : limiter[r][a].hits <= Limit[r] + 1
  /\ checking \subseteq Credentials
  /\ tokens \subseteq [token : Token, at : 0 .. LastTick, by : Credentials]
  /\ starts \in 0 .. MaxStarts
  /\ passes \in [Routes -> [Public -> Seq(0 .. LastTick)]]

\* Each window of a public address says what Counts says of the requests that count for it.
LimitsHold ==
  \A r \in Routes, c \in Public :
    Counts(limiter[r][c].hits, limiter[r][c].end, passes[r][c], Limit[r], now)

\* A window as it is, and as one more request leaves it.
LEMMA CountedFollows ==
  ASSUME Types, NEW r \in Routes, NEW c \in Clients
  PROVE  /\ Counted(r, c) \in [hits : Nat, end : Nat]
         /\ Follows(Counted(r, c).hits, Counted(r, c).end,
                    limiter[r][c].hits, limiter[r][c].end, Limit[r], now)
         /\ Counted(r, c).hits <= Limit[r] + 1
         /\ limiter[r][c] \in [hits : Nat, end : Nat]
         /\ Limit[r] \in Nat \ {0} /\ now \in Nat /\ now \in 0 .. LastTick
<1>1. /\ limiter[r][c] \in [hits : Nat, end : Nat] /\ limiter[r][c].hits <= Limit[r] + 1
      /\ now \in Nat /\ now \in 0 .. LastTick /\ Limit[r] \in Nat \ {0}
  BY EdgeAssumption DEF Types
<1> DEFINE w == limiter[r][c]
           v == NextWindow(w, Limit[r], now)
<1>2. Counted(r, c) = v
  BY DEF Counted, NextWindow, Second
<1>3. v \in [hits : Nat, end : Nat] /\ Follows(v.hits, v.end, w.hits, w.end, Limit[r], now)
  BY <1>1, Windows
<1>4. v.hits <= Limit[r] + 1
  <2>1. ASSUME NEW h \in Nat, NEW e, NEW hits \in Nat, NEW end, NEW L \in Nat \ {0}, NEW t,
               Follows(h, e, hits, end, L, t), hits <= L + 1
        PROVE  h <= L + 1
    BY <2>1 DEF Follows
  <2> HIDE DEF v, w
  <2>2. v.hits \in Nat /\ w.hits \in Nat /\ w.hits <= Limit[r] + 1
    BY <1>1, <1>3 DEF w
  <2> QED BY <1>1, <1>3, <2>1, <2>2
<1> QED
  BY <1>1, <1>2, <1>3, <1>4

\* Counting a request changes one window.
LEMMA OneWindow ==
  ASSUME Types, NEW r \in Routes, NEW c \in Clients, Count(r, c)
  PROVE  /\ limiter' \in [Routes -> [Clients -> [hits : Nat, end : Nat]]]
         /\ \A q \in Routes, a \in Clients : limiter'[q][a].hits <= Limit[q] + 1
         /\ \A q \in Routes, a \in Clients :
              limiter'[q][a] = IF q = r /\ a = c THEN Counted(r, c) ELSE limiter[q][a]
<1>1. limiter' = [limiter EXCEPT ![r][c] = Counted(r, c)]
  BY DEF Count
<1>2. /\ limiter \in [Routes -> [Clients -> [hits : Nat, end : Nat]]]
      /\ \A q \in Routes, a \in Clients : limiter[q][a].hits <= Limit[q] + 1
  BY DEF Types
<1>3. Counted(r, c) \in [hits : Nat, end : Nat] /\ Counted(r, c).hits <= Limit[r] + 1
  BY CountedFollows
<1>4. limiter' \in [Routes -> [Clients -> [hits : Nat, end : Nat]]]
  BY <1>1, <1>2, <1>3
<1>5. \A q \in Routes, a \in Clients :
        limiter'[q][a] = IF q = r /\ a = c THEN Counted(r, c) ELSE limiter[q][a]
  BY <1>1, <1>2
<1> QED
  BY <1>2, <1>3, <1>4, <1>5

\* A request that passes is noted among those of its address.
LEMMA PassStep ==
  ASSUME Types, LimitsHold, NEW r \in Routes, NEW c \in Clients,
         Passes(r, c), Count(r, c), Note(r, c), now' = now
  PROVE  /\ LimitsHold'
         /\ limiter' \in [Routes -> [Clients -> [hits : Nat, end : Nat]]]
         /\ \A q \in Routes, a \in Clients : limiter'[q][a].hits <= Limit[q] + 1
         /\ passes' \in [Routes -> [Public -> Seq(0 .. LastTick)]]
<1>1. /\ limiter' \in [Routes -> [Clients -> [hits : Nat, end : Nat]]]
      /\ \A q \in Routes, a \in Clients : limiter'[q][a].hits <= Limit[q] + 1
      /\ \A q \in Routes, a \in Clients :
           limiter'[q][a] = IF q = r /\ a = c THEN Counted(r, c) ELSE limiter[q][a]
  BY OneWindow
<1>2. passes \in [Routes -> [Public -> Seq(0 .. LastTick)]] /\ now \in 0 .. LastTick
  BY DEF Types
<1>3. /\ passes' \in [Routes -> [Public -> Seq(0 .. LastTick)]]
      /\ \A q \in Routes, a \in Public :
           passes'[q][a] = IF q = r /\ a = c THEN Append(passes[q][a], now) ELSE passes[q][a]
  <2>1. CASE c \in Public
    <3>1. passes' = [passes EXCEPT ![r][c] = Append(passes[r][c], now)]
      BY <1>2, <2>1 DEF Note
    <3>2. Append(passes[r][c], now) \in Seq(0 .. LastTick)
      BY <1>2, <2>1
    <3> QED BY <1>2, <2>1, <3>1, <3>2
  <2>2. CASE c \notin Public
    BY <1>2, <2>2 DEF Note
  <2> QED BY <2>1, <2>2
<1>4. LimitsHold'
  <2> SUFFICES ASSUME NEW q \in Routes, NEW a \in Public
               PROVE  Counts(limiter'[q][a].hits, limiter'[q][a].end, passes'[q][a], Limit[q], now')
    BY DEF LimitsHold
  <2>1. Counts(limiter[q][a].hits, limiter[q][a].end, passes[q][a], Limit[q], now)
    BY DEF LimitsHold
  <2>2. a \in Clients
    BY DEF Clients
  <2>3. CASE q = r /\ a = c
    <3>1. limiter'[q][a] = Counted(r, c) /\ passes'[q][a] = Append(passes[r][c], now)
      BY <1>1, <1>3, <2>2, <2>3
    <3>2. Counts(Counted(r, c).hits, Counted(r, c).end, Append(passes[r][c], now), Limit[r], now)
      <4>1. /\ Counted(r, c).hits \in Nat /\ Counted(r, c).end \in Nat
            /\ limiter[r][c].hits \in Nat /\ limiter[r][c].end \in Nat
            /\ Follows(Counted(r, c).hits, Counted(r, c).end,
                       limiter[r][c].hits, limiter[r][c].end, Limit[r], now)
            /\ Limit[r] \in Nat \ {0}
        BY CountedFollows
      <4>2. Counted(r, c).hits <= Limit[r]
        BY DEF Passes
      <4>3. passes[r][c] \in Seq(0 .. LastTick) /\ 0 .. LastTick \subseteq Nat
        BY <1>2, <2>3
      <4>4. Counts(limiter[r][c].hits, limiter[r][c].end, passes[r][c], Limit[r], now)
        BY <2>1, <2>3
      <4> QED BY <1>2, <4>1, <4>2, <4>3, <4>4, CountsPass
    <3> QED BY <2>3, <3>1, <3>2
  <2>4. CASE ~ (q = r /\ a = c)
    BY <1>1, <1>3, <2>1, <2>2, <2>4
  <2> QED BY <2>3, <2>4
<1> QED
  BY <1>1, <1>3, <1>4

\* A request that is refused leaves as many that passed to answer for it.
LEMMA RefuseStep ==
  ASSUME Types, LimitsHold, NEW r \in Routes, NEW c \in Clients,
         ~Passes(r, c), Count(r, c), passes' = passes, now' = now
  PROVE  /\ LimitsHold'
         /\ limiter' \in [Routes -> [Clients -> [hits : Nat, end : Nat]]]
         /\ \A q \in Routes, a \in Clients : limiter'[q][a].hits <= Limit[q] + 1
         /\ c \in Public => /\ Len(passes[r][c]) >= Limit[r]
                           /\ now - passes[r][c][Len(passes[r][c]) - Limit[r] + 1] < 2 * Window
<1>1. /\ limiter' \in [Routes -> [Clients -> [hits : Nat, end : Nat]]]
      /\ \A q \in Routes, a \in Clients : limiter'[q][a].hits <= Limit[q] + 1
      /\ \A q \in Routes, a \in Clients :
           limiter'[q][a] = IF q = r /\ a = c THEN Counted(r, c) ELSE limiter[q][a]
  BY OneWindow
<1>2. ASSUME c \in Public
      PROVE  /\ Counts(Counted(r, c).hits, Counted(r, c).end, passes[r][c], Limit[r], now)
             /\ Len(passes[r][c]) >= Limit[r]
             /\ now - passes[r][c][Len(passes[r][c]) - Limit[r] + 1] < 2 * Window
  <2>1. /\ Counted(r, c).hits \in Nat /\ Counted(r, c).end \in Nat
        /\ limiter[r][c].hits \in Nat /\ limiter[r][c].end \in Nat
        /\ Follows(Counted(r, c).hits, Counted(r, c).end,
                   limiter[r][c].hits, limiter[r][c].end, Limit[r], now)
        /\ Limit[r] \in Nat \ {0} /\ now \in Nat
    BY CountedFollows
  <2>2. ~ Counted(r, c).hits <= Limit[r]
    BY DEF Passes
  <2>3. passes[r][c] \in Seq(0 .. LastTick) /\ 0 .. LastTick \subseteq Nat
    BY <1>2 DEF Types
  <2>4. Counts(limiter[r][c].hits, limiter[r][c].end, passes[r][c], Limit[r], now)
    BY <1>2 DEF LimitsHold
  <2> QED BY <2>1, <2>2, <2>3, <2>4, CountsRefuse
<1>3. LimitsHold'
  <2> SUFFICES ASSUME NEW q \in Routes, NEW a \in Public
               PROVE  Counts(limiter'[q][a].hits, limiter'[q][a].end, passes[q][a], Limit[q], now)
    BY DEF LimitsHold
  <2>1. Counts(limiter[q][a].hits, limiter[q][a].end, passes[q][a], Limit[q], now)
    BY DEF LimitsHold
  <2>2. a \in Clients
    BY DEF Clients
  <2>3. CASE q = r /\ a = c
    BY <1>1, <1>2, <2>2, <2>3
  <2>4. CASE ~ (q = r /\ a = c)
    BY <1>1, <2>1, <2>2, <2>4
  <2> QED BY <2>3, <2>4
<1> QED
  BY <1>1, <1>2, <1>3

\* Time goes by.
LEMMA TickStep ==
  ASSUME Types, LimitsHold, Tick
  PROVE  LimitsHold' /\ passes' \in [Routes -> [Public -> Seq(0 .. LastTick)]]
<1>1. /\ passes \in [Routes -> [Public -> Seq(0 .. LastTick)]] /\ now \in Nat
      /\ limiter \in [Routes -> [Clients -> [hits : Nat, end : Nat]]]
      /\ 0 .. LastTick \subseteq Nat
  BY DEF Types
<1>2. /\ now' = now + 1 /\ limiter' = limiter
      /\ passes' = [r \in Routes |-> [c \in Public |-> Recent(passes[r][c], now + 1)]]
  BY DEF Tick
<1>3. now + 1 \in Nat
  BY <1>1
<1>4. \A r \in Routes, c \in Public :
        /\ passes[r][c] \in Seq(0 .. LastTick)
        /\ Recent(passes[r][c], now + 1) \in Seq(0 .. LastTick)
  <2> SUFFICES ASSUME NEW r \in Routes, NEW c \in Public
               PROVE  /\ passes[r][c] \in Seq(0 .. LastTick)
                      /\ Recent(passes[r][c], now + 1) \in Seq(0 .. LastTick)
    OBVIOUS
  <2>1. passes[r][c] \in Seq(0 .. LastTick)
    BY <1>1
  <2> QED BY <1>1, <1>3, <2>1, RecentKeeps
<1>5. passes' \in [Routes -> [Public -> Seq(0 .. LastTick)]]
  BY <1>2, <1>4
<1>6. LimitsHold'
  <2> SUFFICES ASSUME NEW r \in Routes, NEW c \in Public
               PROVE  Counts(limiter[r][c].hits, limiter[r][c].end, passes'[r][c], Limit[r], now + 1)
    BY <1>2 DEF LimitsHold
  <2>1. limiter[r][c].hits \in Nat /\ limiter[r][c].end \in Nat /\ Limit[r] \in Nat \ {0}
    BY <1>1, EdgeAssumption DEF Clients
  <2>2. Counts(limiter[r][c].hits, limiter[r][c].end, passes[r][c], Limit[r], now)
    BY DEF LimitsHold
  <2>3. Counts(limiter[r][c].hits, limiter[r][c].end, Recent(passes[r][c], now + 1), Limit[r], now + 1)
    BY <1>1, <1>4, <2>1, <2>2, CountsLater
  <2> QED BY <1>2, <2>3
<1> QED
  BY <1>5, <1>6

\* At a start, first or later, nothing is counted.
Fresh ==
  /\ limiter = [r \in Routes |-> [a \in Clients |-> [hits |-> 0, end |-> 0]]]
  /\ passes = [r \in Routes |-> [c \in Public |-> <<>>]]

NothingCounted ==
  /\ LimitsHold
  /\ limiter \in [Routes -> [Clients -> [hits : Nat, end : Nat]]]
  /\ \A q \in Routes, a \in Clients : limiter[q][a].hits <= Limit[q] + 1
  /\ passes \in [Routes -> [Public -> Seq(0 .. LastTick)]]

LEMMA StartCounts == Fresh => NothingCounted
<1> SUFFICES ASSUME Fresh PROVE NothingCounted
  OBVIOUS
<1>1. \A r \in Routes : Limit[r] \in Nat
  BY EdgeAssumption
<1>2. \A q \in Routes, a \in Clients : limiter[q][a].hits = 0 /\ limiter[q][a].end = 0
  BY DEF Fresh
<1>3. \A q \in Routes, a \in Clients : limiter[q][a].hits <= Limit[q] + 1
  BY <1>1, <1>2
<1>4. LimitsHold
  <2> SUFFICES ASSUME NEW r \in Routes, NEW c \in Public
               PROVE  Counts(limiter[r][c].hits, limiter[r][c].end, passes[r][c], Limit[r], now)
    BY DEF LimitsHold
  <2>1. limiter[r][c].hits = 0 /\ limiter[r][c].end = 0 /\ passes[r][c] = <<>>
    BY <1>2 DEF Clients, Fresh
  <2> QED BY <1>1, <2>1, CountsFresh
<1>5. /\ limiter \in [Routes -> [Clients -> [hits : Nat, end : Nat]]]
      /\ passes \in [Routes -> [Public -> Seq(0 .. LastTick)]]
  BY DEF Fresh
<1> QED
  BY <1>3, <1>4, <1>5 DEF NothingCounted

LEMMA StartCountsAgain == Fresh' => NothingCounted'
BY StartCounts, PTL

\* A token as it is handed out.
LEMMA TokenTypes ==
  ASSUME Types
  PROVE  Generated \in Token /\ now \in 0 .. LastTick
<1>1. now \in Nat /\ Lifetime \in Nat /\ secret \in Secrets /\ now \in 0 .. LastTick
  BY EdgeAssumption DEF Types
<1>2. (now + 2 * Lifetime) \div 2 \in Nat
  BY <1>1
<1> QED
  BY <1>1, <1>2 DEF Generated, Token

LEMMA StateInit == Init => Types /\ LimitsHold
<1> SUFFICES ASSUME Init PROVE Types /\ LimitsHold
  OBVIOUS
<1>1. /\ LimitsHold
      /\ limiter \in [Routes -> [Clients -> [hits : Nat, end : Nat]]]
      /\ \A q \in Routes, a \in Clients : limiter[q][a].hits <= Limit[q] + 1
      /\ passes \in [Routes -> [Public -> Seq(0 .. LastTick)]]
  BY StartCounts DEF Init, Fresh, NothingCounted
<1>2. /\ ways \in Deployments /\ used \in Mixes /\ now \in 0 .. LastTick /\ secret \in Secrets
      /\ checking = {} /\ tokens = {} /\ starts \in 0 .. MaxStarts
  BY EdgeAssumption DEF Init
<1> QED
  BY <1>1, <1>2 DEF Types

LEMMA StateStep == Types /\ LimitsHold /\ [Next]_vars => Types' /\ LimitsHold'
<1> SUFFICES ASSUME Types, LimitsHold, [Next]_vars PROVE Types' /\ LimitsHold'
  OBVIOUS
<1>1. used \subseteq Routes
  BY EdgeAssumption DEF Types
<1>2. ASSUME NEW r \in used, NEW c \in Clients, TurnAway(r, c) PROVE Types' /\ LimitsHold'
  <2>1. PICK a \in Addresses[ways][c] : ~Passes(r, a.ip) /\ Count(r, a.ip)
    BY <1>2 DEF TurnAway
  <2>2. UNCHANGED <<ways, used, now, secret, checking, tokens, starts, passes>>
    BY <1>2 DEF TurnAway
  <2>4. a.ip \in Clients /\ r \in Routes
    BY <1>1, OwnAddresses DEF Types, OwnOrClaimed
  <2>3. /\ LimitsHold'
        /\ limiter' \in [Routes -> [Clients -> [hits : Nat, end : Nat]]]
        /\ \A q \in Routes, b \in Clients : limiter'[q][b].hits <= Limit[q] + 1
    BY <2>1, <2>2, <2>4, RefuseStep
  <2> QED BY <2>2, <2>3 DEF Types
<1>3. ASSUME NEW r \in Routes, NEW a \in Clients, Passes(r, a), Count(r, a), Note(r, a),
             UNCHANGED <<ways, used, now, secret, tokens, starts>>, checking' \subseteq Credentials
      PROVE  Types' /\ LimitsHold'
  <2>1. /\ LimitsHold'
        /\ limiter' \in [Routes -> [Clients -> [hits : Nat, end : Nat]]]
        /\ \A q \in Routes, b \in Clients : limiter'[q][b].hits <= Limit[q] + 1
        /\ passes' \in [Routes -> [Public -> Seq(0 .. LastTick)]]
    BY <1>3, PassStep
  <2> QED BY <1>3, <2>1 DEF Types
<1>4. ASSUME NEW c \in Clients, NEW body \in Bodies, Track(c, body) PROVE Types' /\ LimitsHold'
  <2>1. PICK a \in Addresses[ways][c] :
          Passes("track", a.ip) /\ Count("track", a.ip) /\ Note("track", a.ip)
    BY <1>4 DEF Track
  <2>2. UNCHANGED <<ways, used, now, secret, checking, tokens, starts>>
    BY <1>4 DEF Track
  <2>3. checking' \subseteq Credentials /\ "track" \in Routes
    BY <2>2 DEF Types, Routes
  <2>4. a.ip \in Clients
    BY OwnAddresses DEF Types, OwnOrClaimed
  <2> QED BY <1>3, <2>1, <2>2, <2>3, <2>4
<1>5. ASSUME NEW c \in Clients, NEW k \in Credentials, Login(c, k) PROVE Types' /\ LimitsHold'
  <2>1. PICK a \in Addresses[ways][c] :
          Passes("login", a.ip) /\ Count("login", a.ip) /\ Note("login", a.ip)
    BY <1>5 DEF Login
  <2>2. UNCHANGED <<ways, used, now, secret, tokens, starts>>
    BY <1>5 DEF Login
  <2>3. checking' \subseteq Credentials /\ "login" \in Routes
    BY <1>5 DEF Login, Types, Routes
  <2>4. a.ip \in Clients
    BY OwnAddresses DEF Types, OwnOrClaimed
  <2> QED BY <1>3, <2>1, <2>2, <2>3, <2>4
\* What is left counts nothing, but for Tick and Restart.
<1>6. ASSUME UNCHANGED <<ways, used, now, secret, limiter, starts, passes>>,
             checking' \subseteq checking,
             tokens' \subseteq [token : Token, at : 0 .. LastTick, by : Credentials]
      PROVE  Types' /\ LimitsHold'
  <2>1. Types'
    BY <1>6 DEF Types
  <2>2. LimitsHold'
    BY <1>6 DEF LimitsHold
  <2> QED BY <2>1, <2>2
<1>7. tokens \subseteq [token : Token, at : 0 .. LastTick, by : Credentials]
  BY DEF Types
<1>8. ASSUME NEW k \in checking, Checked(k) PROVE Types' /\ LimitsHold'
  <2>1. k \in Credentials
    BY DEF Types
  <2>2. tokens' \subseteq tokens \cup {[token |-> Generated, at |-> now, by |-> k]}
    BY <1>8 DEF Checked
  <2>3. tokens' \subseteq [token : Token, at : 0 .. LastTick, by : Credentials]
    BY <1>7, <2>1, <2>2, TokenTypes
  <2>4. UNCHANGED <<ways, used, now, secret, limiter, starts, passes>> /\ checking' \subseteq checking
    BY <1>8 DEF Checked
  <2> QED BY <1>6, <2>3, <2>4
<1>9. ASSUME NEW t \in tokens, Enter(t) \/ Logout(t) PROVE Types' /\ LimitsHold'
  BY <1>6, <1>7, <1>9 DEF Enter, Logout
<1>10. CASE Tick
  <2>1. LimitsHold' /\ passes' \in [Routes -> [Public -> Seq(0 .. LastTick)]]
    BY <1>10, TickStep
  <2>2. now' \in 0 .. LastTick /\ UNCHANGED <<ways, used, secret, limiter, checking, tokens, starts>>
    BY <1>10, EdgeAssumption DEF Tick, Types
  <2> QED BY <2>1, <2>2 DEF Types
<1>11. CASE Restart
  <2>1. Fresh'
    BY <1>11 DEF Restart, Fresh
  <2>2. /\ starts' \in 0 .. MaxStarts /\ secret' \in Secrets /\ checking' = {}
        /\ UNCHANGED <<ways, used, now, tokens>>
    BY <1>11, EdgeAssumption DEF Restart, Types
  <2> QED BY <2>1, <2>2, StartCountsAgain DEF Types, NothingCounted
<1>12. CASE UNCHANGED vars
  BY <1>6, <1>7, <1>12 DEF vars
<1> QED
  BY <1>2, <1>4, <1>5, <1>8, <1>9, <1>10, <1>11, <1>12 DEF Next
-----------------------------------------------------------------------------
(* What is answered. *)

\* A request is refused for those of its address, and counts for it (the rest of LimitKept).
RefusedForOwn ==
  /\ (last.op \in Routes /\ last.ip \in Public) =>
       /\ Len(passes[last.op][last.ip]) >= Limit[last.op]
       /\ now - passes[last.op][last.ip][Len(passes[last.op][last.ip]) - Limit[last.op] + 1]
            < 2 * Window
  /\ last.op \in Routes \cup {"stored", "counted"} => CountsAsOwn

\* What is answered, and how much of an event is stored at most.
AnswerTypes ==
  /\ last.op \in {"none", "stored", "counted", "enter"} \cup Routes
  /\ last.op = "stored" => last.bytes \in 0 .. MaxText /\ last.seconds \subseteq 0 .. MaxSeconds

Answers == AnswerTypes /\ StoredAsSent /\ RefusedForOwn /\ AdmittedByLogin

\* A time is kept within the limit, and unchanged if it was or if there is none.
LEMMA Clamped ==
  ASSUME NEW v \in SUBSET Int
  PROVE  /\ clampSeconds(v) \subseteq 0 .. MaxSeconds
         /\ v \subseteq 0 .. MaxSeconds => clampSeconds(v) = v
<1> DEFINE C(n) == IF n < 0 THEN 0 ELSE IF n > MaxSeconds THEN MaxSeconds ELSE n
<1>1. \A n \in Int : C(n) \in 0 .. MaxSeconds /\ (n \in 0 .. MaxSeconds => C(n) = n)
  BY EdgeAssumption
<1>2. clampSeconds(v) = {C(n) : n \in v}
  BY DEF clampSeconds
<1> HIDE DEF C
<1>3. {C(n) : n \in v} \subseteq 0 .. MaxSeconds
  BY <1>1
<1>4. ASSUME v \subseteq 0 .. MaxSeconds PROVE {C(n) : n \in v} = v
  <2>1. \A n \in v : C(n) = n
    BY <1>1, <1>4
  <2> QED BY <2>1, Zenon
<1> QED BY <1>2, <1>3, <1>4

\* Where a step says so of the request it answers, it counts as its client's own.
LEMMA CountsOwn ==
  ASSUME Types, NEW c \in Clients, NEW a \in Addresses[ways][c],
         last'.from = c, last'.claim = a.claim, last'.ip = a.ip
  PROVE  CountsAsOwn'
<1>1. OwnOrClaimed(c, a)
  BY OwnAddresses DEF Types
<1> QED BY <1>1 DEF CountsAsOwn, OwnOrClaimed

LEMMA Tracked ==
  ASSUME Types, NEW c \in Clients, NEW body \in Bodies, Track(c, body)
  PROVE  Answers'
<1> DEFINE Row(a, place) ==
             [op |-> "stored", from |-> c, claim |-> a.claim, ip |-> a.ip,
              body |-> body, country |-> place,
              bytes |-> Truncated(body.text, MaxText), seconds |-> clampSeconds(body.seconds)]
<1>0. PICK a \in Addresses[ways][c] : \E place \in Lookup(a.ip) : last' = Row(a, place)
  BY DEF Track
<1>1. PICK place \in Lookup(a.ip) : last' = Row(a, place)
  BY <1>0
<1>2. /\ last'.op = "stored" /\ last'.from = c /\ last'.claim = a.claim /\ last'.ip = a.ip
      /\ last'.body = body /\ last'.country = place
      /\ last'.bytes = Truncated(body.text, MaxText) /\ last'.seconds = clampSeconds(body.seconds)
  BY <1>1
<1>3. last'.country \in {""} \cup {Country[b] : b \in {last'.ip} \cap Public}
  BY <1>2 DEF Lookup
<1>4. MaxText \in Nat /\ body.seconds \in SUBSET Int /\ body.text \in Seq(Nat)
  <2>1. body \in [text : Seq(1 .. 4), seconds : SUBSET Int] /\ MaxText \in Nat
    BY EdgeAssumption
  <2>2. body.text \in Seq(1 .. 4) /\ body.seconds \in SUBSET Int
    BY <2>1
  <2> DEFINE s == body.text
  <2>3. Len(s) \in Nat /\ s \in [1 .. Len(s) -> 1 .. 4]
    BY <2>2
  <2>4. s \in [1 .. Len(s) -> Nat]
    BY <2>3
  <2> QED BY <2>1, <2>2, <2>3, <2>4
<1>5. /\ last'.bytes \in RuneStarts(body.text) /\ last'.bytes \in 0 .. MaxText
      /\ \A n \in RuneStarts(body.text) : n <= MaxText => n <= last'.bytes
  BY <1>2, <1>4, TruncatedFits
<1>6. /\ last'.seconds \subseteq 0 .. MaxSeconds
      /\ body.seconds \subseteq 0 .. MaxSeconds => last'.seconds = body.seconds
  BY <1>2, <1>4, Clamped
<1>7. "stored" \notin Routes /\ "stored" # "enter"
  BY DEF Routes
<1>8. CountsAsOwn'
  BY <1>2, CountsOwn
<1>9. AnswerTypes' /\ RefusedForOwn' /\ AdmittedByLogin'
  BY <1>2, <1>5, <1>6, <1>7, <1>8 DEF AnswerTypes, RefusedForOwn, AdmittedByLogin
<1>10. StoredAsSent'
  BY <1>2, <1>3, <1>5, <1>6, <1>8 DEF StoredAsSent
<1> QED
  BY <1>9, <1>10 DEF Answers

LEMMA TurnedAway ==
  ASSUME Types, LimitsHold, NEW r \in Routes, NEW c \in Clients, TurnAway(r, c)
  PROVE  Answers'
<1>1. PICK a \in Addresses[ways][c] :
        /\ ~Passes(r, a.ip) /\ Count(r, a.ip)
        /\ last' = [op |-> r, status |-> 429, from |-> c, claim |-> a.claim, ip |-> a.ip]
  BY DEF TurnAway
<1>2. passes' = passes /\ now' = now
  BY DEF TurnAway
<1>3. a.ip \in Clients
  BY OwnAddresses DEF Types, OwnOrClaimed
<1>4. a.ip \in Public =>
        /\ Len(passes[r][a.ip]) >= Limit[r]
        /\ now - passes[r][a.ip][Len(passes[r][a.ip]) - Limit[r] + 1] < 2 * Window
  BY <1>1, <1>2, <1>3, RefuseStep
<1>5. /\ last'.op = r /\ last'.from = c /\ last'.claim = a.claim /\ last'.ip = a.ip
      /\ r # "stored" /\ r # "enter"
  BY <1>1 DEF Routes
<1>6. CountsAsOwn'
  BY <1>5, CountsOwn
<1>7. RefusedForOwn'
  BY <1>2, <1>4, <1>5, <1>6 DEF RefusedForOwn
<1> QED
  BY <1>5, <1>7 DEF Answers, AnswerTypes, StoredAsSent, AdmittedByLogin

LEMMA LoginCounted ==
  ASSUME Types, NEW c \in Clients, NEW k \in Credentials, Login(c, k)
  PROVE  Answers'
<1>1. PICK a \in Addresses[ways][c] :
        last' = [op |-> "counted", from |-> c, claim |-> a.claim, ip |-> a.ip]
  BY DEF Login
<1>2. /\ last'.op = "counted" /\ last'.from = c /\ last'.claim = a.claim /\ last'.ip = a.ip
      /\ "counted" \notin Routes
  BY <1>1 DEF Routes
<1>3. CountsAsOwn'
  BY <1>2, CountsOwn
<1> QED
  BY <1>2, <1>3 DEF Answers, AnswerTypes, StoredAsSent, RefusedForOwn, AdmittedByLogin

\* Every other step answers nothing, or lets in or not.
LEMMA AnswersStep ==
  Types /\ LimitsHold /\ TokensHold /\ Answers /\ [Next]_vars => Answers'
<1> SUFFICES ASSUME Types, LimitsHold, TokensHold, Answers, [Next]_vars PROVE Answers'
  OBVIOUS
<1>1. ASSUME last' = Nothing PROVE Answers'
  <2>1. last'.op = "none" /\ "none" \notin Routes \cup {"stored", "counted"}
    BY <1>1 DEF Nothing, Routes
  <2> QED BY <2>1 DEF Answers, AnswerTypes, StoredAsSent, RefusedForOwn, AdmittedByLogin
<1>2. ASSUME NEW c \in Clients, NEW r \in used, TurnAway(r, c) PROVE Answers'
  <2>1. r \in Routes
    BY EdgeAssumption DEF Types
  <2> QED BY <1>2, <2>1, TurnedAway
<1>3. ASSUME NEW c \in Clients, NEW body \in Bodies, Track(c, body) PROVE Answers'
  BY <1>3, Tracked
<1>4. ASSUME NEW c \in Clients, NEW k \in Credentials, Login(c, k) PROVE Answers'
  BY <1>4, LoginCounted
<1>5. ASSUME NEW k \in checking, Checked(k) PROVE Answers'
  BY <1>1, <1>5 DEF Checked
<1>6. ASSUME NEW t \in tokens, Enter(t) PROVE Answers'
  <2>1. last'.op = "enter" /\ "enter" \notin Routes \cup {"stored", "counted"}
    BY <1>6 DEF Enter, Routes
  <2> QED BY <1>6, <2>1, Entered DEF Answers, AnswerTypes, StoredAsSent, RefusedForOwn
<1>7. ASSUME NEW t \in tokens, Logout(t) PROVE Answers'
  BY <1>1, <1>7 DEF Logout
<1>8. CASE Tick \/ Restart
  BY <1>1, <1>8 DEF Tick, Restart
<1>9. CASE UNCHANGED vars
  BY <1>9 DEF vars, Answers, AnswerTypes, StoredAsSent, RefusedForOwn, AdmittedByLogin,
              CountsAsOwn
<1> QED
  BY <1>2, <1>3, <1>4, <1>5, <1>6, <1>7, <1>8, <1>9 DEF Next
-----------------------------------------------------------------------------
LEMMA Invariance == Spec => [](Types /\ LimitsHold /\ TokensHold /\ Answers)
<1>1. Init => Types /\ LimitsHold /\ TokensHold /\ Answers
  <2>1. Init => last.op = "none"
    BY DEF Init, Nothing
  <2>2. last.op = "none" => Answers
    BY DEF Answers, AnswerTypes, StoredAsSent, RefusedForOwn, AdmittedByLogin, Routes
  <2> QED BY <2>1, <2>2, StateInit, TokensInit
<1>2. Types /\ LimitsHold /\ TokensHold /\ Answers /\ [Next]_vars
        => (Types /\ LimitsHold /\ TokensHold /\ Answers)'
  BY StateStep, TokensStep, AnswersStep
<1> QED
  BY <1>1, <1>2, PTL DEF Spec

\* server.go, pkg/jwt, sanitize: windows, tokens and rows have the types they should; no
\* window counts further than one past the limit, and nothing stored is longer than it may be.
THEOREM TypeCorrect == Spec => []TypeOK
<1>1. Types /\ Answers => TypeOK
  BY DEF Types, Answers, AnswerTypes, TypeOK
<1> QED
  BY <1>1, Invariance, PTL

\* clientip.go, geo_service.go and sanitize in event_service.go: every event is stored under
\* the address of its client, with whatever headers it came, or under the public address
\* the client put into an X-Real-IP that no proxy writes; in the country of that address or
\* none; with all of its text, or all the runes that fit, whatever the text and the limit;
\* and with its time, if that is one, or none.
THEOREM EventsAreStoredAsSent == Spec => []StoredAsSent
<1>1. Answers => StoredAsSent
  BY DEF Answers
<1> QED
  BY <1>1, Invariance, PTL

\* server.go: whatever the limits and the window, in the time of a window at most twice as
\* many requests of a public address pass as the limit has, and none is turned away but for
\* the limit's worth of requests of the same address, which is that of the client itself
\* wherever some proxy writes X-Real-IP or there is none.
THEOREM LimitsAreKept == Spec => []LimitKept
<1>1. LimitsHold => \A r \in Routes, a \in Public : Len(passes[r][a]) <= 2 * Limit[r]
  BY DEF LimitsHold, Counts
<1>2. LimitsHold /\ Answers => LimitKept
  BY <1>1 DEF Answers, RefusedForOwn, LimitKept
<1> QED
  BY <1>2, Invariance, PTL

\* auth_service.go, pkg/jwt: nobody is let into the admin panel but for a login with the
\* admin's name and password, within a token's lifetime and under the same secret; and
\* such a login does let in, but for the second it is rounded by.
THEOREM PanelNeedsLogin == Spec => []AdmittedByLogin
<1>1. Answers => AdmittedByLogin
  BY DEF Answers
<1> QED
  BY <1>1, Invariance, PTL
=============================================================================

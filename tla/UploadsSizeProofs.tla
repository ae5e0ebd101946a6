------------------------- MODULE UploadsSizeProofs --------------------------
(***************************************************************************)
(* What is added up: what the videos of an operator reserve never exceeds  *)
(* its plan, and the confirmed parts of an upload make up the whole file,  *)
(* for any number of videos and parts and any sizes.                       *)
(*                                                                         *)
(* The first part shows that a sum over a finite set exists, does not      *)
(* depend on the order in which elements are taken, and grows by the size  *)
(* of the element that is added.  Each fact is shown on a smallest         *)
(* counterexample among the parts of the set (SmallestPart).  The second   *)
(* part is about the quota: only a creation adds a row, after it has       *)
(* looked at what is left.  The third is about complete: the sizes of the  *)
(* parts of expected_part_size add up to the declared size.                *)
(***************************************************************************)
EXTENDS UploadsProofs, FiniteSetTheorems

-----------------------------------------------------------------------------
(***************************************************************************)
(* Sums.                                                                   *)
(***************************************************************************)
\* The element a sum takes next.
Pick(s) == CHOOSE x \in s : TRUE

\* f gives the sum of w over every part of S, as MapThenSumSet computes it.
SumsOver(f, S, w) ==
    f = [s \in SUBSET S |->
           IF s = {} THEN 0 ELSE w[Pick(s)] + f[s \ {Pick(s)}]]

\* The sum of w over S.
Total(S, w) == (CHOOSE f : SumsOver(f, S, w))[S]

\* Something can be taken from a set that is not empty.
LEMMA PickIsIn == ASSUME NEW s, s # {} PROVE Pick(s) \in s
  BY DEF Pick

\* A sum is the element taken first and the sum of the rest.
LEMMA SumsUnfold ==
  ASSUME NEW S, NEW w, NEW f, SumsOver(f, S, w), NEW s \in SUBSET S
  PROVE  f[s] = IF s = {} THEN 0 ELSE w[Pick(s)] + f[s \ {Pick(s)}]
  <1>. DEFINE F == [t \in SUBSET S |->
                      IF t = {} THEN 0 ELSE w[Pick(t)] + f[t \ {Pick(t)}]]
  <1>1. f = F
    BY DEF SumsOver
  <1>2. F[s] = IF s = {} THEN 0 ELSE w[Pick(s)] + f[s \ {Pick(s)}]
    OBVIOUS
  <1>. HIDE DEF F
  <1>. QED
    BY <1>1, <1>2

\* Among parts of a finite set there is one without smaller ones.
LEMMA SmallestPart ==
  ASSUME NEW S, IsFiniteSet(S), NEW B \in SUBSET (SUBSET S), B # {}
  PROVE  \E s \in B : \A t \in B : ~(t \subseteq s /\ t # s)
  <1>1. IsWellFoundedOn(StrictSubsetOrdering(S), SUBSET S)
    BY FS_FiniteSubsetsOfFinite, FS_StrictSubsetOrderingWellFounded
  <1>2. PICK s \in B : \A t \in B : ~(<<t, s>> \in StrictSubsetOrdering(S))
    BY <1>1, WFMin
  <1>3. ASSUME NEW t \in B, t \subseteq s, t # s PROVE FALSE
    <2>1. <<t, s>> \in (SUBSET S) \X (SUBSET S)
      OBVIOUS
    <2>2. <<t, s>> \in StrictSubsetOrdering(S)
      BY <1>3, <2>1 DEF StrictSubsetOrdering
    <2>. QED
      BY <1>2, <1>3, <2>2
  <1>. QED
    BY <1>3

\* What is summed twice is the same.
LEMMA SumsAgree ==
  ASSUME NEW S, IsFiniteSet(S), NEW T, NEW w, NEW x, NEW f, NEW g,
         SumsOver(f, S, w), SumsOver(g, T, x),
         \A e \in S \cap T : w[e] = x[e],
         NEW s \in SUBSET (S \cap T)
  PROVE  f[s] = g[s]
  <1>. DEFINE B == {t \in SUBSET (S \cap T) : f[t] # g[t]}
  <1>1. SUFFICES ASSUME B # {} PROVE FALSE
    OBVIOUS
  <1>2. B \in SUBSET (SUBSET S)
    OBVIOUS
  <1>. HIDE DEF B
  <1>3. PICK t \in B : \A u \in B : ~(u \subseteq t /\ u # t)
    BY <1>1, <1>2, SmallestPart
  <1>4. t \in SUBSET (S \cap T) /\ f[t] # g[t]
    BY DEF B
  <1>5. t # {}
    BY <1>4, SumsUnfold
  <1>6. Pick(t) \in t
    BY <1>5, PickIsIn
  <1>7. f[t \ {Pick(t)}] = g[t \ {Pick(t)}]
    <2>1. t \ {Pick(t)} \in SUBSET (S \cap T)
      BY <1>4
    <2>2. t \ {Pick(t)} \notin B
      BY <1>3, <1>6
    <2>. QED
      BY <2>1, <2>2 DEF B
  <1>8. f[t] = w[Pick(t)] + f[t \ {Pick(t)}]
    BY <1>4, <1>5, SumsUnfold
  <1>9. g[t] = x[Pick(t)] + g[t \ {Pick(t)}]
    BY <1>4, <1>5, SumsUnfold
  <1>10. w[Pick(t)] = x[Pick(t)]
    BY <1>4, <1>6
  <1>. QED
    BY <1>4, <1>7, <1>8, <1>9, <1>10

\* A sum can be computed.
LEMMA SumsExist ==
  ASSUME NEW S, IsFiniteSet(S), NEW w
  PROVE  \E f : SumsOver(f, S, w)
  <1>. DEFINE B == {T \in SUBSET S : ~\E f : SumsOver(f, T, w)}
  <1>1. SUFFICES ASSUME B # {} PROVE FALSE
    OBVIOUS
  <1>2. B \in SUBSET (SUBSET S)
    OBVIOUS
  <1>. HIDE DEF B
  <1>3. PICK T \in B : \A u \in B : ~(u \subseteq T /\ u # T)
    BY <1>1, <1>2, SmallestPart
  <1>4. T \in SUBSET S /\ ~\E f : SumsOver(f, T, w)
    BY DEF B
  <1>. DEFINE Part(u) == CHOOSE f : SumsOver(f, u, w)
              h == [s \in SUBSET T |->
                      IF s = {} THEN 0 ELSE w[Pick(s)] + Total(s \ {Pick(s)}, w)]
  <1>5. ASSUME NEW u \in SUBSET T, u # T
        PROVE  SumsOver(Part(u), u, w) /\ Part(u)[u] = Total(u, w)
    <2>1. u \in SUBSET S /\ u \notin B
      BY <1>3, <1>4, <1>5
    <2>2. \E f : SumsOver(f, u, w)
      BY <2>1 DEF B
    <2>. QED
      BY <2>2 DEF Total
  <1>. HIDE DEF Part
  <1>6. ASSUME NEW u \in SUBSET T, u # T PROVE h[u] = Total(u, w)
    <2>1. h[u] = IF u = {} THEN 0 ELSE w[Pick(u)] + Total(u \ {Pick(u)}, w)
      OBVIOUS
    <2>2. Total(u, w) = IF u = {} THEN 0
                          ELSE w[Pick(u)] + Part(u)[u \ {Pick(u)}]
      <3>1. SumsOver(Part(u), u, w) /\ Part(u)[u] = Total(u, w)
        BY <1>5, <1>6
      <3>2. u \in SUBSET u
        OBVIOUS
      <3>3. Part(u)[u] = IF u = {} THEN 0
                          ELSE w[Pick(u)] + Part(u)[u \ {Pick(u)}]
        BY <3>1, <3>2, SumsUnfold
      <3>. QED
        BY <3>1, <3>3
    <2>. HIDE DEF h
    <2>3. CASE u = {}
      BY <2>1, <2>2, <2>3
    <2>4. CASE u # {}
      <3>. DEFINE r == u \ {Pick(u)}
      <3>1. r \in SUBSET T /\ r # T /\ r \in SUBSET u
        BY <1>6, <2>4, PickIsIn
      <3>2. SumsOver(Part(r), r, w) /\ Part(r)[r] = Total(r, w)
        BY <1>5, <3>1
      <3>3. SumsOver(Part(u), u, w)
        BY <1>5, <1>6
      <3>4. IsFiniteSet(r)
        BY <1>4, <3>1, FS_Subset
      <3>5. Part(r)[r] = Part(u)[r]
        BY <3>1, <3>2, <3>3, <3>4, SumsAgree
      <3>. QED
        BY <2>1, <2>2, <2>4, <3>2, <3>5
    <2>. QED
      BY <2>3, <2>4
  <1>7. h = [s \in SUBSET T |->
               IF s = {} THEN 0 ELSE w[Pick(s)] + h[s \ {Pick(s)}]]
    <2>1. ASSUME NEW s \in SUBSET T, s # {}
          PROVE  h[s \ {Pick(s)}] = Total(s \ {Pick(s)}, w)
      <3>1. s \ {Pick(s)} \in SUBSET T /\ s \ {Pick(s)} # T
        BY <2>1, PickIsIn
      <3>. HIDE DEF h
      <3>. QED
        BY <1>6, <3>1
    <2>. DEFINE k == [s \in SUBSET T |->
               IF s = {} THEN 0 ELSE w[Pick(s)] + h[s \ {Pick(s)}]]
    <2>2. DOMAIN h = SUBSET T /\ DOMAIN k = SUBSET T
      OBVIOUS
    <2>3. ASSUME NEW s \in SUBSET T PROVE h[s] = k[s]
      <3>1. h[s] = IF s = {} THEN 0 ELSE w[Pick(s)] + Total(s \ {Pick(s)}, w)
        OBVIOUS
      <3>2. k[s] = IF s = {} THEN 0 ELSE w[Pick(s)] + h[s \ {Pick(s)}]
        OBVIOUS
      <3>. HIDE DEF h, k
      <3>. QED
        BY <2>1, <3>1, <3>2
    <2>4. h = [s \in SUBSET T |-> h[s]] /\ k = [s \in SUBSET T |-> k[s]]
      OBVIOUS
    <2>. HIDE DEF h, k
    <2>5. h = k
      BY <2>3, <2>4
    <2>. QED
      BY <2>5 DEF k
  <1>. HIDE DEF h
  <1>. QED
    BY <1>4, <1>7 DEF SumsOver

\* Sums of naturals are naturals.
LEMMA SumsAreNat ==
  ASSUME NEW S, IsFiniteSet(S), NEW w, \A e \in S : w[e] \in Nat,
         NEW f, SumsOver(f, S, w), NEW s \in SUBSET S
  PROVE  f[s] \in Nat
  <1>. DEFINE B == {t \in SUBSET S : f[t] \notin Nat}
  <1>1. SUFFICES ASSUME B # {} PROVE FALSE
    OBVIOUS
  <1>2. B \in SUBSET (SUBSET S)
    OBVIOUS
  <1>. HIDE DEF B
  <1>3. PICK t \in B : \A u \in B : ~(u \subseteq t /\ u # t)
    BY <1>1, <1>2, SmallestPart
  <1>4. t \in SUBSET S /\ f[t] \notin Nat
    BY DEF B
  <1>5. t # {}
    <2>1. {} \in SUBSET S
      OBVIOUS
    <2>2. f[{}] = 0
      BY <2>1, SumsUnfold
    <2>. QED
      BY <1>4, <2>2
  <1>6. Pick(t) \in t
    BY <1>5, PickIsIn
  <1>7. f[t \ {Pick(t)}] \in Nat
    <2>1. t \ {Pick(t)} \in SUBSET S /\ t \ {Pick(t)} \notin B
      BY <1>3, <1>4, <1>6
    <2>. QED
      BY <2>1 DEF B
  <1>8. f[t] = w[Pick(t)] + f[t \ {Pick(t)}]
    BY <1>4, <1>5, SumsUnfold
  <1>. QED
    BY <1>4, <1>6, <1>7, <1>8

\* The order of a sum does not matter: any element may come first.
LEMMA AnyComesFirst ==
  ASSUME NEW S, IsFiniteSet(S), NEW w, \A e \in S : w[e] \in Nat,
         NEW f, SumsOver(f, S, w), NEW s \in SUBSET S, NEW x \in s
  PROVE  f[s] = w[x] + f[s \ {x}]
  <1>. DEFINE B == {t \in SUBSET S : \E y \in t : f[t] # w[y] + f[t \ {y}]}
  <1>1. SUFFICES ASSUME B # {} PROVE FALSE
    OBVIOUS
  <1>2. B \in SUBSET (SUBSET S)
    OBVIOUS
  <1>. HIDE DEF B
  <1>3. PICK t \in B : \A u \in B : ~(u \subseteq t /\ u # t)
    BY <1>1, <1>2, SmallestPart
  <1>4. t \in SUBSET S /\ \E y \in t : f[t] # w[y] + f[t \ {y}]
    BY DEF B
  <1>5. PICK y \in t : f[t] # w[y] + f[t \ {y}]
    BY <1>4
  <1>. DEFINE c == Pick(t)
  <1>6. c \in t
    BY <1>5, PickIsIn
  <1>7. f[t] = w[c] + f[t \ {c}]
    BY <1>4, <1>5, SumsUnfold
  <1>8. c # y
    BY <1>5, <1>7
  <1>. HIDE DEF c
  <1>9. f[t \ {c}] = w[y] + f[(t \ {c}) \ {y}]
    <2>1. t \ {c} \in SUBSET S /\ t \ {c} \notin B /\ y \in t \ {c}
      BY <1>3, <1>4, <1>6, <1>8
    <2>. QED
      BY <2>1 DEF B
  <1>10. f[t \ {y}] = w[c] + f[(t \ {y}) \ {c}]
    <2>1. t \ {y} \in SUBSET S /\ t \ {y} \notin B /\ c \in t \ {y}
      BY <1>3, <1>4, <1>6, <1>8
    <2>. QED
      BY <2>1 DEF B
  <1>11. (t \ {c}) \ {y} = (t \ {y}) \ {c}
    OBVIOUS
  <1>12. /\ w[c] \in Nat /\ w[y] \in Nat
         /\ f[(t \ {c}) \ {y}] \in Nat
    BY <1>4, <1>6, SumsAreNat
  <1>. DEFINE rest == f[(t \ {c}) \ {y}]
  <1>13. f[(t \ {y}) \ {c}] = rest
    BY <1>11
  <1>. HIDE DEF rest
  <1>14. f[t] = w[c] + (w[y] + rest)
    BY <1>7, <1>9 DEF rest
  <1>15. f[t \ {y}] = w[c] + rest
    BY <1>10, <1>13
  <1>16. w[c] \in Nat /\ w[y] \in Nat /\ rest \in Nat
    BY <1>12 DEF rest
  <1>. QED
    BY <1>5, <1>14, <1>15, <1>16

\* One more element.
LEMMA TotalOfOneMore ==
  ASSUME NEW S, IsFiniteSet(S), NEW x, x \notin S, NEW w, NEW u,
         \A e \in S : w[e] = u[e], \A e \in S \cup {x} : u[e] \in Nat
  PROVE  Total(S \cup {x}, u) = Total(S, w) + u[x]
  <1>. DEFINE T == S \cup {x}
              f == CHOOSE f : SumsOver(f, S, w)
              g == CHOOSE g : SumsOver(g, T, u)
  <1>1. IsFiniteSet(T)
    BY FS_AddElement
  <1>2. SumsOver(f, S, w) /\ SumsOver(g, T, u)
    BY <1>1, SumsExist
  <1>3. f[S] = Total(S, w) /\ g[T] = Total(T, u)
    BY DEF Total
  <1>. HIDE DEF f, g
  <1>4. f[S] = g[S]
    BY <1>2, SumsAgree
  <1>5. g[T] = u[x] + g[T \ {x}]
    BY <1>1, <1>2, AnyComesFirst
  <1>6. T \ {x} = S
    OBVIOUS
  <1>7. g[S] \in Nat /\ u[x] \in Nat
    BY <1>1, <1>2, SumsAreNat
  <1>8. g[T] = u[x] + g[S]
    BY <1>5, <1>6
  <1>. HIDE DEF T
  <1>9. Total(T, u) = Total(S, w) + u[x]
    BY <1>3, <1>4, <1>7, <1>8
  <1>. QED
    BY <1>9 DEF T

\* The same sizes, one more element.
LEMMA TotalWithOneMore ==
  ASSUME NEW S, IsFiniteSet(S), NEW x, x \notin S, NEW w,
         \A e \in S \cup {x} : w[e] \in Nat
  PROVE  Total(S \cup {x}, w) = Total(S, w) + w[x]
  <1>1. PICK u : u = w
    OBVIOUS
  <1>2. \A e \in S : w[e] = u[e]
    BY <1>1
  <1>3. \A e \in S \cup {x} : u[e] \in Nat
    BY <1>1
  <1>4. Total(S \cup {x}, u) = Total(S, w) + u[x]
    BY <1>2, <1>3, TotalOfOneMore
  <1>. QED
    BY <1>1, <1>4

\* Equal sizes, equal totals.
LEMMA SameTotal ==
  ASSUME NEW S, IsFiniteSet(S), NEW w, NEW u, \A e \in S : w[e] = u[e]
  PROVE  Total(S, w) = Total(S, u)
  <1>. DEFINE f == CHOOSE f : SumsOver(f, S, w)
              g == CHOOSE g : SumsOver(g, S, u)
  <1>1. SumsOver(f, S, w) /\ SumsOver(g, S, u)
    BY SumsExist
  <1>2. f[S] = Total(S, w) /\ g[S] = Total(S, u)
    BY DEF Total
  <1>. HIDE DEF f, g
  <1>. QED
    BY <1>1, <1>2, SumsAgree

\* Nothing weighs nothing.
LEMMA TotalOfNothing ==
  ASSUME NEW w PROVE Total({}, w) = 0
  <1>. DEFINE f == CHOOSE f : SumsOver(f, {}, w)
  <1>1. SumsOver(f, {}, w)
    BY SumsExist, FS_EmptySet
  <1>2. f[{}] = Total({}, w)
    BY DEF Total
  <1>. HIDE DEF f
  <1>. QED
    BY <1>1, <1>2, SumsUnfold

-----------------------------------------------------------------------------
(***************************************************************************)
(* The storage an operator uses.                                           *)
(***************************************************************************)
\* The videos that count, and what they count.
Reserving(o) ==
    {v \in Videos : /\ video[v].status \notin {"NONE", "DELETED"}
                    /\ video[v].req.operator = o}
SizesOf(rowOf, V) == [v \in V |-> rowOf[v].req.size]

\* The sum that MapThenSumSet computes for UsedBytes.
Computed(rowOf, V) ==
    (CHOOSE f : f = [s \in SUBSET V |->
        IF s = {}
          THEN 0
          ELSE rowOf[CHOOSE x \in s : TRUE].req.size
                 + f[s \ {CHOOSE x \in s : TRUE}]])[V]

\* UsedBytes is a sum over rows, before and after a step.
LEMMA UsedIsComputed ==
  ASSUME NEW o
  PROVE  /\ UsedBytes(o) = Computed(video, Reserving(o))
         /\ UsedBytes(o)' = Computed(video', Reserving(o)')
  <1>1. UsedBytes(o) = Computed(video, Reserving(o))
    BY DEF UsedBytes, MapThenSumSet, MapThenFoldSet, Computed, Reserving
  <1>2. UsedBytes(o)' = Computed(video', Reserving(o)')
    BY DEF UsedBytes, MapThenSumSet, MapThenFoldSet, Computed, Reserving
  <1>. QED
    BY <1>1, <1>2

\* What is computed is the sum.
LEMMA ComputedIsTotal ==
  ASSUME NEW V, IsFiniteSet(V), NEW rowOf
  PROVE  Computed(rowOf, V) = Total(V, SizesOf(rowOf, V))
  <1>. DEFINE w == SizesOf(rowOf, V)
              Equation(f) ==
                f = [s \in SUBSET V |->
                       IF s = {}
                         THEN 0
                         ELSE rowOf[CHOOSE x \in s : TRUE].req.size
                                + f[s \ {CHOOSE x \in s : TRUE}]]
              g == CHOOSE f : Equation(f)
              h == CHOOSE f : SumsOver(f, V, w)
  <1>1. ASSUME NEW f PROVE Equation(f) <=> SumsOver(f, V, w)
    <2>. DEFINE a == [s \in SUBSET V |->
                        IF s = {}
                          THEN 0
                          ELSE rowOf[Pick(s)].req.size + f[s \ {Pick(s)}]]
                b == [s \in SUBSET V |->
                        IF s = {} THEN 0 ELSE w[Pick(s)] + f[s \ {Pick(s)}]]
    <2>1. ASSUME NEW s \in SUBSET V, s # {}
          PROVE  w[Pick(s)] = rowOf[Pick(s)].req.size
      BY <2>1, PickIsIn DEF SizesOf
    <2>. HIDE DEF w
    <2>2. a = b
      BY <2>1
    <2>3. Equation(f) <=> f = a
      BY DEF Pick
    <2>4. SumsOver(f, V, w) <=> f = b
      BY DEF SumsOver
    <2>. QED
      BY <2>2, <2>3, <2>4
  <1>. HIDE DEF w
  <1>2. SumsOver(h, V, w)
    BY SumsExist
  <1>3. Equation(h)
    BY <1>1, <1>2
  <1>. HIDE DEF h
  <1>4. Equation(g)
    <2>. HIDE DEF Equation
    <2>. QED
      BY <1>3
  <1>5. Computed(rowOf, V) = g[V]
    BY DEF Computed
  <1>. HIDE DEF g, Equation
  <1>6. SumsOver(g, V, w)
    BY <1>1, <1>4
  <1>7. g[V] = h[V]
    BY <1>2, <1>6, SumsAgree
  <1>8. Total(V, w) = h[V]
    BY DEF Total, h
  <1>. QED
    BY <1>5, <1>7, <1>8 DEF w

-----------------------------------------------------------------------------
(***************************************************************************)
(* The quota.                                                              *)
(***************************************************************************)
WithRow == {v \in Videos : video[v].status # "NONE"}

\* Beside the quota itself: there are finitely many rows, and the uploads
\* alone delete none.
QuotaInv ==
    /\ IsFiniteSet(WithRow)
    /\ \A v \in Videos : video[v].status # "DELETED"
    /\ QuotaRespected

\* The server starts without rows, and every plan is a natural number.
LEMMA QuotaInvInit == Init => QuotaInv
  <1>. SUFFICES ASSUME Init PROVE QuotaInv
    OBVIOUS
  <1>1. WithRow = {} /\ \A o : Reserving(o) = {}
    BY DEF Init, WithRow, Reserving
  <1>2. ASSUME NEW o \in Operators PROVE UsedBytes(o) <= Quota[o]
    <2>1. Reserving(o) = {} /\ IsFiniteSet({})
      BY <1>1, FS_EmptySet
    <2>2. UsedBytes(o) = Total({}, SizesOf(video, {}))
      BY <2>1, UsedIsComputed, ComputedIsTotal
    <2>3. UsedBytes(o) = 0
      BY <2>2, TotalOfNothing
    <2>4. Quota[o] \in Nat
      BY UploadsAssumption
    <2>. QED
      BY <2>3, <2>4
  <1>. QED
    BY <1>1, <1>2, FS_EmptySet DEF QuotaInv, QuotaRespected, Init

\* Steps that keep which videos there are, and their declarations.
LEMMA SameVideosSameQuota ==
  ASSUME QuotaInv,
         \A v \in Videos :
            /\ video'[v].req = video[v].req
            /\ video'[v].status = "NONE" <=> video[v].status = "NONE"
            /\ video'[v].status # "DELETED"
  PROVE  QuotaInv'
  <1>1. WithRow' = WithRow
    BY DEF WithRow
  <1>2. ASSUME NEW o \in Operators PROVE UsedBytes(o)' = UsedBytes(o)
    <2>1. Reserving(o)' = Reserving(o) /\ Reserving(o) \in SUBSET WithRow
      BY DEF QuotaInv, Reserving, WithRow
    <2>2. IsFiniteSet(Reserving(o))
      BY <2>1, FS_Subset DEF QuotaInv
    <2>3. SizesOf(video', Reserving(o)) = SizesOf(video, Reserving(o))
      BY DEF SizesOf, Reserving
    <2>. QED
      BY <2>1, <2>2, <2>3, UsedIsComputed, ComputedIsTotal
  <1>. QED
    BY <1>1, <1>2 DEF QuotaInv, QuotaRespected

\* A creation adds one row, and has looked at what is left for it.
LEMMA CreateKeepsQuota ==
  ASSUME TypeOK, RowsHaveRequests, QuotaInv,
         NEW r \in Requests, CreateUploadSession(r)
  PROVE  QuotaInv'
  <1>1. CASE video[r.video].status # "NONE"
    BY <1>1, SameVideosSameQuota DEF CreateUploadSession, QuotaInv
  <1>2. CASE video[r.video].status = "NONE"
    <2>. DEFINE n == r.video
                o == r.operator
    <2>1. n \in Videos /\ o \in Operators /\ r.size \in Nat
      BY UploadsAssumption
    <2>2. /\ video'[n] = [status |-> "PENDING_UPLOAD", req |-> r, stored |-> FALSE]
          /\ \A v \in Videos \ {n} : video'[v] = video[v]
      BY <1>2, <2>1 DEF CreateUploadSession, TypeOK
    <2>3. WithRow' = WithRow \cup {n}
      BY <2>1, <2>2 DEF WithRow
    <2>4. /\ \A p \in Operators : IsFiniteSet(Reserving(p))
          /\ n \notin Reserving(o)
      <3>1. \A p \in Operators : Reserving(p) \in SUBSET WithRow
        BY DEF Reserving, WithRow
      <3>. QED
        BY <1>2, <3>1, FS_Subset DEF QuotaInv, Reserving
    <2>5. /\ Reserving(o)' = Reserving(o) \cup {n}
          /\ \A p \in Operators \ {o} : Reserving(p)' = Reserving(p)
      BY <1>2, <2>1, <2>2 DEF Reserving
    <2>6. \A p \in Operators : \A v \in Reserving(p) :
              v \in Videos /\ v # n /\ video'[v] = video[v]
      BY <1>2, <2>2 DEF Reserving
    <2>7. ASSUME NEW p \in Operators \ {o} PROVE UsedBytes(p)' = UsedBytes(p)
      <3>1. SizesOf(video', Reserving(p)) = SizesOf(video, Reserving(p))
        BY <2>6 DEF SizesOf
      <3>. QED
        BY <2>4, <2>5, <3>1, UsedIsComputed, ComputedIsTotal
    <2>8. UsedBytes(o)' = UsedBytes(o) + r.size
      <3>. DEFINE S == Reserving(o)
                  w == SizesOf(video, S)
                  u == SizesOf(video', S \cup {n})
      <3>1. IsFiniteSet(S) /\ n \notin S /\ IsFiniteSet(S \cup {n})
        <4>1. IsFiniteSet(S) /\ n \notin S
          BY <2>1, <2>4
        <4>. HIDE DEF S
        <4>. QED
          BY <4>1, FS_AddElement
      <3>2. u[n] = r.size
        BY <2>2 DEF SizesOf
      <3>3. \A e \in S : w[e] = u[e] /\ w[e] \in Nat
        <4>1. ASSUME NEW e \in S PROVE video[e].req.size \in Nat
          BY <4>1, UploadsAssumption DEF Reserving, RowsHaveRequests
        <4>. QED
          BY <2>1, <2>6, <4>1 DEF SizesOf
      <3>4. UsedBytes(o) = Total(S, w)
        BY <3>1, UsedIsComputed, ComputedIsTotal
      <3>5. UsedBytes(o)' = Total(S \cup {n}, u)
        BY <2>5, <3>1, UsedIsComputed, ComputedIsTotal
      <3>. HIDE DEF S, w, u, n, o
      <3>6. \A e \in S \cup {n} : u[e] \in Nat
        BY <2>1, <3>2, <3>3
      <3>7. Total(S \cup {n}, u) = Total(S, w) + u[n]
        BY <3>1, <3>3, <3>6, TotalOfOneMore
      <3>. QED
        BY <3>2, <3>4, <3>5, <3>7
    <2>9. UsedBytes(o) + r.size <= Quota[o]
      BY <1>2 DEF CreateUploadSession, FitsQuota
    <2>10. QuotaRespected'
      BY <2>7, <2>8, <2>9 DEF QuotaInv, QuotaRespected
    <2>11. IsFiniteSet(WithRow')
      BY <2>3, FS_AddElement DEF QuotaInv
    <2>12. \A v \in Videos : video'[v].status # "DELETED"
      BY <2>2 DEF QuotaInv
    <2>. QED
      BY <2>10, <2>11, <2>12 DEF QuotaInv
  <1>. QED
    BY <1>1, <1>2

\* Of all the steps only a creation changes which videos count: failing,
\* aborting, expiring and completing keep the row and its declaration.
LEMMA QuotaInvStep ==
  UploadsInv /\ QuotaInv /\ [Next]_vars => QuotaInv'
  <1>. SUFFICES ASSUME UploadsInv, QuotaInv, [Next]_vars PROVE QuotaInv'
    OBVIOUS
  <1>0. TypeOK /\ RowsHaveRequests
    BY DEF UploadsInv
  <1>1. ASSUME NEW r \in Requests, CreateUploadSession(r) PROVE QuotaInv'
    BY <1>0, <1>1, CreateKeepsQuota
  <1>2. ASSUME NEW s \in Sessions, SessionStep(s) PROVE QuotaInv'
    <2>1. RowsKept
      BY <1>0, <1>2, SessionStepKeepsRows
    <2>2. ASSUME NEW v \in Videos PROVE video'[v].status # "DELETED"
      <3>. DEFINE q == session[s].req.video
      <3>1. \/ video' = [video EXCEPT ![q].status = "UPLOADING"]
            \/ video' = [video EXCEPT ![q].status = "UPLOADED", ![q].stored = TRUE]
            \/ video' = [video EXCEPT ![q].status = "FAILED"]
            \/ video' = video
        BY <1>2, SessionStepKinds
      <3>2. /\ video \in [Videos -> VideoRow]
            /\ video[v].status # "DELETED"
        BY <1>0 DEF TypeOK, QuotaInv
      <3>. HIDE DEF q
      <3>3. ASSUME NEW st \in {"UPLOADING", "FAILED"},
                   video' = [video EXCEPT ![q].status = st]
            PROVE  video'[v].status # "DELETED"
        BY <3>2, <3>3
      <3>4. ASSUME video' = [video EXCEPT ![q].status = "UPLOADED", ![q].stored = TRUE]
            PROVE  video'[v].status # "DELETED"
        <4>. DEFINE mid == [video EXCEPT ![q].status = "UPLOADED"]
        <4>1. video' = [mid EXCEPT ![q].stored = TRUE]
          BY <3>4
        <4>2. mid \in [Videos -> VideoRow] /\ mid[v].status # "DELETED"
          BY <3>2 DEF VideoRow, VideoStatuses
        <4>. HIDE DEF mid
        <4>3. video'[v].status = mid[v].status
          BY <4>1, <4>2 DEF VideoRow
        <4>. QED
          BY <4>2, <4>3
      <3>. QED
        BY <3>1, <3>2, <3>3, <3>4
    <2>. QED
      BY <2>1, <2>2, SameVideosSameQuota DEF RowsKept
  <1>3. ASSUME UNCHANGED video PROVE QuotaInv'
    BY <1>3, SameVideosSameQuota DEF QuotaInv
  <1>. QED
    BY <1>1, <1>2, <1>3
       DEF Next, RunHooks, LoseHooks, DestroyEvent, vars, rows

\* create_upload_session counts under the lock of the operator and adds in
\* the same transaction: failed, aborted, expired and repeated uploads
\* included, what an operator's videos reserve fits its plan.
THEOREM QuotaHolds == Spec => []QuotaRespected
  <1>1. Spec => []QuotaInv
    BY UploadsSafe, QuotaInvInit, QuotaInvStep, PTL DEF Spec
  <1>2. QuotaInv => QuotaRespected
    BY DEF QuotaInv
  <1>. QED
    BY <1>1, <1>2, PTL

-----------------------------------------------------------------------------
(***************************************************************************)
(* A whole upload.                                                         *)
(***************************************************************************)
\* The parts of an upload add up to it: after part n, what expected_part_size
\* accepts is what lies before the end of part n.
LEMMA PartsAddUp ==
  ASSUME NEW size \in Nat \ {0}, NEW w,
         \A n \in PartNumbers(size) : w[n] = ExpectedPartSize(n, size)
  PROVE  Total(PartNumbers(size), w) = size
  <1>. DEFINE q == PartCount(size)
              End(n) == PartOffset(n, size) + ExpectedPartSize(n, size)
              Upto(n) == 0 .. n
              B == {T \in SUBSET PartNumbers(size) :
                      \E n \in PartNumbers(size) :
                          T = Upto(n) /\ Total(T, w) # End(n)}
  <1>1. q \in Nat /\ 0 \in PartNumbers(size) /\ PartNumbers(size) = 0 .. (q - 1)
    BY FirstPart DEF PartNumbers
  <1>2. IsFiniteSet(PartNumbers(size))
    BY <1>1, FS_Interval
  <1>3. \A n \in PartNumbers(size) : w[n] \in Nat /\ n \in Nat
    <2>1. ASSUME NEW n \in PartNumbers(size) PROVE ExpectedPartSize(n, size) \in Nat
      BY PartsTile, PartSizeFact
    <2>. HIDE DEF q
    <2>. QED
      BY <1>1, <2>1
  <1>4. B = {}
    <2>1. SUFFICES ASSUME B # {} PROVE FALSE
      OBVIOUS
    <2>2. B \in SUBSET (SUBSET PartNumbers(size))
      OBVIOUS
    <2>. HIDE DEF B
    <2>3. PICK T \in B : \A t \in B : ~(t \subseteq T /\ t # T)
      BY <1>2, <2>1, <2>2, SmallestPart
    <2>4. PICK n \in PartNumbers(size) : T = Upto(n) /\ Total(T, w) # End(n)
      BY <2>3 DEF B
    <2>. DEFINE rest == Upto(n - 1)
    <2>. HIDE DEF q
    <2>5. n \in Nat /\ n \notin rest /\ T = rest \cup {n}
          /\ rest \in SUBSET PartNumbers(size)
      BY <1>1, <2>4
    <2>6. IsFiniteSet(rest)
      BY <1>2, <2>5, FS_Subset
    <2>. HIDE DEF rest
    <2>7. Total(T, w) = Total(rest, w) + w[n]
      <3>1. \A e \in rest \cup {n} : w[e] \in Nat
        BY <1>3, <2>5
      <3>2. Total(rest \cup {n}, w) = Total(rest, w) + w[n]
        BY <2>5, <2>6, <3>1, TotalWithOneMore
      <3>. QED
        BY <2>5, <3>2
    <2>8. Total(rest, w) = PartOffset(n, size)
      <3>1. CASE n = 0
        <4>1. rest = {}
          <5>1. rest = 0 .. -1
            BY <3>1 DEF rest
          <5>. QED
            BY <5>1
        <4>2. PartOffset(0, size) = 0
          BY <1>1, PartsTile
        <4>. QED
          BY <3>1, <4>1, <4>2, TotalOfNothing
      <3>2. CASE n # 0
        <4>. DEFINE m == n - 1
        <4>1. m \in PartNumbers(size) /\ m + 1 = n /\ rest = Upto(m)
          BY <1>1, <2>5, <3>2 DEF rest
        <4>. HIDE DEF m, Upto
        <4>2. rest \notin B
          BY <2>3, <2>5
        <4>3. Total(rest, w) = End(m)
          BY <2>5, <4>1, <4>2 DEF B
        <4>4. PartOffset(m + 1, size) = End(m)
          BY <4>1, PartsTile
        <4>. QED
          BY <4>1, <4>3, <4>4
      <3>. QED
        BY <3>1, <3>2
    <2>. QED
      BY <2>4, <2>7, <2>8
  <1>5. PICK last \in PartNumbers(size) :
            last + 1 = q /\ PartNumbers(size) = Upto(last)
    <2>. HIDE DEF q
    <2>1. q - 1 \in PartNumbers(size) /\ (q - 1) + 1 = q
      BY <1>1
    <2>. QED
      BY <1>1, <2>1
  <1>6. Total(PartNumbers(size), w) = End(last)
    <2>. HIDE DEF End, Upto
    <2>. QED
      BY <1>4, <1>5
  <1>7. End(last) = size
    BY <1>5, PartsTile
  <1>. QED
    BY <1>6, <1>7

\* The sum that MapThenSumSet computes for the rows of a session's parts.
SumOfRows(rowOf, V) ==
    (CHOOSE f : f = [s \in SUBSET V |->
        IF s = {}
          THEN 0
          ELSE rowOf[CHOOSE x \in s : TRUE].size
                 + f[s \ {CHOOSE x \in s : TRUE}]])[V]

\* What is computed is the sum.
LEMMA SumOfRowsIsTotal ==
  ASSUME NEW V, IsFiniteSet(V), NEW rowOf
  PROVE  SumOfRows(rowOf, V) = Total(V, [n \in V |-> rowOf[n].size])
  <1>. DEFINE w == [n \in V |-> rowOf[n].size]
              Equation(f) ==
                f = [s \in SUBSET V |->
                       IF s = {}
                         THEN 0
                         ELSE rowOf[CHOOSE x \in s : TRUE].size
                                + f[s \ {CHOOSE x \in s : TRUE}]]
              g == CHOOSE f : Equation(f)
              h == CHOOSE f : SumsOver(f, V, w)
  <1>1. ASSUME NEW f PROVE Equation(f) <=> SumsOver(f, V, w)
    <2>. DEFINE a == [s \in SUBSET V |->
                        IF s = {}
                          THEN 0
                          ELSE rowOf[Pick(s)].size + f[s \ {Pick(s)}]]
                b == [s \in SUBSET V |->
                        IF s = {} THEN 0 ELSE w[Pick(s)] + f[s \ {Pick(s)}]]
    <2>1. ASSUME NEW s \in SUBSET V, s # {}
          PROVE  w[Pick(s)] = rowOf[Pick(s)].size
      BY <2>1, PickIsIn
    <2>. HIDE DEF w
    <2>2. a = b
      BY <2>1
    <2>3. Equation(f) <=> f = a
      BY DEF Pick
    <2>4. SumsOver(f, V, w) <=> f = b
      BY DEF SumsOver
    <2>. QED
      BY <2>2, <2>3, <2>4
  <1>. HIDE DEF w
  <1>2. SumsOver(h, V, w)
    BY SumsExist
  <1>3. Equation(h)
    BY <1>1, <1>2
  <1>. HIDE DEF h
  <1>4. Equation(g)
    <2>. HIDE DEF Equation
    <2>. QED
      BY <1>3
  <1>5. SumOfRows(rowOf, V) = g[V]
    BY DEF SumOfRows
  <1>. HIDE DEF g, Equation
  <1>6. SumsOver(g, V, w)
    BY <1>1, <1>4
  <1>7. g[V] = h[V]
    BY <1>2, <1>6, SumsAgree
  <1>8. Total(V, w) = h[V]
    BY DEF Total, h
  <1>. QED
    BY <1>5, <1>7, <1>8 DEF w

\* complete_upload_session refuses a session whose numbers or sizes are not
\* those of the whole file; when every number is confirmed, the sizes are.
LEMMA ConfirmedSessionComposes ==
  ASSUME TypeOK, RowsHaveRequests, PartsInv
  PROVE  ConfirmedUploadsCompose
  <1>. SUFFICES ASSUME NEW s \in Sessions, Active(s),
                       Received(s) = PartNumbers(session[s].req.size)
                PROVE  ComposeAttempt(s)
    BY DEF ConfirmedUploadsCompose
  <1>. DEFINE size == session[s].req.size
              w == [n \in Received(s) |-> parts[s][n].size]
  <1>1. size \in Nat \ {0}
    BY LiveRow, ActiveRow
  <1>2. ASSUME NEW n \in Received(s)
        PROVE  /\ partFile[s][n] \in Bodies
               /\ parts[s][n].size = ExpectedPartSize(n, size)
    <2>1. PartOnDisk(s, n)
      BY DEF PartsInv, SessionOnDisk
    <2>. QED
      BY <2>1 DEF PartOnDisk, PartRow
  <1>3. IsFiniteSet(Received(s))
    <2>1. PartCount(size) \in Nat
      BY <1>1, FirstPart
    <2>2. IsFiniteSet(0 .. (PartCount(size) - 1))
      <3>. HIDE DEF size
      <3>. QED
        BY <2>1, FS_Interval
    <2>. QED
      BY <2>2 DEF PartNumbers
  <1>4. Total(PartNumbers(size), w) = size
    <2>1. \A n \in PartNumbers(size) : w[n] = ExpectedPartSize(n, size)
      BY <1>2
    <2>. HIDE DEF w, size
    <2>. QED
      BY <1>1, <2>1, PartsAddUp
  <1>5. MapThenSumSet(LAMBDA n : parts[s][n].size, Received(s))
            = SumOfRows(parts[s], Received(s))
    BY DEF MapThenSumSet, MapThenFoldSet, SumOfRows
  <1>6. SumOfRows(parts[s], Received(s)) = size
    BY <1>3, <1>4, SumOfRowsIsTotal
  <1>7. PartsComplete(s)
    BY <1>5, <1>6 DEF PartsComplete
  <1>8. PartFilesPresent(s)
    BY <1>2, UploadsAssumption DEF PartFilesPresent
  <1>. QED
    BY <1>7, <1>8 DEF ComposeAttempt

\* However parts are lost, repeated and rolled back, a session that has all
\* of them confirmed composes its file.
THEOREM ConfirmedCompose == Spec => []ConfirmedUploadsCompose
  <1>1. UploadsInv /\ PartsInv => ConfirmedUploadsCompose
    BY ConfirmedSessionComposes DEF UploadsInv
  <1>. QED
    BY <1>1, UploadsInvInit, UploadsInvStep, PartsInvInit, PartsInvStep, PTL
       DEF Spec
=============================================================================

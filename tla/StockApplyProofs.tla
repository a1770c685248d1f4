------------------------- MODULE StockApplyProofs -------------------------
(***************************************************************************)
(* Theorems about StockApply, for any variants, shops, regions, messages   *)
(* and number of ingest calls: types and locks, that every change owes a   *)
(* calculation, that a message is applied with all its numbers, and that   *)
(* the transactions implement StockLedger.                                 *)
(***************************************************************************)
EXTENDS StockApply, TLAPS, SequenceTheorems, FiniteSetTheorems, WellFoundedInduction

(***************************************************************************)
(* The inductive invariant                                                 *)
(*                                                                         *)
(* A call in a transaction has done the first n lines of its message and   *)
(* may be in the middle of the next.  The quantities after 0, 1, ..., n    *)
(* lines, h[0] to h[n], start at the stock as it is now, not as it was     *)
(* when the call began, and end at what the call sees; between the two     *)
(* statements of an increment they end at what it sees once it is clamped. *)
(* Others commit meanwhile, but no row the call has written.               *)
(***************************************************************************)
RowOf(line) == <<line.variant, line.shop>>

NumberAfter(old, line) ==
    Clamped(IF Present(line.quantity) THEN line.quantity
            ELSE (IF old = None THEN 0 ELSE old) + line.delta)

Effect(quantities, line) ==
    [r \in StockRows |-> IF r = RowOf(line) THEN NumberAfter(quantities[r], line)
                                            ELSE quantities[r]]

HalfDone(w, r) == tx[w].pc = "clamp" /\ r = Row(w)

Position(w, C, n) ==
    /\ n \in 0 .. Len(C)
    /\ tx[w].lines = SubSeq(C, n + 1, Len(C))
    /\ tx[w].pc # "resolve" => n < Len(C)
    /\ \A i \in 1 .. n : RowOf(C[i]) \in DOMAIN tx[w].written
    /\ \A r \in DOMAIN tx[w].written : tx[w].written[r] >= 0 \/ HalfDone(w, r)
    /\ tx[w].pc = "clamp" => Row(w) \in DOMAIN tx[w].written

Replay(w, C, n, h) ==
    /\ h[0] = quantity
    /\ \A i \in 1 .. n : h[i] = Effect(h[i - 1], C[i])
    /\ \A r \in StockRows : ~HalfDone(w, r) => h[n][r] = Visible(w, r)
    /\ tx[w].pc = "clamp" =>
           Clamped(Visible(w, Row(w))) = NumberAfter(h[n][Row(w)], C[n + 1])

Known(w, s) == s \in tx[w].created \/ region[s] # None

\* A row is written once its shop is there, and a line once it is resolved.
ShopsKnown(w) ==
    /\ tx[w].pc \in {"write", "clamp"} => tx[w].region \in AllRegions /\ Known(w, Line(w).shop)
    /\ \A r \in DOMAIN tx[w].written : Known(w, r[2])

OnCourse(w) ==
    /\ tx[w].pc \in {"resolve", "create", "write", "clamp"}
    /\ \E d \in Dtos, n \in Nat :
        /\ tx[w].dto = d
        /\ Accepted(d)
        /\ Position(w, ToStockCommand(d), n)
        /\ \E h : Replay(w, ToStockCommand(d), n, h)

TxFields == {"pc", "dto", "lines", "region", "written", "created", "targets"}

Shape ==
    /\ DOMAIN tx = Workers
    /\ \A w \in Workers : DOMAIN tx[w] = TxFields

StockInv ==
    /\ TypeOK
    /\ ChangedIsOwed
    /\ Shape
    /\ \A r \in StockRows : quantity[r] # None => region[r[2]] # None
    /\ \A w \in Workers :
          /\ \A s \in tx[w].created : region[s] = None /\ ~Creating(s, w)
          /\ ShopsKnown(w)
          /\ tx[w] # NoTx => OnCourse(w)

-----------------------------------------------------------------------------
(* Recursion over naturals *)

LEMMA LeastOfNaturals ==
    ASSUME NEW S, S \subseteq Nat, S # {}
    PROVE  \E i \in S : \A j \in S : i <= j
  <1> DEFINE Less == OpToRel(<, Nat)
  <1>1. IsWellFoundedOn(Less, Nat)
    BY NatLessThanWellFounded
  <1>2. \A i, j \in Nat : j < i => <<j, i>> \in Less
    BY DEF OpToRel
  <1> HIDE DEF Less
  <1>3. PICK i \in S : \A j \in S : <<j, i>> \notin Less
    BY <1>1, WFMin
  <1>4. ASSUME NEW j \in S PROVE i <= j
    <2>1. i \in Nat /\ j \in Nat /\ <<j, i>> \notin Less
      BY <1>3
    <2>2. ~(j < i)
      BY <1>2, <2>1
    <2> QED
      BY <2>1, <2>2
  <1> QED
    BY <1>4

StaysIn(S, N, base, step) ==
    N \in Nat /\ base \in S /\ \A n \in 1 .. N : \A x \in S : step[n][x] \in S

StepByStep(f, S, N, base, step) ==
    f[0] = base /\ \A n \in 1 .. N : f[n - 1] \in S /\ f[n] = step[n][f[n - 1]]

\* Steps that stay in S can be taken one after the other.
LEMMA NaturalRecursion ==
    ASSUME NEW S, NEW N, NEW base, NEW step, StaysIn(S, N, base, step)
    PROVE  \E f : StepByStep(f, S, N, base, step)
  <1>0. N \in Nat /\ base \in S /\ \A n \in 1 .. N : \A x \in S : step[n][x] \in S
    BY DEF StaysIn
  <1> DEFINE Defined(f, k) == /\ f[0] = base
                              /\ \A n \in 0 .. k : f[n] \in S
                              /\ \A n \in 1 .. k : f[n] = step[n][f[n - 1]]
             Bad == {k \in 0 .. N : \A f : ~Defined(f, k)}
  <1>1. SUFFICES ASSUME Bad # {} PROVE FALSE
    <2> SUFFICES ASSUME Bad = {}
                 PROVE  \E f : StepByStep(f, S, N, base, step)
      OBVIOUS
    <2>1. PICK f : Defined(f, N)
      <3>1. N \in 0 .. N
        BY <1>0
      <3> HIDE DEF Defined
      <3> QED
        BY <3>1
    <2>2. \A n \in 1 .. N : n - 1 \in 0 .. N
      BY <1>0
    <2> QED
      BY <2>1, <2>2 DEF StepByStep
  <1>2. PICK k \in Bad : \A j \in Bad : k <= j
    <2>1. Bad \subseteq Nat
      BY <1>0
    <2> HIDE DEF Bad
    <2> QED
      BY <1>1, <2>1, LeastOfNaturals
  <1>3. k # 0
    <2>1. Defined([n \in {0} |-> base], 0)
      BY <1>0
    <2> HIDE DEF Defined
    <2> QED
      BY <1>2, <2>1
  <1>4. k \in 1 .. N /\ k - 1 \in 0 .. N
    <2>1. k \in 0 .. N
      BY <1>2
    <2> QED
      BY <1>0, <1>3, <2>1
  <1>5. PICK f : Defined(f, k - 1)
    <2>1. ~(k <= k - 1)
      BY <1>0, <1>4
    <2>2. k - 1 \notin Bad
      <3> HIDE DEF Bad
      <3> QED
        BY <1>2, <2>1
    <2> HIDE DEF Defined
    <2> QED
      BY <1>0, <1>4, <2>2
  <1> DEFINE g == [n \in 0 .. k |-> IF n = k THEN step[k][f[k - 1]] ELSE f[n]]
  <1>6. \A n \in 0 .. k - 1 : f[n] \in S /\ g[n] = f[n]
    BY <1>0, <1>4, <1>5
  <1>7. g[k] = step[k][f[k - 1]] /\ g[k] \in S
    <2>1. k \in 0 .. k /\ k - 1 \in 0 .. k - 1
      BY <1>0, <1>4
    <2>2. f[k - 1] \in S
      BY <1>6, <2>1
    <2>3. step[k][f[k - 1]] \in S
      BY <1>0, <1>4, <2>2
    <2> QED
      BY <2>1, <2>3
  <1>8. ASSUME NEW n \in 0 .. k PROVE g[n] \in S
    <2>1. n = k \/ n \in 0 .. k - 1
      BY <1>0, <1>4
    <2> HIDE DEF g
    <2> QED
      BY <1>6, <1>7, <2>1
  <1>9. \A n \in 1 .. k : g[n] = step[n][g[n - 1]]
    <2> SUFFICES ASSUME NEW n \in 1 .. k PROVE g[n] = step[n][g[n - 1]]
      OBVIOUS
    <2> HIDE DEF g
    <2>1. n - 1 \in 0 .. k - 1
      BY <1>0, <1>4
    <2>2. CASE n = k
      BY <1>6, <1>7, <2>1, <2>2
    <2>3. CASE n # k
      <3>1. n \in 1 .. k - 1 /\ n \in 0 .. k - 1
        BY <1>0, <1>4, <2>3
      <3> QED
        BY <1>5, <1>6, <2>1, <3>1
    <2> QED
      BY <2>2, <2>3
  <1>10. Defined(g, k)
    <2>1. g[0] = base
      BY <1>0, <1>4, <1>5
    <2> HIDE DEF g
    <2> QED
      BY <1>8, <1>9, <2>1
  <1>11. FALSE
    <2> HIDE DEF Defined
    <2> QED
      BY <1>2, <1>10
  <1> QED
    BY <1>11

-----------------------------------------------------------------------------
(* Sums *)

\* The sum over a finite set of shops of natural quantities is one, and none is zero.
LEMMA SumIsNatural ==
    ASSUME NEW D, IsFiniteSet(D), NEW f \in [D -> Nat]
    PROVE  SumFunction(f) \in Nat /\ (D = {} => SumFunction(f) = 0)
  <1> DEFINE pick(t) == CHOOSE x \in t : TRUE
             F(g) == [t \in SUBSET D |-> IF t = {} THEN 0 ELSE f[pick(t)] + g[t \ {pick(t)}]]
             iter == CHOOSE g : g = F(g)
             S == [SUBSET D -> Nat]
             N == Cardinality(D)
  <1>1. SumFunction(f) = iter[D]
    BY DEF SumFunction, SumFunctionOnSet, FoldFunctionOnSet, MapThenFoldSet
  <1>2. N \in Nat /\ \A t \in SUBSET D : IsFiniteSet(t) /\ Cardinality(t) \in 0 .. N
    BY FS_Subset, FS_CardinalityType
  <1>3. \A t \in SUBSET D : t # {} =>
            /\ pick(t) \in t /\ pick(t) \in D /\ t \ {pick(t)} \in SUBSET D
            /\ Cardinality(t) \in 1 .. N
            /\ Cardinality(t \ {pick(t)}) = Cardinality(t) - 1
    <2> SUFFICES ASSUME NEW t \in SUBSET D, t # {}
                 PROVE  /\ pick(t) \in t /\ pick(t) \in D /\ t \ {pick(t)} \in SUBSET D
                        /\ Cardinality(t) \in 1 .. N
                        /\ Cardinality(t \ {pick(t)}) = Cardinality(t) - 1
      OBVIOUS
    <2>1. pick(t) \in t
      OBVIOUS
    <2> HIDE DEF pick
    <2>2. Cardinality(t \ {pick(t)}) = Cardinality(t) - 1
      BY <1>2, <2>1, FS_RemoveElement
    <2>3. Cardinality(t) # 0
      BY <1>2, FS_EmptySet
    <2> QED
      BY <1>2, <2>1, <2>2, <2>3
  <1> HIDE DEF pick, N
  <1>4. \A g \in S : F(g) \in S
    <2> SUFFICES ASSUME NEW g \in S, NEW t \in SUBSET D, t # {}
                 PROVE  f[pick(t)] + g[t \ {pick(t)}] \in Nat
      OBVIOUS
    <2>1. f[pick(t)] \in Nat /\ g[t \ {pick(t)}] \in Nat
      BY <1>3
    <2> QED
      BY <2>1
  <1>5. \E g \in S : g = F(g)
    <2> DEFINE base == [t \in SUBSET D |-> 0]
               step == [n \in 1 .. N |-> [g \in S |-> F(g)]]
    <2>1. base \in S /\ \A n \in 1 .. N : \A g \in S : step[n][g] = F(g) /\ step[n][g] \in S
      <3>1. base \in S
        OBVIOUS
      <3> HIDE DEF S, F
      <3> QED
        BY <1>4, <3>1
    <2>2. PICK L : /\ L[0] = base
                   /\ \A n \in 1 .. N : L[n - 1] \in S /\ L[n] = step[n][L[n - 1]]
      <3>1. N \in Nat
        BY <1>2
      <3> HIDE DEF S, base, step
      <3>2. StaysIn(S, N, base, step)
        BY <2>1, <3>1 DEF StaysIn
      <3>3. \E L : StepByStep(L, S, N, base, step)
        BY <3>2, NaturalRecursion
      <3> QED
        BY <3>3 DEF StepByStep
    <2>3. /\ \A n \in 1 .. N : L[n - 1] \in S /\ L[n] = F(L[n - 1])
          /\ \A n \in 0 .. N : L[n] \in S
      <3> HIDE DEF S, F, base, step
      <3>1. \A n \in 1 .. N : L[n - 1] \in S /\ L[n] = F(L[n - 1]) /\ L[n] \in S
        BY <2>1, <2>2
      <3>2. \A n \in 0 .. N : n = 0 \/ n \in 1 .. N
        BY <1>2
      <3> QED
        BY <2>1, <2>2, <3>1, <3>2
    <2> DEFINE g == [t \in SUBSET D |-> L[Cardinality(t)][t]]
    <2>4. g \in S
      <3> SUFFICES ASSUME NEW t \in SUBSET D PROVE L[Cardinality(t)][t] \in Nat
        OBVIOUS
      <3>1. L[Cardinality(t)] \in S
        <4>1. Cardinality(t) \in 0 .. N
          BY <1>2
        <4> HIDE DEF S
        <4> QED
          BY <2>3, <4>1
      <3> QED
        BY <3>1
    <2>5. ASSUME NEW t \in SUBSET D
          PROVE  g[t] = IF t = {} THEN 0 ELSE f[pick(t)] + g[t \ {pick(t)}]
      <3>1. CASE t = {}
        <4>1. g[t] = L[0][t]
          BY <3>1, FS_EmptySet
        <4> QED
          BY <2>2, <3>1, <4>1
      <3>2. CASE t # {}
        <4>1. Cardinality(t) \in 1 .. N /\ t \ {pick(t)} \in SUBSET D
              /\ Cardinality(t \ {pick(t)}) = Cardinality(t) - 1
          BY <1>3, <3>2
        <4>2. L[Cardinality(t)] = F(L[Cardinality(t) - 1])
          BY <2>3, <4>1
        <4>3. L[Cardinality(t)][t] = f[pick(t)] + L[Cardinality(t) - 1][t \ {pick(t)}]
          BY <3>2, <4>2
        <4> QED
          BY <3>2, <4>1, <4>3
      <3> QED
        BY <3>1, <3>2
    <2>6. g = F(g)
      BY <2>5
    <2> QED
      BY <2>4, <2>6
  <1>6. iter = F(iter)
    <2> HIDE DEF F
    <2> QED
      BY <1>5
  <1>7. \A t \in SUBSET D : iter[t] = IF t = {} THEN 0 ELSE f[pick(t)] + iter[t \ {pick(t)}]
    <2> HIDE DEF iter
    <2> QED
      BY <1>6
  <1> HIDE DEF iter, F, S
  <1>8. \A t \in SUBSET D : iter[t] \in Nat
    <2> DEFINE Bad == {n \in Nat : \E t \in SUBSET D : Cardinality(t) = n /\ iter[t] \notin Nat}
    <2> SUFFICES ASSUME Bad # {} PROVE FALSE
      BY <1>2
    <2>1. PICK n \in Bad : \A j \in Bad : n <= j
      <3>1. Bad \subseteq Nat
        OBVIOUS
      <3> HIDE DEF Bad
      <3> QED
        BY <3>1, LeastOfNaturals
    <2>2. PICK t \in SUBSET D : Cardinality(t) = n /\ iter[t] \notin Nat
      BY <2>1
    <2>3. t # {}
      <3> SUFFICES ASSUME t = {} PROVE FALSE
        OBVIOUS
      <3>1. iter[t] = 0
        BY <1>7
      <3> QED
        BY <2>2, <3>1
    <2>4. /\ t \ {pick(t)} \in SUBSET D
          /\ Cardinality(t \ {pick(t)}) \in Nat
          /\ Cardinality(t \ {pick(t)}) < n
      BY <1>2, <1>3, <2>2, <2>3
    <2>5. iter[t \ {pick(t)}] \in Nat
      BY <2>1, <2>4
    <2>6. f[pick(t)] \in Nat
      BY <1>3, <2>3
    <2>7. iter[t] = f[pick(t)] + iter[t \ {pick(t)}]
      BY <1>7, <2>3
    <2> QED
      BY <2>2, <2>5, <2>6, <2>7
  <1> QED
    BY <1>1, <1>7, <1>8

-----------------------------------------------------------------------------
(* Lines of a message *)

LEMMA ConcatToSet ==
    ASSUME NEW S, NEW s \in Seq(S), NEW t \in Seq(S)
    PROVE  s \o t \in Seq(S) /\ ToSet(s \o t) = ToSet(s) \cup ToSet(t)
  <1>1. /\ s \o t \in Seq(S) /\ Len(s) \in Nat /\ Len(t) \in Nat
        /\ Len(s \o t) = Len(s) + Len(t)
        /\ \A i \in 1 .. Len(s) + Len(t) :
              (s \o t)[i] = IF i <= Len(s) THEN s[i] ELSE t[i - Len(s)]
    BY ConcatProperties
  <1>2. DOMAIN s = 1 .. Len(s) /\ DOMAIN t = 1 .. Len(t)
        /\ DOMAIN (s \o t) = 1 .. Len(s) + Len(t)
    BY <1>1
  <1>3. ASSUME NEW i \in 1 .. Len(s) + Len(t)
        PROVE  (s \o t)[i] \in ToSet(s) \cup ToSet(t)
    <2>1. CASE i <= Len(s)
      BY <1>1, <1>2, <2>1 DEF ToSet
    <2>2. CASE i > Len(s)
      <3>1. i - Len(s) \in 1 .. Len(t)
        BY <1>1, <2>2
      <3> QED
        BY <1>1, <1>2, <2>2, <3>1 DEF ToSet
    <2> QED
      BY <1>1, <2>1, <2>2
  <1>4. ASSUME NEW i \in 1 .. Len(s) PROVE s[i] \in ToSet(s \o t)
    <2>1. i \in 1 .. Len(s) + Len(t) /\ (s \o t)[i] = s[i]
      BY <1>1
    <2> QED
      BY <1>2, <2>1 DEF ToSet
  <1>5. ASSUME NEW i \in 1 .. Len(t) PROVE t[i] \in ToSet(s \o t)
    <2>1. i + Len(s) \in 1 .. Len(s) + Len(t) /\ (s \o t)[i + Len(s)] = t[i]
      BY <1>1
    <2> QED
      BY <1>2, <2>1 DEF ToSet
  <1> QED
    BY <1>1, <1>2, <1>3, <1>4, <1>5 DEF ToSet

\* Joining sequences keeps all their elements and adds none.
LEMMA Flattened ==
    ASSUME NEW S, NEW seqs \in Seq(Seq(S))
    PROVE  /\ FlattenSeq(seqs) \in Seq(S)
           /\ ToSet(FlattenSeq(seqs)) = UNION {ToSet(seqs[i]) : i \in DOMAIN seqs}
  <1>1. CASE Len(seqs) = 0
    <2>1. seqs = <<>> /\ FlattenSeq(seqs) = seqs
      BY <1>1, EmptySeq DEF FlattenSeq
    <2>2. DOMAIN seqs = {} /\ <<>> \in Seq(S)
      BY <2>1
    <2>3. ToSet(seqs) = {}
      BY <2>2 DEF ToSet
    <2> QED
      BY <2>1, <2>2, <2>3
  <1>2. CASE Len(seqs) # 0
    <2> DEFINE N == Len(seqs)
               F(g) == [i \in 1 .. N |-> IF i = 1 THEN seqs[i] ELSE g[i - 1] \o seqs[i]]
               flatten == CHOOSE g : g = F(g)
    <2>1. N \in Nat /\ N # 0 /\ DOMAIN seqs = 1 .. N /\ \A i \in 1 .. N : seqs[i] \in Seq(S)
      BY <1>2
    <2>2. FlattenSeq(seqs) = flatten[N]
      BY <1>2 DEF FlattenSeq
    <2> HIDE DEF N
    <2>3. \E g : g = F(g)
      <3> DEFINE step == [n \in 1 .. N |-> [x \in Seq(S) |-> x \o seqs[n]]]
      <3>1. \A n \in 1 .. N : \A x \in Seq(S) :
               step[n][x] = x \o seqs[n] /\ step[n][x] \in Seq(S)
        BY <2>1, ConcatProperties
      <3>2. <<>> \in Seq(S)
        OBVIOUS
      <3>3. PICK f : /\ f[0] = <<>>
                     /\ \A n \in 1 .. N : f[n - 1] \in Seq(S) /\ f[n] = step[n][f[n - 1]]
        <4> HIDE DEF step
        <4>1. StaysIn(Seq(S), N, <<>>, step)
          BY <2>1, <3>1, <3>2 DEF StaysIn
        <4>2. \E f : StepByStep(f, Seq(S), N, <<>>, step)
          BY <4>1, NaturalRecursion
        <4> QED
          BY <4>2 DEF StepByStep
      <3>4. \A n \in 1 .. N : f[n - 1] \in Seq(S) /\ f[n] = f[n - 1] \o seqs[n]
        <4> HIDE DEF step
        <4> QED
          BY <3>1, <3>3
      <3> DEFINE g == [i \in 1 .. N |-> f[i]]
      <3>5. ASSUME NEW i \in 1 .. N
            PROVE  g[i] = IF i = 1 THEN seqs[i] ELSE g[i - 1] \o seqs[i]
        <4>1. CASE i = 1
          <5>1. f[1] = <<>> \o seqs[1]
            <6>1. f[1] = f[1 - 1] \o seqs[1]
              BY <3>4, <4>1
            <6>2. 1 - 1 = 0
              OBVIOUS
            <6> QED
              BY <3>3, <6>1, <6>2
          <5>2. <<>> \o seqs[1] = seqs[1]
            BY <2>1, <4>1, ConcatEmptySeq
          <5> QED
            BY <4>1, <5>1, <5>2
        <4>2. CASE i # 1
          <5>1. i - 1 \in 1 .. N
            BY <2>1, <4>2
          <5> QED
            BY <3>4, <4>2, <5>1
        <4> QED
          BY <4>1, <4>2
      <3>6. g = F(g)
        BY <3>5
      <3> QED
        BY <3>6
    <2>4. flatten = F(flatten)
      <3> HIDE DEF F
      <3> QED
        BY <2>3
    <2>5. \A i \in 1 .. N : flatten[i] = IF i = 1 THEN seqs[i] ELSE flatten[i - 1] \o seqs[i]
      <3> HIDE DEF flatten
      <3> QED
        BY <2>4
    <2> HIDE DEF flatten, F
    <2> DEFINE Joined(i) == UNION {ToSet(seqs[j]) : j \in 1 .. i}
               Right(i) == flatten[i] \in Seq(S) /\ ToSet(flatten[i]) = Joined(i)
    <2>6. \A i \in 1 .. N : Right(i)
      <3> DEFINE Bad == {i \in 1 .. N : ~Right(i)}
      <3> SUFFICES ASSUME Bad # {} PROVE FALSE
        OBVIOUS
      <3>1. PICK i \in Bad : \A j \in Bad : i <= j
        <4>1. Bad \subseteq Nat
          BY <2>1
        <4> HIDE DEF Bad
        <4> QED
          BY <4>1, LeastOfNaturals
      <3>2. i \in 1 .. N /\ ~Right(i)
        BY <3>1
      <3>3. CASE i = 1
        <4>1. flatten[1] = seqs[1]
          BY <2>5, <3>2, <3>3
        <4>2. \A j \in 1 .. 1 : j = 1
          OBVIOUS
        <4>3. Joined(1) = ToSet(seqs[1])
          BY <4>2
        <4> QED
          BY <2>1, <3>2, <3>3, <4>1, <4>3
      <3>4. CASE i # 1
        <4>1. i - 1 \in 1 .. N /\ i - 1 < i
          BY <2>1, <3>2, <3>4
        <4>2. Right(i - 1)
          <5>1. ~(i <= i - 1)
            BY <4>1
          <5>2. i - 1 \notin Bad
            <6> HIDE DEF Bad
            <6> QED
              BY <3>1, <5>1
          <5> HIDE DEF Right
          <5> QED
            BY <4>1, <5>2
        <4>3. flatten[i] = flatten[i - 1] \o seqs[i]
          BY <2>5, <3>2, <3>4
        <4>4. flatten[i] \in Seq(S) /\ ToSet(flatten[i]) = ToSet(flatten[i - 1]) \cup ToSet(seqs[i])
          BY <2>1, <3>2, <4>2, <4>3, ConcatToSet
        <4>5. Joined(i) = Joined(i - 1) \cup ToSet(seqs[i])
          <5>1. \A j : j \in 1 .. i <=> j \in 1 .. i - 1 \/ j = i
            BY <2>1, <3>2
          <5> QED
            BY <5>1
        <4> QED
          BY <3>2, <4>2, <4>4, <4>5
      <3> QED
        BY <3>3, <3>4
    <2>7. Right(N)
      <3> HIDE DEF Right
      <3> QED
        BY <2>1, <2>6
    <2>8. Joined(N) = UNION {ToSet(seqs[i]) : i \in DOMAIN seqs}
      BY <2>1
    <2> QED
      BY <2>2, <2>7, <2>8
  <1> QED
    BY <1>1, <1>2

LineSet == [variant : Variants, shop : Shops, quantity : Number, delta : Number]

\* The numbers of a line are those of the report it was built from.
LEMMA NumbersKept ==
    ASSUME NEW dto, NEW variant, NEW shop, NEW report
    PROVE  LET l == BuildLine(dto, variant, shop, report)
           IN  NumbersOf(l.variant, l.shop, l) = NumbersOf(variant, shop, report)
  <1> DEFINE l == BuildLine(dto, variant, shop, report)
  <1>1. l.variant = variant /\ l.shop = shop
    BY DEF BuildLine
  <1>2. l["quantity"] = report["quantity"] /\ l["delta"] = report["delta"]
    BY DEF BuildLine
  <1> HIDE DEF l
  <1>3. \A f \in {"quantity", "delta"} : l[f] = report[f]
    BY <1>2
  <1>4. {f \in {"quantity", "delta"} : Present(l[f])}
          = {f \in {"quantity", "delta"} : Present(report[f])}
    BY <1>3
  <1>5. NumbersOf(variant, shop, l) = NumbersOf(variant, shop, report)
    BY <1>3, <1>4 DEF NumbersOf
  <1> QED
    BY <1>1, <1>5 DEF l

LEMMA Reports ==
    ASSUME NEW d \in Dtos, NEW e \in ToSet(d.variants)
    PROVE  /\ d.warehouse \in Shops \cup {Absent}
           /\ e.variant \in Variants /\ e.quantity \in Number /\ e.delta \in Number
           /\ e.nested \in Seq(Report)
  <1>1. d.warehouse \in Shops \cup {Absent} /\ d.variants \in Seq(Entry)
    BY MessagesAssumption DEF StockDto
  <1>2. e \in Entry
    BY <1>1 DEF ToSet
  <1> QED
    BY <1>1, <1>2 DEF Entry

\* The lines of one variant: one for each warehouse it is reported for.
LEMMA EntryLines ==
    ASSUME NEW d \in Dtos, NEW e \in ToSet(d.variants), EntryAccepted(d, e)
    PROVE  /\ LinesOf(d, e) \in Seq(LineSet)
           /\ UNION {NumbersOf(l.variant, l.shop, l) : l \in ToSet(LinesOf(d, e))}
                = NumbersOf(e.variant, d.warehouse, e)
                    \cup UNION {NumbersOf(e.variant, n.shop, n) : n \in ToSet(e.nested)}
  <1> DEFINE L == LinesOf(d, e)
             All == UNION {NumbersOf(l.variant, l.shop, l) : l \in ToSet(L)}
  <1>1. CASE e.nested # <<>>
    <2>1. L = [i \in DOMAIN e.nested |-> BuildLine(d, e.variant, e.nested[i].shop, e.nested[i])]
      BY <1>1 DEF LinesOf
    <2>2. \A i \in DOMAIN e.nested : e.nested[i] \in Report
      BY Reports
    <2>3. \A i \in DOMAIN e.nested :
             BuildLine(d, e.variant, e.nested[i].shop, e.nested[i]) \in LineSet
      BY <2>2, Reports DEF BuildLine, Report, LineSet
    <2>4. L \in Seq(LineSet)
      <3>1. e.nested \in Seq(Report)
        BY Reports
      <3> QED
        BY <2>1, <2>3, <3>1
    <2>5. ToSet(L) = {BuildLine(d, e.variant, n.shop, n) : n \in ToSet(e.nested)}
      BY <2>1 DEF ToSet
    <2> HIDE DEF L
    <2>6. All = UNION {NumbersOf(e.variant, n.shop, n) : n \in ToSet(e.nested)}
      BY <2>5, NumbersKept
    <2>7. NumbersOf(e.variant, d.warehouse, e) = {}
      <3>1. ~Present(e["quantity"]) /\ ~Present(e["delta"])
        BY <1>1 DEF EntryAccepted
      <3> QED
        BY <3>1 DEF NumbersOf
    <2> HIDE DEF All
    <2>8. All = NumbersOf(e.variant, d.warehouse, e)
                  \cup UNION {NumbersOf(e.variant, n.shop, n) : n \in ToSet(e.nested)}
      BY <2>6, <2>7
    <2> QED
      BY <2>4, <2>8 DEF L, All
  <1>2. CASE e.nested = <<>>
    <2>1. L = <<BuildLine(d, e.variant, d.warehouse, e)>>
      BY <1>2 DEF LinesOf
    <2>2. d.warehouse \in Shops
      BY <1>2, Reports DEF EntryAccepted, Present
    <2>3. BuildLine(d, e.variant, d.warehouse, e) \in LineSet
      BY <2>2, Reports DEF BuildLine, LineSet
    <2>4. L \in Seq(LineSet) /\ ToSet(L) = {BuildLine(d, e.variant, d.warehouse, e)}
      BY <2>1, <2>3 DEF ToSet
    <2> HIDE DEF L
    <2>5. All = NumbersOf(e.variant, d.warehouse, e)
      BY <2>4, NumbersKept
    <2>6. ToSet(e.nested) = {}
      BY <1>2 DEF ToSet
    <2> HIDE DEF All
    <2>7. All = NumbersOf(e.variant, d.warehouse, e)
                  \cup UNION {NumbersOf(e.variant, n.shop, n) : n \in ToSet(e.nested)}
      BY <2>5, <2>6
    <2> QED
      BY <2>4, <2>7 DEF L, All
  <1> QED
    BY <1>1, <1>2

LEMMA CommandLines ==
    ASSUME NEW d \in Dtos, Accepted(d)
    PROVE  /\ ToStockCommand(d) \in Seq(LineSet)
           /\ \A l \in ToSet(ToStockCommand(d)) : LineAccepted(l)
           /\ Reported(d)
                = UNION {NumbersOf(l.variant, l.shop, l) : l \in ToSet(ToStockCommand(d))}
  <1> DEFINE seqs == [i \in DOMAIN d.variants |-> LinesOf(d, d.variants[i])]
             C == ToStockCommand(d)
             All(s) == UNION {NumbersOf(l.variant, l.shop, l) : l \in ToSet(s)}
             Said(e) == NumbersOf(e.variant, d.warehouse, e)
                          \cup UNION {NumbersOf(e.variant, n.shop, n) : n \in ToSet(e.nested)}
  <1>1. d.variants \in Seq(Entry)
    BY MessagesAssumption DEF StockDto
  <1>2. \A i \in DOMAIN d.variants :
           /\ d.variants[i] \in ToSet(d.variants)
           /\ EntryAccepted(d, d.variants[i])
    BY DEF Accepted, ToSet
  <1>3. \A i \in DOMAIN d.variants :
           /\ LinesOf(d, d.variants[i]) \in Seq(LineSet)
           /\ All(LinesOf(d, d.variants[i])) = Said(d.variants[i])
    BY <1>2, EntryLines
  <1>4. seqs \in Seq(Seq(LineSet)) /\ DOMAIN seqs = DOMAIN d.variants
    <2>1. \A i \in 1 .. Len(d.variants) : LinesOf(d, d.variants[i]) \in Seq(LineSet)
      BY <1>1, <1>3
    <2> QED
      BY <1>1, <2>1
  <1>5. \A i \in DOMAIN seqs : \A l \in ToSet(seqs[i]) : LineAccepted(l)
    BY <1>2 DEF EntryAccepted
  <1>6. C = FlattenSeq(seqs)
    BY DEF ToStockCommand
  <1> HIDE DEF seqs
  <1>7. C \in Seq(LineSet) /\ ToSet(C) = UNION {ToSet(seqs[i]) : i \in DOMAIN seqs}
    BY <1>4, <1>6, Flattened
  <1>8. \A l \in ToSet(C) : LineAccepted(l)
    BY <1>5, <1>7
  <1>9. All(C) = UNION {All(seqs[i]) : i \in DOMAIN seqs}
    BY <1>7
  <1>10. All(C) = UNION {Said(d.variants[i]) : i \in DOMAIN d.variants}
    <2> HIDE DEF C, All, Said
    <2>1. \A i \in DOMAIN d.variants : All(seqs[i]) = Said(d.variants[i])
      BY <1>3 DEF seqs
    <2>2. DOMAIN seqs = DOMAIN d.variants
      BY <1>4
    <2> HIDE DEF seqs
    <2>3. \A x : x \in All(C) <=> \E i \in DOMAIN d.variants : x \in All(seqs[i])
      BY <1>9, <2>2
    <2>4. \A x : x \in All(C) <=> \E i \in DOMAIN d.variants : x \in Said(d.variants[i])
      BY <2>1, <2>3
    <2>5. \A x : x \in All(C) <=> x \in UNION {Said(d.variants[i]) : i \in DOMAIN d.variants}
      BY <2>4
    <2>6. PICK A, B : A = All(C) /\ B = UNION {Said(d.variants[i]) : i \in DOMAIN d.variants}
      OBVIOUS
    <2>7. A = B
      BY <2>5, <2>6
    <2> QED
      BY <2>6, <2>7
  <1>11. Reported(d) = UNION {Said(e) : e \in ToSet(d.variants)}
    BY DEF Reported
  <1>12. UNION {Said(e) : e \in ToSet(d.variants)} = UNION {Said(d.variants[i]) : i \in DOMAIN d.variants}
    <2> HIDE DEF Said
    <2> QED
      BY DEF ToSet
  <1>13. Reported(d) = All(C)
    BY <1>10, <1>11, <1>12
  <1> QED
    BY <1>7, <1>8, <1>13

-----------------------------------------------------------------------------
(* What a call is in the middle of *)

\* What is left of a command after n lines.
LEMMA NextLine ==
    ASSUME NEW C \in Seq(LineSet), NEW n \in 0 .. Len(C)
    PROVE  /\ SubSeq(C, n + 1, Len(C)) # <<>> <=> n < Len(C)
           /\ n < Len(C) =>
                 /\ Head(SubSeq(C, n + 1, Len(C))) = C[n + 1]
                 /\ Tail(SubSeq(C, n + 1, Len(C))) = SubSeq(C, (n + 1) + 1, Len(C))
                 /\ C[n + 1] \in LineSet
                 /\ n + 1 \in 0 .. Len(C)
  <1>1. Len(C) \in Nat /\ n \in Nat
    OBVIOUS
  <1>2. CASE n = Len(C)
    <2>1. SubSeq(C, n + 1, Len(C)) = <<>>
      BY <1>1, <1>2, SubSeqEmpty
    <2> QED
      BY <1>1, <1>2, <2>1
  <1>3. CASE n < Len(C)
    <2>1. n + 1 \in 1 .. Len(C) /\ Len(C) \in n + 1 .. Len(C)
      BY <1>1, <1>3
    <2>2. /\ Head(SubSeq(C, n + 1, Len(C))) = C[n + 1]
          /\ Tail(SubSeq(C, n + 1, Len(C))) = SubSeq(C, (n + 1) + 1, Len(C))
      BY <2>1, HeadTailOfSubSeq
    <2>3. Len(SubSeq(C, n + 1, Len(C))) = Len(C) - (n + 1) + 1
      <3>1. \A i \in n + 1 .. Len(C) : C[i] \in LineSet
        BY <1>1
      <3> QED
        BY <1>1, <2>1, <3>1, SubSeqProperties
    <2>4. SubSeq(C, n + 1, Len(C)) # <<>>
      <3>1. Len(<<>>) = 0 /\ Len(C) - (n + 1) + 1 # 0
        BY <1>1, <1>3
      <3> QED
        BY <2>3, <3>1
    <2>5. C[n + 1] \in LineSet
      BY <2>1
    <2> QED
      BY <1>1, <1>3, <2>1, <2>2, <2>4, <2>5
  <1> QED
    BY <1>1, <1>2, <1>3

\* The call and the next of its lines.
LEMMA CurrentLine ==
    ASSUME NEW w \in Workers, NEW C \in Seq(LineSet), NEW n \in Nat, Position(w, C, n)
    PROVE  /\ n \in 0 .. Len(C)
           /\ tx[w].lines # <<>> <=> n < Len(C)
           /\ n < Len(C) => /\ Line(w) = C[n + 1]
                            /\ Row(w) = RowOf(C[n + 1])
                            /\ Row(w) \in StockRows
                            /\ Tail(tx[w].lines) = SubSeq(C, (n + 1) + 1, Len(C))
                            /\ C[n + 1] \in LineSet
                            /\ n + 1 \in 0 .. Len(C)
  <1>1. n \in 0 .. Len(C) /\ tx[w].lines = SubSeq(C, n + 1, Len(C))
    BY DEF Position
  <1>2. \A l \in LineSet : RowOf(l) \in StockRows
    BY DEF LineSet, RowOf, StockRows
  <1> QED
    BY <1>1, <1>2, NextLine DEF Line, Row, RowOf

\* A call in a transaction, its lines, how far it is and what its lines did.
LEMMA CallState ==
    ASSUME StockInv, NEW w \in Workers, tx[w] # NoTx
    PROVE  \E d, n, C, h :
              /\ d \in Dtos /\ n \in Nat /\ C \in Seq(LineSet)
              /\ tx[w].dto = d
              /\ Accepted(d)
              /\ C = ToStockCommand(d)
              /\ \A i \in 1 .. Len(C) : C[i] \in LineSet /\ LineAccepted(C[i])
              /\ Position(w, C, n)
              /\ Replay(w, C, n, h)
  <1>1. PICK d, n, h :
            /\ d \in Dtos /\ n \in Nat
            /\ tx[w].dto = d
            /\ Accepted(d)
            /\ Position(w, ToStockCommand(d), n)
            /\ Replay(w, ToStockCommand(d), n, h)
    BY DEF StockInv, OnCourse
  <1>2. PICK C : C = ToStockCommand(d)
    OBVIOUS
  <1>3. C \in Seq(LineSet) /\ \A l \in ToSet(C) : LineAccepted(l)
    BY <1>1, <1>2, CommandLines
  <1>4. \A i \in 1 .. Len(C) : C[i] \in LineSet /\ C[i] \in ToSet(C)
    BY <1>3 DEF ToSet
  <1>5. \A i \in 1 .. Len(C) : C[i] \in LineSet /\ LineAccepted(C[i])
    BY <1>3, <1>4
  <1> QED
    BY <1>1, <1>2, <1>3, <1>5

\* A call that does nothing stays on course while nothing is committed.
LEMMA Bystander ==
    ASSUME NEW o \in Workers, quantity' = quantity, tx'[o] = tx[o], OnCourse(o)
    PROVE  OnCourse(o)'
  <1>1. PICK d, n, h :
            /\ d \in Dtos /\ n \in Nat
            /\ tx[o].dto = d
            /\ Accepted(d)
            /\ Position(o, ToStockCommand(d), n)
            /\ Replay(o, ToStockCommand(d), n, h)
    BY DEF OnCourse
  <1>2. PICK C : C = ToStockCommand(d)
    OBVIOUS
  <1>3. Position(o, C, n) /\ Replay(o, C, n, h)
    BY <1>1, <1>2
  <1>4. Position(o, C, n)'
    BY <1>3 DEF Position, HalfDone, Row, Line
  <1>5. Replay(o, C, n, h)'
    BY <1>3 DEF Replay, HalfDone, Visible, Row, Line
  <1>6. tx'[o].pc \in {"resolve", "create", "write", "clamp"}
    BY DEF OnCourse
  <1> QED
    BY <1>1, <1>2, <1>4, <1>5, <1>6 DEF OnCourse

\* One more line whose effect the call sees.
LEMMA ReplayOneMore ==
    ASSUME NEW w \in Workers, NEW C \in Seq(LineSet), NEW n \in 0 .. Len(C), n < Len(C),
           NEW h, Replay(w, C, n, h), quantity' = quantity, tx'[w].pc # "clamp",
           \A r \in StockRows : Visible(w, r)' = IF r = RowOf(C[n + 1])
                                                 THEN NumberAfter(h[n][r], C[n + 1])
                                                 ELSE h[n][r]
    PROVE  \E g : Replay(w, C, n + 1, g)'
  <1> DEFINE g == [i \in 0 .. n + 1 |-> IF i <= n THEN h[i] ELSE Effect(h[n], C[n + 1])]
  <1>0. n \in Nat
    OBVIOUS
  <1>1. \A i \in 0 .. n : g[i] = h[i]
    BY <1>0
  <1>2. g[n + 1] = Effect(h[n], C[n + 1])
    BY <1>0
  <1>3. \E f : f = g
    OBVIOUS
  <1> HIDE DEF g
  <1>4. g[0] = quantity'
    BY <1>0, <1>1 DEF Replay
  <1>5. ASSUME NEW i \in 1 .. n + 1 PROVE g[i] = Effect(g[i - 1], C[i])
    <2>1. CASE i = n + 1
      <3>1. g[n] = h[n]
        BY <1>0, <1>1
      <3>2. g[i] = Effect(h[n], C[i]) /\ i - 1 = n
        BY <1>0, <1>2, <2>1
      <3> QED
        BY <3>1, <3>2
    <2>2. CASE i # n + 1
      <3>1. i \in 1 .. n /\ i \in 0 .. n /\ i - 1 \in 0 .. n
        BY <1>0, <2>2
      <3>2. g[i] = h[i] /\ g[i - 1] = h[i - 1] /\ h[i] = Effect(h[i - 1], C[i])
        BY <3>1, <1>1 DEF Replay
      <3> QED
        BY <3>2
    <2> QED
      BY <2>1, <2>2
  <1>6. ASSUME NEW r \in StockRows PROVE g[n + 1][r] = Visible(w, r)'
    BY <1>2 DEF Effect
  <1>7. Replay(w, C, n + 1, g)'
    BY <1>4, <1>5, <1>6 DEF Replay
  <1> QED
    BY <1>7

\* Resolving a shop leaves the lines, what is written and what they did alone.
LEMMA NothingWritten ==
    ASSUME NEW w \in Workers, NEW C, NEW n \in Nat, NEW h, n < Len(C),
           Position(w, C, n), Replay(w, C, n, h), quantity' = quantity,
           tx'[w].lines = tx[w].lines, tx'[w].written = tx[w].written,
           tx[w].pc # "clamp", tx'[w].pc # "clamp"
    PROVE  Position(w, C, n)' /\ Replay(w, C, n, h)'
  <1>1. Position(w, C, n)'
    BY DEF Position, HalfDone
  <1>2. Replay(w, C, n, h)'
    BY DEF Replay, HalfDone, Visible
  <1> QED
    BY <1>1, <1>2

-----------------------------------------------------------------------------
(* The steps of a call that commit nothing *)

(***************************************************************************)
(* Such a step keeps the invariant if what it does to its own transaction  *)
(* is right and it has locked no row and created no shop that another      *)
(* transaction holds.                                                      *)
(***************************************************************************)
LEMMA OwnStep ==
    ASSUME StockInv, NEW w \in Workers, UNCHANGED <<committed, mappings, moved>>,
           Shape', \A o \in Workers \ {w} : tx'[o] = tx[o],
           messages' \in 0 .. MaxMessages,
           tx'[w].pc \in TxPCs, tx'[w].targets \subseteq Pairs,
           \A r \in DOMAIN tx'[w].written :
              r \in StockRows /\ tx'[w].written[r] \in Int /\ ~Locked(r, w),
           \A s \in tx'[w].created : s \in Shops /\ region[s] = None /\ ~Creating(s, w),
           ShopsKnown(w)',
           tx'[w] # NoTx => OnCourse(w)'
    PROVE  StockInv'
  <1>1. /\ region' = region /\ included' = included /\ quantity' = quantity
        /\ owed' = owed /\ given' = given /\ moved' = moved /\ mappings' = mappings
    BY DEF committed
  <1>2. ChangedIsOwed'
    BY <1>1 DEF StockInv, ChangedIsOwed, SumForRegion, Counted
  <1>3. \A r : Locked(r, w)' = Locked(r, w)
    BY DEF Locked
  <1>4. \A s : Creating(s, w)' = Creating(s, w)
    BY DEF Creating
  <1>5. ASSUME NEW o \in Workers \ {w}
        PROVE  /\ \A r \in DOMAIN tx[o].written : ~Locked(r, o)'
               /\ \A s \in tx[o].created : ~Creating(s, o)'
    <2>1. \A r \in DOMAIN tx[o].written : ~Locked(r, o) /\ r \notin DOMAIN tx'[w].written
      BY DEF StockInv, TypeOK, Locked
    <2>2. \A s \in tx[o].created : ~Creating(s, o) /\ s \notin tx'[w].created
      BY DEF StockInv, Creating
    <2> QED
      BY <2>1, <2>2 DEF Locked, Creating
  <1>6. TypeOK'
    <2>1. ASSUME NEW o \in Workers
          PROVE  (/\ tx[o].pc \in TxPCs
                  /\ DOMAIN tx[o].written \subseteq StockRows
                  /\ tx[o].created \subseteq Shops
                  /\ tx[o].targets \subseteq Pairs
                  /\ \A row \in DOMAIN tx[o].written :
                        tx[o].written[row] \in Int /\ ~Locked(row, o))'
      <3>1. CASE o = w
        BY <1>3, <3>1
      <3>2. CASE o # w
        <4>1. tx'[o] = tx[o]
          BY <3>2
        <4> QED
          BY <1>5, <3>2, <4>1 DEF StockInv, TypeOK
      <3> QED
        BY <3>1, <3>2
    <2> QED
      BY <1>1, <2>1 DEF StockInv, TypeOK
  <1>7. ASSUME NEW o \in Workers
        PROVE  (/\ \A s \in tx[o].created : region[s] = None /\ ~Creating(s, o)
                /\ ShopsKnown(o)
                /\ tx[o] # NoTx => OnCourse(o))'
    <2>1. CASE o = w
      BY <1>1, <1>4, <2>1
    <2>2. CASE o # w
      <3>1. tx'[o] = tx[o]
        BY <2>2
      <3>2. ShopsKnown(o)'
        BY <1>1, <3>1 DEF StockInv, ShopsKnown, Known, Line
      <3>3. tx'[o] # NoTx => OnCourse(o)'
        BY <1>1, <3>1, Bystander DEF StockInv
      <3> QED
        BY <1>1, <1>5, <2>2, <3>1, <3>2, <3>3 DEF StockInv
    <2> QED
      BY <2>1, <2>2
  <1>8. (\A r \in StockRows : quantity[r] # None => region[r[2]] # None)'
    BY <1>1 DEF StockInv
  <1> QED
    BY <1>2, <1>6, <1>7, <1>8 DEF StockInv

LEMMA BeginKeeps ==
    ASSUME StockInv, NEW w \in Workers, NEW d \in Dtos, BeginMessage(w, d)
    PROVE  StockInv'
  <1>1. PICK C : C = ToStockCommand(d)
    OBVIOUS
  <1>2. /\ tx[w] = NoTx /\ messages < MaxMessages /\ Accepted(d)
        /\ messages' = messages + 1 /\ UNCHANGED <<committed, mappings, moved>>
        /\ tx' = [tx EXCEPT ![w] =
                     [NoTx EXCEPT !.pc = "resolve", !.dto = d, !.lines = C]]
    BY <1>1 DEF BeginMessage
  <1>3. /\ tx'[w].pc = "resolve" /\ tx'[w].dto = d /\ tx'[w].lines = C
        /\ tx'[w].written = <<>> /\ tx'[w].created = {} /\ tx'[w].targets = {}
        /\ \A o \in Workers \ {w} : tx'[o] = tx[o]
        /\ Shape'
    BY <1>2 DEF StockInv, Shape, TxFields, NoTx
  <1>4. DOMAIN tx'[w].written = {}
    BY <1>3
  <1>5. C \in Seq(LineSet)
    BY <1>1, <1>2, CommandLines
  <1>6. Position(w, C, 0)'
    <2>1. SubSeq(C, 0 + 1, Len(C)) = C /\ Len(C) \in Nat
      BY <1>5, SubSeqFull
    <2> QED
      BY <1>3, <1>4, <2>1 DEF Position
  <1>7. \E h : Replay(w, C, 0, h)'
    <2>1. \E h : h = [i \in {0} |-> quantity]
      OBVIOUS
    <2>2. PICK h : h = [i \in {0} |-> quantity]
      BY <2>1
    <2>3. Replay(w, C, 0, h)'
      BY <1>2, <1>3, <1>4, <2>2 DEF Replay, Visible, HalfDone, committed
    <2> QED
      BY <2>3
  <1>8. OnCourse(w)'
    BY <1>1, <1>2, <1>3, <1>6, <1>7 DEF OnCourse
  <1>9. ShopsKnown(w)'
    BY <1>3, <1>4 DEF ShopsKnown
  <1>10. messages' \in 0 .. MaxMessages
    BY <1>2, BoundsAssumption DEF StockInv, TypeOK
  <1>11. "resolve" \in TxPCs
    BY DEF TxPCs
  <1> QED
    BY <1>2, <1>3, <1>4, <1>8, <1>9, <1>10, <1>11, OwnStep

LEMMA FindShopKeeps ==
    ASSUME StockInv, NEW w \in Workers, FindShop(w)
    PROVE  StockInv'
  <1>1. PICK s, found : /\ s = Line(w).shop
                        /\ found = IF s \in tx[w].created THEN Unassigned ELSE region[s]
    OBVIOUS
  <1>2. /\ tx[w].pc = "resolve" /\ tx[w].lines # <<>>
        /\ tx' = [tx EXCEPT ![w].pc = IF found = None THEN "create" ELSE "write",
                            ![w].region = found]
        /\ UNCHANGED <<committed, bounds, moved>>
    BY <1>1 DEF FindShop, At
  <1>3. tx[w] # NoTx
    BY <1>2 DEF NoTx
  <1>4. /\ tx'[w].pc = IF found = None THEN "create" ELSE "write"
        /\ tx'[w].region = found /\ tx'[w].dto = tx[w].dto /\ tx'[w].lines = tx[w].lines
        /\ tx'[w].written = tx[w].written /\ tx'[w].created = tx[w].created
        /\ tx'[w].targets = tx[w].targets
        /\ \A o \in Workers \ {w} : tx'[o] = tx[o]
        /\ Shape'
    BY <1>2 DEF StockInv, Shape, TxFields
  <1>5. PICK d, n, C, h :
            /\ d \in Dtos /\ n \in Nat /\ C \in Seq(LineSet)
            /\ tx[w].dto = d /\ Accepted(d) /\ C = ToStockCommand(d)
            /\ Position(w, C, n) /\ Replay(w, C, n, h)
    BY <1>3, CallState
  <1>6. n < Len(C) /\ Line(w) = C[n + 1] /\ C[n + 1] \in LineSet
    <2>1. Position(w, C, n) /\ tx[w].lines # <<>>
      BY <1>2, <1>5
    <2> QED
      BY <1>5, <2>1, CurrentLine
  <1>7. Position(w, C, n)' /\ Replay(w, C, n, h)'
    <2>1. /\ quantity' = quantity /\ tx[w].pc # "clamp" /\ tx'[w].pc # "clamp"
          /\ tx'[w].lines = tx[w].lines /\ tx'[w].written = tx[w].written
      BY <1>2, <1>4 DEF committed
    <2>2. Position(w, C, n) /\ Replay(w, C, n, h) /\ n < Len(C)
      BY <1>5, <1>6
    <2> QED
      BY <1>5, <2>1, <2>2, NothingWritten
  <1>8. OnCourse(w)'
    BY <1>4, <1>5, <1>7 DEF OnCourse
  <1>9. ShopsKnown(w)'
    <2>1. s \in Shops
      BY <1>1, <1>6 DEF LineSet
    <2>2. found # None => found \in AllRegions /\ Known(w, s)
      <3>1. region[s] \in AllRegions \cup {None} /\ Unassigned \in AllRegions
        BY <2>1 DEF StockInv, TypeOK, AllRegions
      <3> QED
        BY <1>1, <3>1 DEF Known
    <2>3. Line(w)' = Line(w)
      BY <1>4 DEF Line
    <2>4. \A x : Known(w, x)' = Known(w, x)
      BY <1>2, <1>4 DEF Known, committed
    <2>5. \A r \in DOMAIN tx[w].written : Known(w, r[2])
      BY DEF StockInv, ShopsKnown
    <2>6. tx'[w].pc \in {"write", "clamp"} => found \in AllRegions /\ Known(w, Line(w).shop)
      BY <1>1, <1>4, <2>2
    <2> QED
      BY <1>4, <2>3, <2>4, <2>5, <2>6 DEF ShopsKnown
  <1>10. tx'[w].pc \in TxPCs
    BY <1>4 DEF TxPCs
  <1> QED
    BY <1>2, <1>4, <1>8, <1>9, <1>10, OwnStep DEF StockInv, TypeOK, bounds

LEMMA EnsureUnmappedKeeps ==
    ASSUME StockInv, NEW w \in Workers, EnsureUnmapped(w)
    PROVE  StockInv'
  <1>1. PICK s, resolved, created :
            /\ s = Line(w).shop
            /\ resolved = IF region[s] = None THEN Unassigned ELSE region[s]
            /\ created = IF region[s] = None THEN tx[w].created \cup {s} ELSE tx[w].created
    OBVIOUS
  <1>2. /\ tx[w].pc = "create" /\ tx[w].lines # <<>> /\ ~Creating(s, w)
        /\ tx' = [tx EXCEPT ![w].pc = "write", ![w].region = resolved, ![w].created = created]
        /\ UNCHANGED <<committed, bounds, moved>>
    BY <1>1 DEF EnsureUnmapped, At
  <1>3. tx[w] # NoTx
    BY <1>2 DEF NoTx
  <1>4. /\ tx'[w].pc = "write" /\ tx'[w].region = resolved /\ tx'[w].created = created
        /\ tx'[w].dto = tx[w].dto /\ tx'[w].lines = tx[w].lines
        /\ tx'[w].written = tx[w].written /\ tx'[w].targets = tx[w].targets
        /\ \A o \in Workers \ {w} : tx'[o] = tx[o]
        /\ Shape'
    BY <1>2 DEF StockInv, Shape, TxFields
  <1>5. PICK d, n, C, h :
            /\ d \in Dtos /\ n \in Nat /\ C \in Seq(LineSet)
            /\ tx[w].dto = d /\ Accepted(d) /\ C = ToStockCommand(d)
            /\ Position(w, C, n) /\ Replay(w, C, n, h)
    BY <1>3, CallState
  <1>6. n < Len(C) /\ Line(w) = C[n + 1] /\ C[n + 1] \in LineSet
    <2>1. Position(w, C, n) /\ tx[w].lines # <<>>
      BY <1>2, <1>5
    <2> QED
      BY <1>5, <2>1, CurrentLine
  <1>7. Position(w, C, n)' /\ Replay(w, C, n, h)'
    <2>1. /\ quantity' = quantity /\ tx[w].pc # "clamp" /\ tx'[w].pc # "clamp"
          /\ tx'[w].lines = tx[w].lines /\ tx'[w].written = tx[w].written
      BY <1>2, <1>4 DEF committed
    <2>2. Position(w, C, n) /\ Replay(w, C, n, h) /\ n < Len(C)
      BY <1>5, <1>6
    <2> QED
      BY <1>5, <2>1, <2>2, NothingWritten
  <1>8. OnCourse(w)'
    BY <1>4, <1>5, <1>7 DEF OnCourse
  <1>9. s \in Shops
    BY <1>1, <1>6 DEF LineSet
  <1>10. ShopsKnown(w)'
    <2>1. resolved \in AllRegions
      <3>1. region[s] \in AllRegions \cup {None} /\ Unassigned \in AllRegions
        BY <1>9 DEF StockInv, TypeOK, AllRegions
      <3> QED
        BY <1>1, <3>1
    <2>2. Line(w)' = Line(w)
      BY <1>4 DEF Line
    <2>3. Known(w, s)' /\ \A x : Known(w, x) => Known(w, x)'
      <3>1. region' = region /\ tx'[w].created = created
        BY <1>2, <1>4 DEF committed
      <3>2. \A x : x \in tx[w].created => x \in created
        BY <1>1
      <3>3. s \in created \/ region[s] # None
        BY <1>1
      <3> QED
        BY <3>1, <3>2, <3>3 DEF Known
    <2>4. \A r \in DOMAIN tx[w].written : Known(w, r[2])
      BY DEF StockInv, ShopsKnown
    <2> QED
      BY <1>1, <1>4, <2>1, <2>2, <2>3, <2>4 DEF ShopsKnown
  <1>11. \A x \in tx'[w].created : x \in Shops /\ region[x] = None /\ ~Creating(x, w)
    <2>1. \A x \in tx[w].created : x \in Shops /\ region[x] = None /\ ~Creating(x, w)
      BY DEF StockInv, TypeOK
    <2> QED
      BY <1>1, <1>2, <1>4, <1>9, <2>1
  <1>12. tx'[w].pc \in TxPCs
    BY <1>4 DEF TxPCs
  <1> QED
    BY <1>2, <1>4, <1>8, <1>10, <1>11, <1>12, OwnStep DEF StockInv, TypeOK, bounds

(***************************************************************************)
(* A write of the row of the current line, of a number that is not         *)
(* negative unless it is still to be clamped.                              *)
(***************************************************************************)
LEMMA RowWritten ==
    ASSUME StockInv, NEW w \in Workers, NEW C \in Seq(LineSet), NEW n \in Nat, n < Len(C),
           Position(w, C, n), UNCHANGED <<committed, bounds, moved>>,
           tx[w].pc \in {"write", "clamp"},
           ~Locked(Row(w), w), NEW number \in Int,
           tx'[w].written = Put(tx[w].written, Row(w), number),
           tx'[w].created = tx[w].created
    PROVE  /\ DOMAIN tx'[w].written = DOMAIN tx[w].written \cup {Row(w)}
           /\ tx'[w].written[Row(w)] = number
           /\ \A r \in DOMAIN tx[w].written : r # Row(w) =>
                 /\ tx'[w].written[r] = tx[w].written[r]
                 /\ tx[w].written[r] >= 0
           /\ \A r \in StockRows : Visible(w, r)' = IF r = Row(w) THEN number ELSE Visible(w, r)
           /\ \A r \in DOMAIN tx'[w].written :
                 r \in StockRows /\ tx'[w].written[r] \in Int /\ ~Locked(r, w)
           /\ \A x : Known(w, x)' = Known(w, x)
           /\ \A r \in DOMAIN tx'[w].written : Known(w, r[2])
  <1> PICK row : row = Row(w)
    OBVIOUS
  <1>1. /\ DOMAIN tx'[w].written = DOMAIN tx[w].written \cup {row}
        /\ tx'[w].written[row] = number
        /\ \A r \in DOMAIN tx[w].written : r # row => tx'[w].written[r] = tx[w].written[r]
    BY DEF Put
  <1>2. row \in StockRows /\ Line(w) = C[n + 1] /\ row = RowOf(C[n + 1])
    BY CurrentLine
  <1>3. \A r \in DOMAIN tx[w].written : r # row => tx[w].written[r] >= 0
    BY DEF Position, HalfDone
  <1>4. \A r \in DOMAIN tx[w].written :
           r \in StockRows /\ tx[w].written[r] \in Int /\ ~Locked(r, w)
    BY DEF StockInv, TypeOK
  <1>5. quantity' = quantity /\ region' = region
    BY DEF committed
  <1>6. \A r \in StockRows : Visible(w, r)' = IF r = row THEN number ELSE Visible(w, r)
    BY <1>1, <1>5 DEF Visible
  <1>7. \A r \in DOMAIN tx'[w].written :
           r \in StockRows /\ tx'[w].written[r] \in Int /\ ~Locked(r, w)
    BY <1>1, <1>2, <1>4
  <1>8. \A x : Known(w, x)' = Known(w, x)
    BY <1>5 DEF Known
  <1>9. \A r \in DOMAIN tx'[w].written : Known(w, r[2])
    <2>1. Known(w, Line(w).shop) /\ \A r \in DOMAIN tx[w].written : Known(w, r[2])
      BY DEF StockInv, ShopsKnown
    <2>2. row[2] = Line(w).shop
      BY DEF Row
    <2> QED
      BY <1>1, <2>1, <2>2
  <1> QED
    BY <1>1, <1>3, <1>6, <1>7, <1>8, <1>9

\* The last statement of a line.
LEMMA LineDoneKeeps ==
    ASSUME StockInv, NEW w \in Workers, NEW d \in Dtos, NEW n \in Nat,
           NEW C \in Seq(LineSet), NEW h, n < Len(C),
           tx[w].dto = d, Accepted(d), C = ToStockCommand(d),
           Position(w, C, n), Replay(w, C, n, h), UNCHANGED <<committed, bounds, moved>>,
           tx[w].pc \in {"write", "clamp"}, ~Locked(Row(w), w),
           NEW number \in Nat,
           tx' = [tx EXCEPT ![w] = LineDone(w, Put(tx[w].written, Row(w), number))],
           number = NumberAfter(h[n][Row(w)], C[n + 1])
    PROVE  StockInv'
  <1>1. /\ tx'[w].pc = "resolve" /\ tx'[w].lines = Tail(tx[w].lines)
        /\ tx'[w].written = Put(tx[w].written, Row(w), number)
        /\ tx'[w].targets = tx[w].targets \cup {<<Line(w).variant, tx[w].region>>}
        /\ tx'[w].dto = tx[w].dto /\ tx'[w].created = tx[w].created
        /\ \A o \in Workers \ {w} : tx'[o] = tx[o]
        /\ Shape'
    BY DEF StockInv, Shape, TxFields, LineDone
  <1>2. /\ n \in 0 .. Len(C) /\ Line(w) = C[n + 1] /\ Row(w) = RowOf(C[n + 1])
        /\ Row(w) \in StockRows /\ Tail(tx[w].lines) = SubSeq(C, (n + 1) + 1, Len(C))
        /\ C[n + 1] \in LineSet /\ n + 1 \in 0 .. Len(C)
    BY CurrentLine
  <1>3. /\ DOMAIN tx'[w].written = DOMAIN tx[w].written \cup {Row(w)}
        /\ tx'[w].written[Row(w)] = number
        /\ \A r \in DOMAIN tx[w].written : r # Row(w) =>
              /\ tx'[w].written[r] = tx[w].written[r]
              /\ tx[w].written[r] >= 0
        /\ \A r \in StockRows : Visible(w, r)' = IF r = Row(w) THEN number ELSE Visible(w, r)
        /\ \A r \in DOMAIN tx'[w].written :
              r \in StockRows /\ tx'[w].written[r] \in Int /\ ~Locked(r, w)
        /\ \A x : Known(w, x)' = Known(w, x)
        /\ \A r \in DOMAIN tx'[w].written : Known(w, r[2])
    <2>1. number \in Int
      OBVIOUS
    <2> QED
      BY <1>1, <2>1, RowWritten
  <1>4. Position(w, C, n + 1)'
    <2>1. \A i \in 1 .. n + 1 : RowOf(C[i]) \in DOMAIN tx'[w].written
      <3>1. \A i \in 1 .. n : RowOf(C[i]) \in DOMAIN tx[w].written
        BY DEF Position
      <3>2. \A i \in 1 .. n + 1 : i = n + 1 \/ i \in 1 .. n
        OBVIOUS
      <3> QED
        BY <1>2, <1>3, <3>1, <3>2
    <2>2. \A r \in DOMAIN tx'[w].written : tx'[w].written[r] >= 0
      BY <1>3
    <2> QED
      BY <1>1, <1>2, <2>1, <2>2 DEF Position
  <1>5. \E g : Replay(w, C, n + 1, g)'
    <2>1. ASSUME NEW r \in StockRows
          PROVE  Visible(w, r)' = IF r = RowOf(C[n + 1])
                                  THEN NumberAfter(h[n][r], C[n + 1])
                                  ELSE h[n][r]
      <3>1. r # Row(w) => h[n][r] = Visible(w, r)
        BY DEF Replay, HalfDone
      <3> QED
        BY <1>2, <1>3, <3>1
    <2>2. quantity' = quantity /\ tx'[w].pc # "clamp"
      BY <1>1 DEF committed
    <2> QED
      BY <1>2, <2>1, <2>2, ReplayOneMore
  <1>6. OnCourse(w)'
    <2>1. n + 1 \in Nat
      OBVIOUS
    <2> QED
      BY <1>1, <1>4, <1>5, <2>1 DEF OnCourse
  <1>7. ShopsKnown(w)'
    BY <1>1, <1>3 DEF ShopsKnown
  <1>8. tx'[w].targets \subseteq Pairs
    <2>1. tx[w].targets \subseteq Pairs /\ tx[w].region \in AllRegions
      BY DEF StockInv, TypeOK, ShopsKnown
    <2>2. Line(w).variant \in Variants
      BY <1>2 DEF LineSet
    <2> QED
      BY <1>1, <2>1, <2>2 DEF Pairs
  <1>9. \A s \in tx'[w].created : s \in Shops /\ region[s] = None /\ ~Creating(s, w)
    BY <1>1 DEF StockInv, TypeOK
  <1>10. tx'[w].pc \in TxPCs
    BY <1>1 DEF TxPCs
  <1>11. messages' \in 0 .. MaxMessages /\ UNCHANGED <<committed, mappings, moved>>
    BY DEF StockInv, TypeOK, bounds
  <1> QED
    BY <1>1, <1>3, <1>6, <1>7, <1>8, <1>9, <1>10, <1>11, OwnStep

LEMMA ClampedIsNatural ==
    ASSUME NEW m \in Int
    PROVE  Clamped(m) \in Nat /\ Clamped(Clamped(m)) = Clamped(m)
  BY DEF Clamped

LEMMA SetQuantityKeeps ==
    ASSUME StockInv, NEW w \in Workers, SetQuantity(w)
    PROVE  StockInv'
  <1>1. PICK number : number = Clamped(Line(w).quantity)
    OBVIOUS
  <1>2. /\ tx[w].pc = "write" /\ tx[w].lines # <<>>
        /\ Present(Line(w).quantity) /\ ~Locked(Row(w), w)
        /\ tx' = [tx EXCEPT ![w] = LineDone(w, Put(tx[w].written, Row(w), number))]
        /\ UNCHANGED <<committed, bounds, moved>>
    BY <1>1 DEF SetQuantity, At
  <1>3. tx[w] # NoTx
    BY <1>2 DEF NoTx
  <1>4. PICK d, n, C, h :
            /\ d \in Dtos /\ n \in Nat /\ C \in Seq(LineSet)
            /\ tx[w].dto = d /\ Accepted(d) /\ C = ToStockCommand(d)
            /\ Position(w, C, n) /\ Replay(w, C, n, h)
    BY <1>3, CallState
  <1>5. n < Len(C) /\ Line(w) = C[n + 1] /\ C[n + 1] \in LineSet
    <2>1. Position(w, C, n) /\ tx[w].lines # <<>>
      BY <1>2, <1>4
    <2> QED
      BY <1>4, <2>1, CurrentLine
  <1>6. number = NumberAfter(h[n][Row(w)], C[n + 1]) /\ number \in Nat
    <2>1. Line(w).quantity \in Int
      BY <1>2, <1>5 DEF LineSet, Number, Present
    <2>2. number \in Nat
      BY <1>1, <2>1, ClampedIsNatural
    <2>3. \A old : number = NumberAfter(old, C[n + 1])
      BY <1>1, <1>2, <1>5 DEF NumberAfter
    <2> QED
      BY <2>2, <2>3
  <1>7. tx[w].pc \in {"write", "clamp"}
    BY <1>2
  <1> QED
    BY <1>2, <1>4, <1>5, <1>6, <1>7, LineDoneKeeps

LEMMA ClampQuantityKeeps ==
    ASSUME StockInv, NEW w \in Workers, ClampQuantity(w)
    PROVE  StockInv'
  <1>1. PICK number : number = Clamped(Visible(w, Row(w)))
    OBVIOUS
  <1>2. /\ tx[w].pc = "clamp" /\ tx[w].lines # <<>>
        /\ tx' = [tx EXCEPT ![w] = LineDone(w, Put(tx[w].written, Row(w), number))]
        /\ UNCHANGED <<committed, bounds, moved>>
    BY <1>1 DEF ClampQuantity, At
  <1>3. tx[w] # NoTx
    BY <1>2 DEF NoTx
  <1>4. PICK d, n, C, h :
            /\ d \in Dtos /\ n \in Nat /\ C \in Seq(LineSet)
            /\ tx[w].dto = d /\ Accepted(d) /\ C = ToStockCommand(d)
            /\ Position(w, C, n) /\ Replay(w, C, n, h)
    BY <1>3, CallState
  <1>5. n < Len(C)
    <2>1. Position(w, C, n) /\ tx[w].lines # <<>>
      BY <1>2, <1>4
    <2> QED
      BY <1>4, <2>1, CurrentLine
  <1>6. number = NumberAfter(h[n][Row(w)], C[n + 1])
    BY <1>1, <1>2, <1>4 DEF Replay
  <1>7. ~Locked(Row(w), w) /\ number \in Nat
    <2>1. Row(w) \in DOMAIN tx[w].written
      BY <1>2, <1>4 DEF Position
    <2>2. ~Locked(Row(w), w) /\ tx[w].written[Row(w)] \in Int
      BY <2>1 DEF StockInv, TypeOK
    <2>3. Visible(w, Row(w)) \in Int
      BY <2>1, <2>2 DEF Visible
    <2> QED
      BY <1>1, <2>2, <2>3, ClampedIsNatural
  <1>8. tx[w].pc \in {"write", "clamp"}
    BY <1>2
  <1> QED
    BY <1>2, <1>4, <1>5, <1>6, <1>7, <1>8, LineDoneKeeps

\* The first statement of an increment; the second has still to clamp the sum.
LEMMA AdjustQuantityKeeps ==
    ASSUME StockInv, NEW w \in Workers, AdjustQuantity(w)
    PROVE  StockInv'
  <1>1. PICK old, number :
            /\ old = Visible(w, Row(w))
            /\ number = IF old = None THEN Clamped(Line(w).delta) ELSE old + Line(w).delta
    OBVIOUS
  <1>2. /\ tx[w].pc = "write" /\ tx[w].lines # <<>>
        /\ Present(Line(w).delta) /\ ~Locked(Row(w), w)
        /\ tx' = [tx EXCEPT ![w].pc = "clamp", ![w].written = Put(@, Row(w), number)]
        /\ UNCHANGED <<committed, bounds, moved>>
    BY <1>1 DEF AdjustQuantity, At
  <1>3. tx[w] # NoTx
    BY <1>2 DEF NoTx
  <1>4. /\ tx'[w].pc = "clamp" /\ tx'[w].region = tx[w].region
        /\ tx'[w].written = Put(tx[w].written, Row(w), number)
        /\ tx'[w].dto = tx[w].dto /\ tx'[w].lines = tx[w].lines
        /\ tx'[w].created = tx[w].created /\ tx'[w].targets = tx[w].targets
        /\ \A o \in Workers \ {w} : tx'[o] = tx[o]
        /\ Shape'
    BY <1>2 DEF StockInv, Shape, TxFields
  <1>5. PICK d, n, C, h :
            /\ d \in Dtos /\ n \in Nat /\ C \in Seq(LineSet)
            /\ tx[w].dto = d /\ Accepted(d) /\ C = ToStockCommand(d)
            /\ \A i \in 1 .. Len(C) : C[i] \in LineSet /\ LineAccepted(C[i])
            /\ Position(w, C, n) /\ Replay(w, C, n, h)
    BY <1>3, CallState
  <1>6. /\ n < Len(C) /\ n \in 0 .. Len(C) /\ Line(w) = C[n + 1] /\ Row(w) = RowOf(C[n + 1])
        /\ Row(w) \in StockRows /\ C[n + 1] \in LineSet
    <2>1. Position(w, C, n) /\ tx[w].lines # <<>>
      BY <1>2, <1>5
    <2> QED
      BY <1>5, <2>1, CurrentLine
  <1>7. Line(w).delta \in Int /\ ~Present(C[n + 1].quantity)
    <2>1. n + 1 \in 1 .. Len(C)
      BY <1>6
    <2>2. LineAccepted(C[n + 1])
      BY <1>5, <2>1
    <2>3. Line(w).delta \in Number /\ Present(C[n + 1].delta)
      BY <1>2, <1>6 DEF LineSet
    <2> QED
      BY <1>6, <2>2, <2>3 DEF LineAccepted, Present, Number
  <1>8. old = None \/ old \in Int
    BY <1>1, <1>6 DEF StockInv, TypeOK, Visible, Quantities
  <1>9. number \in Int /\ Clamped(number) = NumberAfter(old, C[n + 1])
    <2>1. CASE old = None
      <3>1. number = Clamped(Line(w).delta)
        BY <1>1, <2>1
      <3>2. NumberAfter(old, C[n + 1]) = Clamped(0 + Line(w).delta)
        BY <1>6, <1>7, <2>1 DEF NumberAfter
      <3>3. 0 + Line(w).delta = Line(w).delta
        BY <1>7
      <3> QED
        BY <1>7, <3>1, <3>2, <3>3, ClampedIsNatural
    <2>2. CASE old # None
      <3>1. number = old + Line(w).delta
        BY <1>1, <2>2
      <3>2. NumberAfter(old, C[n + 1]) = Clamped(old + Line(w).delta)
        BY <1>6, <1>7, <2>2 DEF NumberAfter
      <3> QED
        BY <1>7, <1>8, <2>2, <3>1, <3>2
    <2> QED
      BY <2>1, <2>2
  <1>10. /\ DOMAIN tx'[w].written = DOMAIN tx[w].written \cup {Row(w)}
         /\ tx'[w].written[Row(w)] = number
         /\ \A r \in DOMAIN tx[w].written : r # Row(w) =>
               /\ tx'[w].written[r] = tx[w].written[r]
               /\ tx[w].written[r] >= 0
         /\ \A r \in StockRows : Visible(w, r)' = IF r = Row(w) THEN number ELSE Visible(w, r)
         /\ \A r \in DOMAIN tx'[w].written :
               r \in StockRows /\ tx'[w].written[r] \in Int /\ ~Locked(r, w)
         /\ \A x : Known(w, x)' = Known(w, x)
         /\ \A r \in DOMAIN tx'[w].written : Known(w, r[2])
    <2>1. tx[w].pc \in {"write", "clamp"} /\ Position(w, C, n) /\ n < Len(C)
      BY <1>2, <1>5, <1>6
    <2> QED
      BY <1>2, <1>4, <1>5, <1>9, <2>1, RowWritten
  <1>11. Line(w)' = Line(w) /\ Row(w)' = Row(w)
    BY <1>4 DEF Line, Row
  <1>12. Position(w, C, n)'
    <2>1. \A i \in 1 .. n : RowOf(C[i]) \in DOMAIN tx'[w].written
      BY <1>5, <1>10 DEF Position
    <2>2. \A r \in DOMAIN tx'[w].written : tx'[w].written[r] >= 0 \/ HalfDone(w, r)'
      BY <1>4, <1>10, <1>11 DEF HalfDone
    <2>3. n \in 0 .. Len(C) /\ tx'[w].lines = SubSeq(C, n + 1, Len(C))
      BY <1>4, <1>5 DEF Position
    <2>4. Row(w)' \in DOMAIN tx'[w].written
      BY <1>10, <1>11
    <2> QED
      BY <1>6, <2>1, <2>2, <2>3, <2>4 DEF Position
  <1>13. Replay(w, C, n, h)'
    <2>1. h[0] = quantity' /\ \A i \in 1 .. n : h[i] = Effect(h[i - 1], C[i])
      BY <1>2, <1>5 DEF Replay, committed
    <2>2. \A r \in StockRows : h[n][r] = Visible(w, r)
      BY <1>2, <1>5 DEF Replay, HalfDone
    <2>3. \A r \in StockRows : ~HalfDone(w, r)' => h[n][r] = Visible(w, r)'
      BY <1>4, <1>10, <1>11, <2>2 DEF HalfDone
    <2>4. h[n][Row(w)'] = old /\ Visible(w, Row(w))' = number
      BY <1>1, <1>6, <1>10, <1>11, <2>2
    <2> QED
      BY <1>9, <2>1, <2>3, <2>4 DEF Replay
  <1>14. OnCourse(w)'
    BY <1>4, <1>5, <1>12, <1>13 DEF OnCourse
  <1>15. ShopsKnown(w)'
    <2>1. tx[w].region \in AllRegions /\ Known(w, Line(w).shop)
      BY <1>2 DEF StockInv, ShopsKnown
    <2> QED
      BY <1>4, <1>10, <1>11, <2>1 DEF ShopsKnown
  <1>16. \A s \in tx'[w].created : s \in Shops /\ region[s] = None /\ ~Creating(s, w)
    BY <1>4 DEF StockInv, TypeOK
  <1>17. tx'[w].pc \in TxPCs
    BY <1>4 DEF TxPCs
  <1>18. messages' \in 0 .. MaxMessages /\ tx'[w].targets \subseteq Pairs
    BY <1>2, <1>4 DEF StockInv, TypeOK, bounds
  <1>19. UNCHANGED <<committed, mappings, moved>>
    BY <1>2 DEF bounds
  <1> QED
    BY <1>4, <1>10, <1>14, <1>15, <1>16, <1>17, <1>18, <1>19, OwnStep

LEMMA RollbackKeeps ==
    ASSUME StockInv, NEW w \in Workers, Rollback(w)
    PROVE  StockInv'
  <1>1. UNCHANGED <<committed, bounds, moved>> /\ tx' = [tx EXCEPT ![w] = NoTx]
    BY DEF Rollback
  <1>2. tx'[w] = NoTx /\ Shape' /\ \A o \in Workers \ {w} : tx'[o] = tx[o]
    BY <1>1 DEF StockInv, Shape, TxFields, NoTx
  <1>3. /\ tx'[w].pc = "idle" /\ DOMAIN tx'[w].written = {}
        /\ tx'[w].created = {} /\ tx'[w].targets = {}
    BY <1>2 DEF NoTx
  <1>4. ShopsKnown(w)'
    BY <1>3 DEF ShopsKnown
  <1>5. messages' \in 0 .. MaxMessages /\ UNCHANGED <<committed, mappings, moved>>
    BY <1>1 DEF StockInv, TypeOK, bounds
  <1>6. tx'[w].pc \in TxPCs
    BY <1>3 DEF TxPCs
  <1> QED
    BY <1>2, <1>3, <1>4, <1>5, <1>6, OwnStep

-----------------------------------------------------------------------------
(* The steps that commit *)

LEMMA SumTyped ==
    ASSUME TypeOK, NEW p \in Pairs
    PROVE  SumForRegion(p) \in Nat /\ (Counted(p) = {} => SumForRegion(p) = 0)
  <1>1. PICK D, f : D = Counted(p) /\ f = [s \in D |-> quantity[<<p[1], s>>]]
    OBVIOUS
  <1>2. D \subseteq Shops /\ IsFiniteSet(D)
    <2>1. D \subseteq Shops
      BY <1>1 DEF Counted
    <2> QED
      BY <2>1, ShopsAssumption, FS_Subset
  <1>3. ASSUME NEW s \in D PROVE quantity[<<p[1], s>>] \in Nat
    <2>1. quantity[<<p[1], s>>] # None
      BY <1>1 DEF Counted
    <2>2. <<p[1], s>> \in StockRows
      BY <1>2 DEF Pairs, StockRows
    <2>3. quantity[<<p[1], s>>] \in Quantities
      BY <2>2 DEF TypeOK
    <2> QED
      BY <2>1, <2>3 DEF Quantities
  <1>4. f \in [D -> Nat]
    BY <1>1, <1>3
  <1>5. SumForRegion(p) = SumFunction(f)
    BY <1>1 DEF SumForRegion
  <1> QED
    BY <1>1, <1>2, <1>4, <1>5, SumIsNatural

\* The sum of a pair depends on the shops that count for it and their stock only.
LEMMA SumKept ==
    ASSUME NEW p,
           \A s \in Shops :
              /\ (s \in Counted(p))' <=> s \in Counted(p)
              /\ s \in Counted(p) => quantity'[<<p[1], s>>] = quantity[<<p[1], s>>]
    PROVE  SumForRegion(p)' = SumForRegion(p)
  <1>1. PICK D, E : D = Counted(p) /\ E = Counted(p)'
    OBVIOUS
  <1>2. D \subseteq Shops /\ E \subseteq Shops
    BY <1>1 DEF Counted
  <1>3. D = E
    BY <1>1, <1>2
  <1>4. [s \in D |-> quantity[<<p[1], s>>]] = [s \in E |-> quantity'[<<p[1], s>>]]
    BY <1>1, <1>2, <1>3
  <1> QED
    BY <1>1, <1>4 DEF SumForRegion

\* The calls see neither tasks nor what was given to e-com.
LEMMA CallsKept ==
    ASSUME StockInv, tx' = tx, quantity' = quantity,
           \A s : region'[s] = None <=> region[s] = None
    PROVE  /\ Shape'
           /\ (\A r \in StockRows : quantity[r] # None => region[r[2]] # None)'
           /\ (\A w \in Workers :
                 /\ \A s \in tx[w].created : region[s] = None /\ ~Creating(s, w)
                 /\ ShopsKnown(w)
                 /\ tx[w] # NoTx => OnCourse(w))'
  <1>1. Shape'
    BY DEF StockInv, Shape
  <1>2. (\A r \in StockRows : quantity[r] # None => region[r[2]] # None)'
    BY DEF StockInv
  <1>3. ASSUME NEW w \in Workers
        PROVE  (/\ \A s \in tx[w].created : region[s] = None /\ ~Creating(s, w)
                /\ ShopsKnown(w)
                /\ tx[w] # NoTx => OnCourse(w))'
    <2>1. \A x : Known(w, x)' = Known(w, x)
      BY DEF Known
    <2>2. ShopsKnown(w)'
      BY <2>1 DEF StockInv, ShopsKnown, Line
    <2>3. (tx[w] # NoTx => OnCourse(w))'
      BY Bystander DEF StockInv
    <2>4. (\A s \in tx[w].created : region[s] = None /\ ~Creating(s, w))'
      BY DEF StockInv, Creating
    <2> QED
      BY <2>2, <2>3, <2>4
  <1> QED
    BY <1>1, <1>2, <1>3

LEMMA RecalculateKeeps ==
    ASSUME StockInv, NEW p \in Pairs, Recalculate(p, 0)
    PROVE  StockInv'
  <1>1. PICK number :
          number = [total |-> SumForRegion(p),
                    quantity |-> Quantity(SumForRegion(p), SafetyBuffer[p[2]], 0)]
    OBVIOUS
  <1>2. /\ given' = [given EXCEPT ![p] = number] /\ owed' = owed \ {p} /\ moved' = moved \ {p}
        /\ UNCHANGED <<region, included, quantity, tx, bounds>>
    BY <1>1 DEF Recalculate
  <1>3. number \in [total : Nat, quantity : Nat]
    <2>1. SumForRegion(p) \in Nat
      BY SumTyped DEF StockInv
    <2>2. SafetyBuffer[p[2]] \in Nat
      BY BufferAssumption DEF Pairs
    <2>3. \A a, b \in Nat : Quantity(a, b, 0) \in Nat
      BY DEF Quantity
    <2> QED
      BY <1>1, <2>1, <2>2, <2>3
  <1>4. TypeOK'
    <2>1. given' \in [Pairs -> [total : Nat, quantity : Nat] \cup {None}]
      BY <1>2, <1>3 DEF StockInv, TypeOK
    <2>2. owed' \subseteq Pairs /\ moved' \subseteq Pairs
      BY <1>2 DEF StockInv, TypeOK
    <2> QED
      BY <1>2, <2>1, <2>2 DEF StockInv, TypeOK, Locked, bounds
  <1>5. ChangedIsOwed'
    <2> SUFFICES ASSUME NEW q \in Pairs, q \notin owed', q \notin moved'
                 PROVE  (IF given[q] = None THEN SumForRegion(q) = 0
                                            ELSE given[q].total = SumForRegion(q))'
      BY DEF ChangedIsOwed
    <2>1. SumForRegion(q)' = SumForRegion(q)
      BY <1>2 DEF SumForRegion, Counted
    <2>2. CASE q = p
      <3>1. given'[q] = number
        BY <1>2, <2>2 DEF StockInv, TypeOK
      <3>2. number # None
        BY <1>3, NoneAssumption
      <3>3. number.total = SumForRegion(q)
        BY <1>1, <2>2
      <3> QED
        BY <2>1, <3>1, <3>2, <3>3
    <2>3. CASE q # p
      <3>1. given'[q] = given[q]
        BY <1>2, <2>3 DEF StockInv, TypeOK
      <3>2. q \notin owed /\ q \notin moved
        BY <1>2, <2>3
      <3> QED
        BY <2>1, <3>1, <3>2 DEF StockInv, ChangedIsOwed
    <2> QED
      BY <2>2, <2>3
  <1> QED
    BY <1>2, <1>4, <1>5, CallsKept DEF StockInv

LEMMA RecalculateVariantKeeps ==
    ASSUME StockInv, NEW v \in Variants, RecalculateVariant(v)
    PROVE  StockInv'
  <1>1. /\ owed' = owed \cup HeldIn(v)
        /\ UNCHANGED <<region, included, quantity, given, tx, bounds, moved>>
    BY DEF RecalculateVariant
  <1>2. HeldIn(v) \subseteq Pairs
    <2> SUFFICES ASSUME NEW s \in Shops, quantity[<<v, s>>] # None
                 PROVE  <<v, region[s]>> \in Pairs
      BY DEF HeldIn
    <2>1. PICK r \in StockRows : r = <<v, s>>
      BY DEF StockRows
    <2>2. region[r[2]] # None
      BY <2>1 DEF StockInv
    <2>3. region[s] \in AllRegions
      BY <2>1, <2>2 DEF StockInv, TypeOK
    <2> QED
      BY <2>3 DEF Pairs
  <1>3. TypeOK'
    BY <1>1, <1>2 DEF StockInv, TypeOK, Locked, bounds
  <1>4. ChangedIsOwed'
    BY <1>1 DEF StockInv, ChangedIsOwed, SumForRegion, Counted
  <1> QED
    BY <1>1, <1>3, <1>4, CallsKept DEF StockInv

LEMMA MapShopKeeps ==
    ASSUME StockInv, NEW s \in Shops, NEW r \in Regions, MapShop(s, r)
    PROVE  StockInv'
  <1>1. /\ region[s] # None /\ mappings < MaxMappings /\ mappings' = mappings + 1
        /\ region' = [region EXCEPT ![s] = r]
        /\ included' = [included EXCEPT ![s] = TRUE]
        /\ moved' = moved \cup (Variants \X {region[s], r})
        /\ UNCHANGED <<quantity, owed, given, tx, messages>>
    BY DEF MapShop
  <1>2. r \in AllRegions /\ r # None /\ region[s] \in AllRegions
    <2>1. region[s] \in AllRegions \cup {None} /\ r \in AllRegions
      BY DEF StockInv, TypeOK, AllRegions
    <2> QED
      BY <1>1, <2>1, NoneAssumption
  <1>3. DOMAIN region = Shops /\ DOMAIN included = Shops
    BY DEF StockInv, TypeOK
  <1>4. /\ region'[s] = r /\ included'[s]
        /\ \A x : x # s => region'[x] = region[x]
        /\ \A x : x # s => included'[x] = included[x]
    BY <1>1, <1>3
  <1>5. TypeOK'
    <2>1. region' \in [Shops -> AllRegions \cup {None}] /\ included' \in [Shops -> BOOLEAN]
      BY <1>1, <1>2 DEF StockInv, TypeOK
    <2>2. moved' \subseteq Pairs
      BY <1>1, <1>2 DEF StockInv, TypeOK, Pairs
    <2>3. mappings' \in 0 .. MaxMappings
      BY <1>1, BoundsAssumption DEF StockInv, TypeOK
    <2> QED
      BY <1>1, <2>1, <2>2, <2>3 DEF StockInv, TypeOK, Locked
  <1>6. ChangedIsOwed'
    <2> SUFFICES ASSUME NEW p \in Pairs, p \notin owed', p \notin moved'
                 PROVE  (IF given[p] = None THEN SumForRegion(p) = 0
                                            ELSE given[p].total = SumForRegion(p))'
      BY DEF ChangedIsOwed
    <2>1. p \notin owed /\ p \notin moved /\ p[2] # region[s] /\ p[2] # r
      BY <1>1 DEF Pairs
    <2>2. ASSUME NEW x \in Shops
          PROVE  /\ (x \in Counted(p))' <=> x \in Counted(p)
                 /\ x \in Counted(p) => quantity'[<<p[1], x>>] = quantity[<<p[1], x>>]
      <3>1. CASE x = s
        BY <1>1, <1>4, <2>1, <3>1 DEF Counted
      <3>2. CASE x # s
        BY <1>1, <1>4, <3>2 DEF Counted
      <3> QED
        BY <3>1, <3>2
    <2>3. SumForRegion(p)' = SumForRegion(p)
      BY <2>2, SumKept
    <2> QED
      BY <1>1, <2>1, <2>3 DEF StockInv, ChangedIsOwed
  <1>7. \A x : region'[x] = None <=> region[x] = None
    BY <1>1, <1>2, <1>4
  <1> QED
    BY <1>1, <1>5, <1>6, <1>7, CallsKept DEF StockInv

\* While one call commits, what another has done could as well follow it.
LEMMA CommitOfOther ==
    ASSUME StockInv, NEW w \in Workers, NEW o \in Workers \ {w}, tx'[o] = tx[o],
           quantity' = [r \in StockRows |-> Visible(w, r)],
           tx[o] # NoTx
    PROVE  OnCourse(o)'
  <1>1. \A r \in StockRows : r \notin DOMAIN tx[w].written => quantity'[r] = quantity[r]
    BY DEF Visible
  <1>2. \A r \in DOMAIN tx[w].written : r \notin DOMAIN tx[o].written
    BY DEF StockInv, TypeOK, Locked
  <1>3. PICK d, n, C, h :
            /\ d \in Dtos /\ n \in Nat /\ C \in Seq(LineSet)
            /\ tx[o].dto = d /\ Accepted(d) /\ C = ToStockCommand(d)
            /\ Position(o, C, n) /\ Replay(o, C, n, h)
    BY CallState
  <1>4. \A r : HalfDone(o, r) => r \in DOMAIN tx[o].written
    BY <1>3 DEF Position, HalfDone
  <1>5. n \in 0 .. Len(C) /\ \A i \in 1 .. n : RowOf(C[i]) \in DOMAIN tx[o].written
    BY <1>3 DEF Position
  <1>6. Position(o, C, n)'
    BY <1>3 DEF Position, HalfDone, Row, Line
  <1>7. \E g : Replay(o, C, n, g)'
    <2>1. \E g : g = [i \in 0 .. n |-> [r \in StockRows |->
                        IF r \in DOMAIN tx[w].written THEN quantity'[r] ELSE h[i][r]]]
      OBVIOUS
    <2>2. PICK g : g = [i \in 0 .. n |-> [r \in StockRows |->
                          IF r \in DOMAIN tx[w].written THEN quantity'[r] ELSE h[i][r]]]
      BY <2>1
    <2>3. \A i \in 0 .. n : /\ g[i] = [r \in StockRows |-> g[i][r]]
                            /\ \A r \in StockRows :
                                  /\ r \in DOMAIN tx[w].written => g[i][r] = quantity'[r]
                                  /\ r \notin DOMAIN tx[w].written => g[i][r] = h[i][r]
      BY <2>2
    <2>4. g[0] = quantity'
      <3>1. h[0] = quantity /\ 0 \in 0 .. n
        BY <1>3 DEF Replay
      <3>2. \A r \in StockRows : g[0][r] = quantity'[r]
        BY <1>1, <2>3, <3>1
      <3>3. quantity' = [r \in StockRows |-> quantity'[r]]
        OBVIOUS
      <3> QED
        BY <2>3, <3>1, <3>2, <3>3
    <2>5. ASSUME NEW i \in 1 .. n PROVE g[i] = Effect(g[i - 1], C[i])
      <3>1. i \in 0 .. n /\ i - 1 \in 0 .. n
        BY <1>3
      <3>2. h[i] = Effect(h[i - 1], C[i])
        BY <1>3 DEF Replay
      <3>3. RowOf(C[i]) \notin DOMAIN tx[w].written
        BY <1>2, <1>5
      <3>4. ASSUME NEW r \in StockRows
            PROVE  g[i][r] = IF r = RowOf(C[i]) THEN NumberAfter(g[i - 1][r], C[i])
                                                ELSE g[i - 1][r]
        <4>1. CASE r \notin DOMAIN tx[w].written
          <5>1. g[i][r] = h[i][r] /\ g[i - 1][r] = h[i - 1][r]
            BY <2>3, <3>1, <4>1
          <5> QED
            BY <3>2, <5>1 DEF Effect
        <4>2. CASE r \in DOMAIN tx[w].written
          <5>1. g[i][r] = quantity'[r] /\ g[i - 1][r] = quantity'[r]
            BY <2>3, <3>1, <4>2
          <5>2. r # RowOf(C[i])
            BY <3>3, <4>2
          <5> QED
            BY <5>1, <5>2
        <4> QED
          BY <4>1, <4>2
      <3>5. g[i] = [r \in StockRows |-> g[i][r]]
        BY <2>3, <3>1
      <3> QED
        BY <3>4, <3>5 DEF Effect
    <2>6. ASSUME NEW r \in StockRows, ~HalfDone(o, r) PROVE g[n][r] = Visible(o, r)'
      <3>1. n \in 0 .. n /\ h[n][r] = Visible(o, r)
        BY <1>3, <2>6 DEF Replay
      <3>2. CASE r \in DOMAIN tx[w].written
        BY <1>2, <2>3, <3>1, <3>2 DEF Visible
      <3>3. CASE r \notin DOMAIN tx[w].written
        BY <1>1, <2>3, <3>1, <3>3 DEF Visible
      <3> QED
        BY <3>2, <3>3
    <2>7. \A r : HalfDone(o, r)' <=> HalfDone(o, r)
      BY DEF HalfDone, Row, Line
    <2>8. ASSUME tx[o].pc = "clamp"
          PROVE  Clamped(Visible(o, Row(o)))' = NumberAfter(g[n][Row(o)'], C[n + 1])
      <3>1. Row(o) \in DOMAIN tx[o].written /\ n \in 0 .. n
        BY <1>3, <2>8 DEF Position
      <3>2. Row(o) \in StockRows /\ Row(o) \notin DOMAIN tx[w].written
        BY <1>2, <3>1 DEF StockInv, TypeOK
      <3>3. g[n][Row(o)] = h[n][Row(o)]
        BY <2>3, <3>1, <3>2
      <3>4. Row(o)' = Row(o)
        BY DEF Row, Line
      <3>5. Visible(o, Row(o))' = Visible(o, Row(o))
        BY <3>1, <3>4 DEF Visible
      <3>6. Clamped(Visible(o, Row(o))) = NumberAfter(h[n][Row(o)], C[n + 1])
        BY <1>3, <2>8 DEF Replay
      <3> QED
        BY <3>3, <3>4, <3>5, <3>6
    <2>9. Replay(o, C, n, g)'
      BY <2>4, <2>5, <2>6, <2>7, <2>8 DEF Replay
    <2> QED
      BY <2>9
  <1>8. tx'[o].pc \in {"resolve", "create", "write", "clamp"}
    BY DEF StockInv, OnCourse
  <1> QED
    BY <1>3, <1>6, <1>7, <1>8 DEF OnCourse

LEMMA CommitKeeps ==
    ASSUME StockInv, NEW w \in Workers, Commit(w)
    PROVE  StockInv'
  <1>1. /\ tx[w].pc = "resolve" /\ tx[w].lines = <<>>
        /\ quantity' = [r \in StockRows |-> Visible(w, r)]
        /\ region' = [s \in Shops |-> IF s \in tx[w].created THEN Unassigned ELSE region[s]]
        /\ included' = [s \in Shops |-> s \notin tx[w].created /\ included[s]]
        /\ owed' = owed \cup tx[w].targets
        /\ moved' = moved \cup (Affected(w) \ tx[w].targets)
        /\ tx' = [tx EXCEPT ![w] = NoTx]
        /\ UNCHANGED <<given, bounds>>
    BY DEF Commit, CreateShops, Enqueue
  <1>2. tx[w] # NoTx
    BY <1>1 DEF NoTx
  <1>3. tx'[w] = NoTx /\ Shape' /\ \A o \in Workers \ {w} : tx'[o] = tx[o]
    BY <1>1 DEF StockInv, Shape, TxFields, NoTx
  <1>4. /\ tx'[w].pc = "idle" /\ DOMAIN tx'[w].written = {}
        /\ tx'[w].created = {} /\ tx'[w].targets = {}
    BY <1>3 DEF NoTx
  <1>5. /\ DOMAIN tx[w].written \subseteq StockRows
        /\ \A r \in DOMAIN tx[w].written : tx[w].written[r] \in Nat /\ Known(w, r[2])
    <2>1. PICK d, n, C, h :
              /\ d \in Dtos /\ n \in Nat /\ C \in Seq(LineSet)
              /\ Position(w, C, n)
      BY <1>2, CallState
    <2>2. \A r \in DOMAIN tx[w].written : tx[w].written[r] >= 0
      BY <1>1, <2>1 DEF Position, HalfDone
    <2>3. \A r \in DOMAIN tx[w].written : tx[w].written[r] \in Int
      BY DEF StockInv, TypeOK
    <2> QED
      BY <2>2, <2>3 DEF StockInv, TypeOK, ShopsKnown
  <1>6. /\ Unassigned \in AllRegions /\ Unassigned # None
        /\ \A s \in tx[w].created : s \in Shops /\ region[s] = None
    <2>1. Unassigned \in AllRegions
      BY DEF AllRegions
    <2> QED
      BY <2>1, NoneAssumption DEF StockInv, TypeOK
  <1>7. \A s \in Shops : /\ region'[s] = IF s \in tx[w].created THEN Unassigned ELSE region[s]
                         /\ included'[s] = (s \notin tx[w].created /\ included[s])
                         /\ region[s] # None => region'[s] = region[s]
    BY <1>1, <1>6
  <1>8. TypeOK'
    <2>1. quantity' \in [StockRows -> Quantities]
      <3>1. \A r \in StockRows : Visible(w, r) \in Quantities
        BY <1>5 DEF Visible, Quantities, StockInv, TypeOK
      <3> QED
        BY <1>1, <3>1
    <2>2. region' \in [Shops -> AllRegions \cup {None}] /\ included' \in [Shops -> BOOLEAN]
      <3>1. \A s \in Shops : region[s] \in AllRegions \cup {None}
        BY DEF StockInv, TypeOK
      <3> QED
        BY <1>1, <1>6, <3>1
    <2>3. owed' \subseteq Pairs
      BY <1>1 DEF StockInv, TypeOK
    <2>4. moved' \subseteq Pairs
      <3>1. ASSUME NEW r \in DOMAIN tx[w].written
            PROVE  <<r[1], IF region[r[2]] = None THEN Unassigned ELSE region[r[2]]>> \in Pairs
        <4>1. r[1] \in Variants /\ r[2] \in Shops
          BY <1>5 DEF StockRows
        <4>2. region[r[2]] \in AllRegions \cup {None}
          BY <4>1 DEF StockInv, TypeOK
        <4> QED
          BY <1>6, <4>1, <4>2 DEF Pairs
      <3>2. Affected(w) \subseteq Pairs
        BY <3>1 DEF Affected
      <3> QED
        BY <1>1, <3>2 DEF StockInv, TypeOK
    <2>5. ASSUME NEW o \in Workers
          PROVE  (/\ tx[o].pc \in TxPCs
                  /\ DOMAIN tx[o].written \subseteq StockRows
                  /\ tx[o].created \subseteq Shops
                  /\ tx[o].targets \subseteq Pairs
                  /\ \A row \in DOMAIN tx[o].written :
                        tx[o].written[row] \in Int /\ ~Locked(row, o))'
      <3>1. CASE o = w
        BY <1>4, <3>1 DEF TxPCs
      <3>2. CASE o # w
        <4>1. tx'[o] = tx[o]
          BY <1>3, <3>2
        <4>2. \A r : Locked(r, o)' => Locked(r, o)
          BY <1>3, <1>4 DEF Locked
        <4> QED
          BY <4>1, <4>2 DEF StockInv, TypeOK
      <3> QED
        BY <3>1, <3>2
    <2> QED
      BY <1>1, <2>1, <2>2, <2>3, <2>4, <2>5 DEF StockInv, TypeOK, bounds
  <1>9. ChangedIsOwed'
    <2> SUFFICES ASSUME NEW p \in Pairs, p \notin owed', p \notin moved'
                 PROVE  (IF given[p] = None THEN SumForRegion(p) = 0
                                            ELSE given[p].total = SumForRegion(p))'
      BY DEF ChangedIsOwed
    <2>1. p \notin owed /\ p \notin moved /\ p \notin Affected(w)
      BY <1>1
    <2>2. p[1] \in Variants /\ p[2] \in AllRegions /\ p = <<p[1], p[2]>> /\ p[2] # None
      BY NoneAssumption DEF Pairs
    <2>3. ASSUME NEW x \in Shops
          PROVE  /\ (x \in Counted(p))' <=> x \in Counted(p)
                 /\ x \in Counted(p) => quantity'[<<p[1], x>>] = quantity[<<p[1], x>>]
      <3>1. PICK row \in StockRows : row = <<p[1], x>>
        BY <2>2 DEF StockRows
      <3>2. CASE x \in tx[w].created
        BY <1>6, <1>7, <2>2, <3>2 DEF Counted
      <3>3. CASE x \notin tx[w].created
        <4>1. region'[x] = region[x] /\ included'[x] = included[x]
          BY <1>7, <3>3 DEF StockInv, TypeOK
        <4>2. region[x] = p[2] => quantity'[row] = quantity[row]
          <5> SUFFICES ASSUME region[x] = p[2] PROVE quantity'[row] = quantity[row]
            OBVIOUS
          <5>1. row \in DOMAIN tx[w].written => p \in Affected(w)
            BY <2>2, <3>1 DEF Affected
          <5> QED
            BY <1>1, <2>1, <5>1 DEF Visible
        <4> QED
          BY <3>1, <4>1, <4>2 DEF Counted
      <3> QED
        BY <3>2, <3>3
    <2>4. SumForRegion(p)' = SumForRegion(p)
      BY <2>3, SumKept
    <2> QED
      BY <1>1, <2>1, <2>4 DEF StockInv, ChangedIsOwed
  <1>10. ASSUME NEW r \in StockRows, quantity'[r] # None PROVE region'[r[2]] # None
    <2>1. r[2] \in Shops
      BY DEF StockRows
    <2>2. CASE r \in DOMAIN tx[w].written
      <3>1. Known(w, r[2])
        BY <1>5, <2>2
      <3> QED
        BY <1>6, <1>7, <2>1, <3>1 DEF Known
    <2>3. CASE r \notin DOMAIN tx[w].written
      <3>1. quantity[r] # None
        BY <1>1, <1>10, <2>3 DEF Visible
      <3>2. region[r[2]] # None
        BY <3>1 DEF StockInv
      <3> QED
        BY <1>7, <2>1, <3>2
    <2> QED
      BY <2>2, <2>3
  <1>11. ASSUME NEW o \in Workers
         PROVE  (/\ \A s \in tx[o].created : region[s] = None /\ ~Creating(s, o)
                 /\ ShopsKnown(o)
                 /\ tx[o] # NoTx => OnCourse(o))'
    <2>1. CASE o = w
      BY <1>3, <1>4, <2>1 DEF ShopsKnown
    <2>2. CASE o # w
      <3>1. tx'[o] = tx[o]
        BY <1>3, <2>2
      <3>2. \A s : Creating(s, o)' => Creating(s, o)
        BY <1>3, <1>4 DEF Creating
      <3>3. ASSUME NEW s \in tx[o].created PROVE region'[s] = None /\ ~Creating(s, o)'
        <4>1. s \in Shops /\ region[s] = None /\ ~Creating(s, o)
          BY DEF StockInv, TypeOK
        <4>2. s \notin tx[w].created
          BY <2>2, <4>1 DEF Creating
        <4> QED
          BY <1>7, <3>2, <4>1, <4>2
      <3>4. \A s \in Shops : Known(o, s) => Known(o, s)'
        BY <1>7, <3>1 DEF Known
      <3>5. ShopsKnown(o)'
        <4>1. tx[o].pc \in {"write", "clamp"} => Line(o).shop \in Shops
          <5> SUFFICES ASSUME tx[o].pc \in {"write", "clamp"} PROVE Line(o).shop \in Shops
            OBVIOUS
          <5>1. tx[o] # NoTx
            BY DEF NoTx
          <5>2. PICK d, n, C, h :
                    /\ d \in Dtos /\ n \in Nat /\ C \in Seq(LineSet)
                    /\ Position(o, C, n)
            BY <5>1, CallState
          <5>3. n < Len(C)
            BY <5>2 DEF Position
          <5>4. Line(o) \in LineSet
            BY <5>2, <5>3, CurrentLine
          <5> QED
            BY <5>4 DEF LineSet
        <4>2. \A r \in DOMAIN tx[o].written : r[2] \in Shops
          BY DEF StockInv, TypeOK, StockRows
        <4>3. Line(o)' = Line(o)
          BY <3>1 DEF Line
        <4> QED
          BY <3>1, <3>4, <4>1, <4>2, <4>3 DEF StockInv, ShopsKnown
      <3>6. (tx[o] # NoTx => OnCourse(o))'
        BY <1>1, <2>2, <3>1, CommitOfOther
      <3> QED
        BY <3>1, <3>3, <3>5, <3>6
    <2> QED
      BY <2>1, <2>2
  <1> QED
    BY <1>3, <1>8, <1>9, <1>10, <1>11 DEF StockInv

-----------------------------------------------------------------------------
(* The theorems *)

(***************************************************************************)
(* The inductive invariant of applying stock holds in every reachable      *)
(* state, for any messages, warehouses and number of ingest calls.         *)
(***************************************************************************)
THEOREM StockInductive == Spec => []StockInv
  <1>1. Init => StockInv
    <2> SUFFICES ASSUME Init PROVE StockInv
      OBVIOUS
    <2>1. \A w \in Workers : tx[w] = NoTx
      BY DEF Init
    <2>2. \A w \in Workers : /\ tx[w].pc = "idle" /\ DOMAIN tx[w].written = {}
                             /\ tx[w].created = {} /\ tx[w].targets = {}
      BY <2>1 DEF NoTx
    <2>3. Shape
      BY DEF Init, Shape, TxFields, NoTx
    <2>4. TypeOK
      <3>1. region \in [Shops -> AllRegions \cup {None}]
        BY MapAssumption DEF Init, AllRegions
      <3>2. included \in [Shops -> BOOLEAN]
        BY DEF Init
      <3>3. quantity \in [StockRows -> Quantities]
        BY DEF Init, Quantities
      <3>4. given \in [Pairs -> [total : Nat, quantity : Nat] \cup {None}]
        BY DEF Init
      <3>5. messages \in 0 .. MaxMessages /\ mappings \in 0 .. MaxMappings
        BY BoundsAssumption DEF Init
      <3>6. owed \subseteq Pairs /\ moved \subseteq Pairs
        BY DEF Init
      <3>7. "idle" \in TxPCs
        BY DEF TxPCs
      <3> QED
        BY <2>2, <3>1, <3>2, <3>3, <3>4, <3>5, <3>6, <3>7 DEF TypeOK
    <2>5. ChangedIsOwed
      <3> SUFFICES ASSUME NEW p \in Pairs
                   PROVE  given[p] = None /\ SumForRegion(p) = 0
        BY DEF ChangedIsOwed
      <3>1. given[p] = None
        BY DEF Init
      <3>2. \A s \in Shops : quantity[<<p[1], s>>] = None
        BY DEF Init, Pairs, StockRows
      <3>3. Counted(p) = {}
        BY <3>2 DEF Counted
      <3> QED
        BY <2>4, <3>1, <3>3, SumTyped
    <2>6. \A r \in StockRows : quantity[r] = None
      BY DEF Init
    <2> QED
      BY <2>1, <2>2, <2>3, <2>4, <2>5, <2>6 DEF StockInv, ShopsKnown
  <1>2. StockInv /\ [Next]_vars => StockInv'
    <2> SUFFICES ASSUME StockInv, [Next]_vars PROVE StockInv'
      OBVIOUS
    <2>1. ASSUME NEW w \in Workers, Statement(w) PROVE StockInv'
      BY <2>1, FindShopKeeps, EnsureUnmappedKeeps, SetQuantityKeeps, AdjustQuantityKeeps,
         ClampQuantityKeeps, CommitKeeps DEF Statement
    <2>2. CASE UNCHANGED vars
      <3>1. /\ region' = region /\ included' = included /\ quantity' = quantity
            /\ owed' = owed /\ given' = given /\ tx' = tx /\ moved' = moved
            /\ messages' = messages /\ mappings' = mappings
        BY <2>2 DEF vars, committed, bounds
      <3>2. TypeOK'
        BY <3>1 DEF StockInv, TypeOK, Locked
      <3>3. ChangedIsOwed'
        BY <3>1 DEF StockInv, ChangedIsOwed, SumForRegion, Counted
      <3> QED
        BY <3>1, <3>2, <3>3, CallsKept DEF StockInv
    <2> QED
      BY <2>1, <2>2, BeginKeeps, RollbackKeeps, RecalculateKeeps, RecalculateVariantKeeps,
         MapShopKeeps DEF Next
  <1> QED
    BY <1>1, <1>2, PTL DEF Spec

(***************************************************************************)
(* Committed stock is never negative, every row and task is about a region *)
(* that is there, and no two calls have written the same row.              *)
(***************************************************************************)
THEOREM StockTypeCorrect == Spec => []TypeOK
  <1>1. StockInv => TypeOK
    BY DEF StockInv
  <1> QED
    BY <1>1, StockInductive, PTL

(***************************************************************************)
(* Whatever resolves, creates, locks, commits and rolls back at once: a    *)
(* pair whose stock is not what e-com was last given owes a calculation,   *)
(* unless a shop of it was mapped by hand.                                 *)
(***************************************************************************)
THEOREM ChangedOwed == Spec => []ChangedIsOwed
  <1>1. StockInv => ChangedIsOwed
    BY DEF StockInv
  <1> QED
    BY <1>1, StockInductive, PTL

(***************************************************************************)
(* A message of either shape is applied with all its numbers and no other, *)
(* each to the variant and warehouse it was reported for.                  *)
(***************************************************************************)
THEOREM NumbersHaveLines == Spec => []EveryNumberHasItsLine
  <1>1. StockInv => EveryNumberHasItsLine
    <2> SUFFICES ASSUME StockInv, NEW w \in Workers, tx[w] # NoTx
                 PROVE  Reported(tx[w].dto) =
                          UNION {NumbersOf(l.variant, l.shop, l) :
                                    l \in ToSet(ToStockCommand(tx[w].dto))}
      BY DEF EveryNumberHasItsLine
    <2>1. PICK d \in Dtos : tx[w].dto = d /\ Accepted(d)
      BY CallState
    <2> QED
      BY <2>1, CommandLines
  <1> QED
    BY <1>1, StockInductive, PTL

-----------------------------------------------------------------------------
(* The refinement *)

\* What the ledger makes of a command, line by line.
LEMMA CommandEffect ==
    ASSUME NEW quantities, NEW command, NEW N \in Nat, Len(command) = N,
           NEW h, h[0] = quantities,
           \A i \in 1 .. N : h[i] = Ledger!AfterLine(h[i - 1], command[i])
    PROVE  Ledger!AfterCommand(quantities, command) = h[N]
  <1> DEFINE F(f) == [n \in 0 .. N |-> IF n = 0 THEN quantities
                                       ELSE Ledger!AfterLine(f[n - 1], command[n])]
             after == CHOOSE f : f = F(f)
             g == [n \in 0 .. N |-> h[n]]
  <1>2. Ledger!AfterCommand(quantities, command) = after[N]
    BY DEF Ledger!AfterCommand
  <1>3. g = F(g)
    <2>1. ASSUME NEW n \in 0 .. N
          PROVE  h[n] = IF n = 0 THEN quantities ELSE Ledger!AfterLine(g[n - 1], command[n])
      <3>1. CASE n = 0
        BY <3>1
      <3>2. CASE n # 0
        <4>1. n \in 1 .. N /\ n - 1 \in 0 .. N
          BY <3>2
        <4>2. g[n - 1] = h[n - 1]
          BY <4>1
        <4> QED
          BY <3>2, <4>1, <4>2
      <3> QED
        BY <3>1, <3>2
    <2> QED
      BY <2>1
  <1>4. after = F(after)
    <2> HIDE DEF g, F
    <2> QED
      BY <1>3
  <1>5. \A n \in 0 .. N : after[n] = IF n = 0 THEN quantities
                                     ELSE Ledger!AfterLine(after[n - 1], command[n])
    <2> HIDE DEF after
    <2> QED
      BY <1>4
  <1> HIDE DEF after, F, g
  <1>6. \A n \in 0 .. N : after[n] = h[n]
    <2> DEFINE Wrong == {n \in 0 .. N : after[n] # h[n]}
    <2> SUFFICES ASSUME Wrong # {} PROVE FALSE
      OBVIOUS
    <2>1. PICK n \in Wrong : \A j \in Wrong : n <= j
      <3>1. Wrong \subseteq Nat
        OBVIOUS
      <3> HIDE DEF Wrong
      <3> QED
        BY <3>1, LeastOfNaturals
    <2>2. n # 0
      BY <1>5, <2>1
    <2>3. n \in 1 .. N /\ n - 1 \in 0 .. N /\ n - 1 < n
      BY <2>1, <2>2
    <2>4. after[n - 1] = h[n - 1]
      BY <2>1, <2>3
    <2>5. after[n] = h[n]
      BY <1>5, <2>2, <2>3, <2>4
    <2> QED
      BY <2>1, <2>5
  <1> QED
    BY <1>2, <1>6

\* One line does to the stock what the ledger says.
LEMMA SameEffect ==
    ASSUME NEW quantities, quantities = [r \in StockRows |-> quantities[r]], NEW l \in LineSet
    PROVE  Ledger!AfterLine(quantities, LedgerLine(l)) = Effect(quantities, l)
  <1>1. PICK row, set, number :
            /\ row \in StockRows /\ row = RowOf(l)
            /\ LedgerLine(l).row = row /\ LedgerLine(l).set = set /\ LedgerLine(l).number = number
            /\ set = Present(l.quantity)
            /\ number = IF Present(l.quantity) THEN l.quantity ELSE l.delta
    <2>1. RowOf(l) \in StockRows
      BY DEF LineSet, RowOf, StockRows
    <2> QED
      BY <2>1 DEF LedgerLine, RowOf
  <1>2. \A m : Ledger!Clamped(m) = Clamped(m)
    BY DEF Ledger!Clamped, Clamped
  <1>3. Clamped(IF set THEN number
                ELSE (IF quantities[row] = None THEN 0 ELSE quantities[row]) + number)
          = NumberAfter(quantities[row], l)
    BY <1>1 DEF NumberAfter
  <1>4. Ledger!AfterLine(quantities, LedgerLine(l)) =
          [quantities EXCEPT ![row] = NumberAfter(quantities[row], l)]
    BY <1>1, <1>2, <1>3 DEF Ledger!AfterLine
  <1> QED
    BY <1>1, <1>4 DEF Effect

(***************************************************************************)
(* The transactions implement the ledger: a commit applies the whole       *)
(* message at one instant to the stock as it is at that instant, and       *)
(* nothing else changes the stock.                                         *)
(***************************************************************************)
THEOREM StockImplementsLedger == Spec => AppliedAsInLedger
  <1>1. Init => Ledger!Init
    BY DEF Init, Ledger!Init
  <1>2. StockInv /\ [Next]_vars => [Ledger!Next]_quantity
    <2> SUFFICES ASSUME StockInv, Next, quantity' # quantity PROVE Ledger!Next
      BY DEF vars, committed
    <2>1. PICK w \in Workers : Commit(w)
      BY DEF Next, Statement, BeginMessage, FindShop, EnsureUnmapped, SetQuantity,
             AdjustQuantity, ClampQuantity, Rollback, Recalculate, RecalculateVariant,
             MapShop, committed
    <2>2. /\ tx[w].pc = "resolve" /\ tx[w].lines = <<>>
          /\ quantity' = [r \in StockRows |-> Visible(w, r)]
      BY <2>1 DEF Commit
    <2>3. PICK d, n, C, h :
              /\ d \in Dtos /\ n \in Nat /\ C \in Seq(LineSet)
              /\ Accepted(d) /\ C = ToStockCommand(d)
              /\ Position(w, C, n) /\ Replay(w, C, n, h)
      <3>1. tx[w] # NoTx
        BY <2>2 DEF NoTx
      <3> QED
        BY <3>1, CallState
    <2>4. n = Len(C)
      BY <2>2, <2>3, CurrentLine
    <2>5. \A i \in 0 .. n : h[i] = [r \in StockRows |-> h[i][r]]
      <3> SUFFICES ASSUME NEW i \in 0 .. n PROVE h[i] = [r \in StockRows |-> h[i][r]]
        OBVIOUS
      <3>1. CASE i = 0
        BY <2>3, <3>1 DEF Replay, StockInv, TypeOK
      <3>2. CASE i # 0
        <4>1. h[i] = Effect(h[i - 1], C[i])
          BY <2>3, <3>2 DEF Replay
        <4> QED
          BY <4>1 DEF Effect
      <3> QED
        BY <3>1, <3>2
    <2>6. PICK command : command = [i \in DOMAIN C |-> LedgerLine(C[i])]
      OBVIOUS
    <2>7. /\ Len(command) = n
          /\ \A i \in 1 .. n : command[i] = LedgerLine(C[i]) /\ C[i] \in LineSet
      BY <2>3, <2>4, <2>6
    <2>8. command \in LedgerCommands
      BY <2>3, <2>6 DEF LedgerCommands
    <2>9. ASSUME NEW i \in 1 .. n PROVE h[i] = Ledger!AfterLine(h[i - 1], command[i])
      <3>1. h[i - 1] = [r \in StockRows |-> h[i - 1][r]]
        <4>1. i - 1 \in 0 .. n
          BY <2>3
        <4> QED
          BY <2>5, <4>1
      <3>2. h[i] = Effect(h[i - 1], C[i])
        BY <2>3 DEF Replay
      <3> QED
        BY <2>7, <3>1, <3>2, SameEffect
    <2>10. quantity' = h[n]
      <3>1. \A r \in StockRows : h[n][r] = Visible(w, r)
        BY <2>2, <2>3 DEF Replay, HalfDone
      <3>2. h[n] = [r \in StockRows |-> h[n][r]]
        <4>1. n \in 0 .. n
          BY <2>3
        <4> QED
          BY <2>5, <4>1
      <3> QED
        BY <2>2, <3>1, <3>2
    <2>11. quantity' = Ledger!AfterCommand(quantity, command)
      <3>1. PICK q : q = quantity
        OBVIOUS
      <3>2. h[0] = q
        BY <2>3, <3>1 DEF Replay
      <3>3. n \in Nat /\ Len(command) = n
        BY <2>7
      <3>4. \A i \in 1 .. n : h[i] = Ledger!AfterLine(h[i - 1], command[i])
        BY <2>9
      <3>5. Ledger!AfterCommand(q, command) = h[n]
        BY <3>2, <3>3, <3>4, CommandEffect
      <3> QED
        BY <2>10, <3>1, <3>5
    <2> QED
      BY <2>8, <2>11 DEF Ledger!Next
  <1> QED
    BY <1>1, <1>2, StockInductive, PTL DEF Spec, AppliedAsInLedger, Ledger!Spec
=============================================================================

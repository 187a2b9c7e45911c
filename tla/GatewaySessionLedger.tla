----------------------- MODULE GatewaySessionLedger -----------------------
(***************************************************************************)
(* Where the trainable tokens of every answered turn are, for any requests *)
(* (finitely many or not), messages, calls, capacity and options: no token *)
(* is lost or trained twice, and the session implements TurnLedger.        *)
(*                                                                         *)
(* LedgerInv gives every turn one home: an open chain or a closed          *)
(* trajectory, and there the whole of it.  It is inductive relative to     *)
(* TypeInv, ReservationInv and TokenInv: a rollback takes exactly the      *)
(* latest turn because the boundary of a chain delimits it (TokenInv), and *)
(* a commit stores what it took from the chain it continues because nobody *)
(* else changed that chain meanwhile (ReservationInv).  With it a step is  *)
(* seen as what it does to the set of turns that have a home (LedgerStep); *)
(* the sums of TrainableConservation and the actions of TurnLedger follow  *)
(* from that alone.                                                        *)
(***************************************************************************)
EXTENDS GatewaySessionProofs

USE SessionAssumption

-----------------------------------------------------------------------------
(* Sums.                                                                   *)

\* What Total counts.
Units(f) == UNION {{x} \X (1..f[x]) : x \in DOMAIN f}

\* An element of Units, spelled out.
LEMMA InUnits ==
  ASSUME NEW f, NEW u
  PROVE  u \in Units(f) <=> \E x \in DOMAIN f : \E k \in 1..f[x] : u = <<x, k>>
BY DEF Units

\* The units of one element.
LEMMA ColumnCardinality ==
  ASSUME NEW x, NEW n \in Nat
  PROVE  IsFiniteSet({x} \X (1..n)) /\ Cardinality({x} \X (1..n)) = n
<1>1. IsFiniteSet(1..n) /\ Cardinality(1..n) = n
  BY FS_Interval
<1>2. IsFiniteSet({x}) /\ Cardinality({x}) = 1
  BY FS_Singleton
<1>3. /\ IsFiniteSet({x} \X (1..n))
      /\ Cardinality({x} \X (1..n)) = Cardinality({x}) * Cardinality(1..n)
  BY <1>1, <1>2, FS_Product
<1> QED
  BY <1>1, <1>2, <1>3

\* Sums: of nothing, of a single term, and of two functions that differ at one
\* point.
LEMMA TotalZero ==
  ASSUME NEW f, \A x \in DOMAIN f : f[x] = 0
  PROVE  Total(f) = 0 /\ IsFiniteSet(Units(f))
<1>1. Units(f) = {}
  BY InUnits
<1> QED
  BY <1>1, FS_EmptySet DEF Total, Units

LEMMA TotalOne ==
  ASSUME NEW f, NEW x \in DOMAIN f, f[x] \in Nat,
         \A y \in DOMAIN f : y # x => f[y] = 0
  PROVE  Total(f) = f[x]
<1>1. Units(f) = {x} \X (1..f[x])
  <2>1. ASSUME NEW u \in Units(f) PROVE u \in {x} \X (1..f[x])
    <3>1. PICK y \in DOMAIN f : \E k \in 1..f[y] : u = <<y, k>>
      BY InUnits
    <3>2. y = x
      BY <3>1
    <3> QED
      BY <3>1, <3>2
  <2>2. ASSUME NEW u \in {x} \X (1..f[x]) PROVE u \in Units(f)
    BY InUnits
  <2> QED
    BY <2>1, <2>2
<1>2. Cardinality({x} \X (1..f[x])) = f[x]
  BY ColumnCardinality
<1>3. Total(f) = Cardinality(Units(f))
  BY DEF Total, Units
<1> QED
  BY <1>1, <1>2, <1>3

\* Taking one element out of the sum.
LEMMA TotalSplit ==
  ASSUME NEW f, NEW g, NEW x \in DOMAIN f, DOMAIN g = DOMAIN f,
         f[x] \in Nat, g[x] \in Nat, \A y \in DOMAIN f : y # x => g[y] = f[y],
         IsFiniteSet(Units(f))
  PROVE  /\ IsFiniteSet(Units(g)) /\ Total(f) \in Nat /\ Total(g) \in Nat
         /\ Total(g) + f[x] = Total(f) + g[x]
<1> DEFINE rest == {u \in Units(f) : u[1] # x}
<1>1. ASSUME NEW h, DOMAIN h = DOMAIN f, h[x] \in Nat,
             \A y \in DOMAIN f : y # x => h[y] = f[y]
      PROVE  /\ Units(h) = rest \cup ({x} \X (1..h[x]))
             /\ rest \cap ({x} \X (1..h[x])) = {}
  <2>1. ASSUME NEW u \in Units(h) PROVE u \in rest \cup ({x} \X (1..h[x]))
    <3>1. PICK y \in DOMAIN h : \E k \in 1..h[y] : u = <<y, k>>
      BY InUnits
    <3>2. PICK k \in 1..h[y] : u = <<y, k>>
      BY <3>1
    <3>3. CASE y = x
      BY <3>2, <3>3
    <3>4. CASE y # x
      <4>1. y \in DOMAIN f /\ k \in 1..f[y] /\ u[1] # x
        BY <1>1, <3>2, <3>4
      <4>2. u \in Units(f)
        BY <3>2, <4>1, InUnits
      <4> QED
        BY <4>1, <4>2
    <3> QED
      BY <3>3, <3>4
  <2>2. ASSUME NEW u \in rest PROVE u \in Units(h)
    <3>1. PICK y \in DOMAIN f : \E k \in 1..f[y] : u = <<y, k>>
      BY InUnits
    <3>2. PICK k \in 1..f[y] : u = <<y, k>>
      BY <3>1
    <3>3. y # x /\ y \in DOMAIN h /\ h[y] = f[y]
      BY <1>1, <3>2
    <3> QED
      BY <3>2, <3>3, InUnits
  <2>3. ASSUME NEW u \in {x} \X (1..h[x]) PROVE u \in Units(h) /\ u \notin rest
    <3>1. PICK k \in 1..h[x] : u = <<x, k>>
      OBVIOUS
    <3>2. x \in DOMAIN h
      BY <1>1
    <3> QED
      BY <3>1, <3>2, InUnits
  <2> HIDE DEF rest
  <2> QED
    BY <2>1, <2>2, <2>3
<1>2. IsFiniteSet(rest)
  BY FS_Subset
<1> HIDE DEF rest
<1>3. ASSUME NEW h, NEW column, IsFiniteSet(column), Cardinality(column) \in Nat,
             Units(h) = rest \cup column, rest \cap column = {}
      PROVE  /\ IsFiniteSet(Units(h))
             /\ Total(h) = Cardinality(rest) + Cardinality(column)
  <2>1. /\ IsFiniteSet(rest \cup column)
        /\ Cardinality(rest \cup column)
             = Cardinality(rest) + Cardinality(column) - Cardinality(rest \cap column)
    BY <1>2, <1>3, FS_Union
  <2>2. Cardinality(rest \cap column) = 0
    BY <1>3, FS_EmptySet
  <2>3. Cardinality(rest) \in Nat
    BY <1>2, FS_CardinalityType
  <2>4. Total(h) = Cardinality(Units(h))
    BY DEF Total, Units
  <2> QED
    BY <1>3, <2>1, <2>2, <2>3, <2>4
<1>4. Cardinality(rest) \in Nat
  BY <1>2, FS_CardinalityType
<1>5. /\ IsFiniteSet({x} \X (1..f[x])) /\ Cardinality({x} \X (1..f[x])) = f[x]
      /\ IsFiniteSet({x} \X (1..g[x])) /\ Cardinality({x} \X (1..g[x])) = g[x]
  BY ColumnCardinality
<1>6. Total(f) = Cardinality(rest) + f[x]
  BY <1>1, <1>3, <1>5
<1>7. IsFiniteSet(Units(g)) /\ Total(g) = Cardinality(rest) + g[x]
  <2>1. Units(g) = rest \cup ({x} \X (1..g[x])) /\ rest \cap ({x} \X (1..g[x])) = {}
    BY <1>1
  <2> QED
    BY <1>3, <1>5, <2>1
<1> QED
  BY <1>4, <1>6, <1>7

-----------------------------------------------------------------------------
(* Trainable tokens of a buffer, by turn.                                  *)

\* Where request r's trainable tokens are in a buffer.
Mine(b, r) ==
  {i \in DOMAIN b.response_ids : b.response_ids[i].src = r /\ b.response_mask[i] = 1}

LEMMA MineIs ==
  ASSUME NEW b \in TrajectoryBuffer, BufferSound(b), NEW q \in Requests
  PROVE  /\ Mine(b, q) = {i \in 1..Len(b.response_ids) : b.response_ids[i].src = q}
         /\ IsFiniteSet(Mine(b, q))
         /\ TrainableFrom(b, q) = Cardinality(Mine(b, q))
         /\ TrainableFrom(b, q) \in Nat
         /\ TrainableFrom(b, q) = 0 <=> Mine(b, q) = {}
<1>1. /\ DOMAIN b.response_ids = 1..Len(b.response_ids)
      /\ Len(b.response_ids) \in Nat
  BY BufferFields, LenProperties
<1>2. \A i \in 1..Len(b.response_ids) :
        b.response_mask[i] = IF b.response_ids[i].src = Nobody THEN 0 ELSE 1
  BY DEF BufferSound, Marks
<1>3. q # Nobody
  BY DEF SessionAssumption
<1>4. Mine(b, q) = {i \in 1..Len(b.response_ids) : b.response_ids[i].src = q}
  BY <1>1, <1>2, <1>3 DEF Mine
<1>5. IsFiniteSet(Mine(b, q))
  <2>1. IsFiniteSet(1..Len(b.response_ids))
    BY <1>1, FS_Interval
  <2>2. Mine(b, q) \in SUBSET (1..Len(b.response_ids))
    BY <1>4
  <2> QED
    BY <2>1, <2>2, FS_Subset
<1>6. TrainableFrom(b, q) = Cardinality(Mine(b, q))
  BY DEF TrainableFrom, Mine
<1> QED
  BY <1>4, <1>5, <1>6, FS_CardinalityType, FS_EmptySet

\* Where they are among tokens appended to the first n.
Added(ids, n, q) == {i \in (n + 1)..(n + Len(ids)) : ids[i - n].src = q}

\* Appending tokens.
LEMMA MineConcat ==
  ASSUME NEW b \in TrajectoryBuffer, BufferSound(b), NEW new \in TrajectoryBuffer,
         BufferSound(new), NEW ids \in Seq(Token), NEW q \in Requests,
         new.response_ids = b.response_ids \o ids, NEW n, n = Len(b.response_ids)
  PROVE  /\ Len(new.response_ids) = n + Len(ids)
         /\ Mine(new, q) = Mine(b, q)
              \cup Added(ids, n, q)
<1> DEFINE s == b.response_ids
           t == new.response_ids
<1>0. n = Len(s)
  OBVIOUS
<1>1. /\ Mine(b, q) = {i \in 1..n : s[i].src = q}
      /\ Mine(new, q) = {i \in 1..Len(t) : t[i].src = q}
  BY <1>0, MineIs
<1>2. s \in Seq(Token) /\ t = s \o ids
  BY BufferFields
<1> HIDE DEF s, t
<1>3. /\ Len(t) = n + Len(ids) /\ n \in Nat /\ Len(ids) \in Nat
      /\ \A i \in 1..(n + Len(ids)) : t[i] = IF i <= n THEN s[i] ELSE ids[i - n]
  BY <1>0, <1>2, ConcatProperties, LenProperties
<1> DEFINE l == Len(ids)
<1>len. l = Len(ids)
  OBVIOUS
<1> HIDE DEF l
<1>4. /\ \A i \in 1..n : i \in 1..(n + l) /\ i <= n
      /\ \A i \in (n + 1)..(n + l) : i \in 1..(n + l) /\ ~(i <= n)
      /\ \A i \in 1..(n + l) : i \in 1..n \/ i \in (n + 1)..(n + l)
  BY <1>3, <1>len
<1>5. Mine(new, q) = Mine(b, q) \cup Added(ids, n, q)
  BY <1>1, <1>3, <1>4, <1>len DEF Added
<1> QED
  BY <1>3, <1>5, <1>len DEF s, t

\* Tokens that nobody generated add to nobody's.
LEMMA NobodyAdded ==
  ASSUME NEW b \in TrajectoryBuffer, BufferSound(b), NEW new \in TrajectoryBuffer,
         BufferSound(new), NEW ids \in Seq(Token), NEW q \in Requests,
         new.response_ids = b.response_ids \o ids,
         \A i \in 1..Len(ids) : ids[i].src = Nobody
  PROVE  TrainableFrom(new, q) = TrainableFrom(b, q)
<1> DEFINE n == Len(b.response_ids)
<1>1. n = Len(b.response_ids) /\ n \in Nat /\ Len(ids) \in Nat
  BY BufferFields, LenProperties
<1> HIDE DEF n
<1>2. Mine(new, q) = Mine(b, q) \cup Added(ids, n, q)
  BY <1>1, MineConcat
<1>3. Added(ids, n, q) = {}
  <2>1. \A i \in (n + 1)..(n + Len(ids)) : i - n \in 1..Len(ids)
    BY <1>1
  <2>2. q # Nobody
    BY DEF SessionAssumption
  <2> QED
    BY <2>1, <2>2 DEF Added
<1> QED
  BY <1>2, <1>3, MineIs

\* Continuation context carries nobody's trainable tokens.
LEMMA ContextCounts ==
  ASSUME NEW b \in TrajectoryBuffer, BufferSound(b), Aligned(b), Settled(b),
         NEW messages \in Seq(Messages), NEW q \in Requests
  PROVE  TrainableFrom(AddContext(b, encode_incremental(messages)), q) = TrainableFrom(b, q)
<1> DEFINE ids == encode_incremental(messages)
           new == AddContext(b, ids)
<1>1. ids \in Seq(Token)
  BY encode_incrementalType
<1>2. ASSUME NEW i \in 1..Len(ids) PROVE ids[i].src = Nobody
  <2>1. CASE messages = << >>
    <3>1. ids = << >> /\ Len(<< >>) = 0
      BY <2>1, EmptySeq DEF encode_incremental
    <3> HIDE DEF ids
    <3> QED
      BY <3>1
  <2>2. CASE messages # << >>
    <3>1. ids = encode_full(messages)
      BY <2>2 DEF encode_incremental
    <3> HIDE DEF ids
    <3> QED
      BY <3>1, encode_fullTokens
  <2> QED
    BY <2>1, <2>2
<1>3. BufferSound(new)
  BY AddContextSound
<1>4. new.response_ids = b.response_ids \o ids
  BY DEF AddContext, Extended
<1> HIDE DEF ids
<1>5. new \in TrajectoryBuffer
  BY <1>1, AddContextType
<1> HIDE DEF new
<1>6. TrainableFrom(new, q) = TrainableFrom(b, q)
  BY <1>1, <1>2, <1>3, <1>4, <1>5, NobodyAdded
<1> QED
  BY <1>6 DEF new, ids

\* A backend answer adds its own tokens, and only those.
LEMMA GenerationCounts ==
  ASSUME NEW b \in TrajectoryBuffer, BufferSound(b), Aligned(b), NEW r \in Requests,
         NEW o \in Outputs, TrainableFrom(b, r) = 0
  PROVE  LET new == AddGeneration(b, r, Generated(r, o))
         IN  /\ \A q \in Requests :
                  TrainableFrom(new, q) = IF q = r THEN OutLen[o] ELSE TrainableFrom(b, q)
             /\ Mine(new, r) = (Len(b.response_ids) + 1)..Len(new.response_ids)
             /\ OutLen[o] \in Nat \ {0}
<1> DEFINE ids == Generated(r, o)
           new == AddGeneration(b, r, ids)
           n == Len(b.response_ids)
<1>1. /\ ids \in Seq(Token) /\ Len(ids) = OutLen[o] /\ OutLen[o] \in Nat \ {0}
      /\ \A i \in 1..Len(ids) : ids[i].src = r
  BY GeneratedTokens
<1>2. BufferSound(new)
  BY AddGenerationSound
<1>3. new.response_ids = b.response_ids \o ids
  BY DEF AddGeneration, Extended
<1> HIDE DEF ids
<1>4. new \in TrajectoryBuffer
  BY <1>1, AddGenerationType
<1>n. n = Len(b.response_ids)
  OBVIOUS
<1> HIDE DEF new, n
<1>5. ASSUME NEW q \in Requests
      PROVE  /\ Len(new.response_ids) = n + Len(ids)
             /\ Mine(new, q) = Mine(b, q)
                  \cup Added(ids, n, q)
  <2>1. ids \in Seq(Token)
    BY <1>1
  <2>2. Len(new.response_ids) = n + Len(ids)
    BY <1>2, <1>3, <1>4, <1>n, <2>1, MineConcat
  <2>3. Mine(new, q) = Mine(b, q)
          \cup Added(ids, n, q)
    BY <1>2, <1>3, <1>4, <1>n, <2>1, MineConcat
  <2> QED
    BY <2>2, <2>3
<1>6. n \in Nat
  BY <1>n, BufferFields
<1>7. \A i \in (n + 1)..(n + Len(ids)) : i - n \in 1..Len(ids)
  BY <1>1, <1>6
<1>8. ASSUME NEW q \in Requests, q # r PROVE TrainableFrom(new, q) = TrainableFrom(b, q)
  <2>1. \A i \in (n + 1)..(n + Len(ids)) : ids[i - n].src # q
    BY <1>1, <1>7, <1>8
  <2>2. Mine(new, q) = Mine(b, q)
    BY <1>5, <2>1 DEF Added
  <2> QED
    BY <1>2, <1>4, <2>2, MineIs
<1>9. Mine(new, r) = (n + 1)..(n + Len(ids))
  <2>1. Mine(b, r) = {}
    BY MineIs
  <2>2. Mine(new, r) = Added(ids, n, r)
    BY <1>5, <2>1
  <2>3. \A i \in (n + 1)..(n + Len(ids)) : ids[i - n].src = r
    BY <1>1, <1>7
  <2> QED
    BY <2>2, <2>3 DEF Added
<1>10. TrainableFrom(new, r) = OutLen[o]
  <2>1. Cardinality((n + 1)..(n + Len(ids))) = Len(ids)
    <3> DEFINE x == n + 1
               y == n + Len(ids)
    <3>1. x \in Int /\ y \in Int /\ ~(x > y) /\ y - x + 1 = Len(ids)
      BY <1>1, <1>6
    <3> HIDE DEF x, y
    <3>2. Cardinality(x..y) = Len(ids)
      BY <3>1, FS_Interval
    <3> QED
      BY <3>2 DEF x, y
  <2> QED
    BY <1>1, <1>2, <1>4, <1>9, <2>1, MineIs
<1>11. Mine(new, r) = (n + 1)..Len(new.response_ids)
  BY <1>5, <1>9
<1> QED
  BY <1>1, <1>8, <1>10, <1>11 DEF new, ids, n

-----------------------------------------------------------------------------
(* What a rollback takes.                                                  *)

\* What follows the first n response tokens is v's, all of it and nothing else.
Ends(b, n, v) ==
  /\ n \in 0..(Len(b.response_ids) - 1)
  /\ Mine(b, v) = (n + 1)..Len(b.response_ids)

\* A rollback drops the latest turn whole, and counts it; nothing else goes.
LEMMA CutCounts ==
  ASSUME NEW b \in TrajectoryBuffer, BufferSound(b), NEW n, NEW v \in Requests,
         Ends(b, n, v), EndsWithPrefix(b, n), NEW cut \in TrajectoryBuffer,
         BufferSound(cut), cut.response_ids = Take(b.response_ids, IF n = 0 THEN 0 ELSE n - 1),
         NEW q \in Requests
  PROVE  TrainableFrom(cut, q) = IF q = v THEN 0 ELSE TrainableFrom(b, q)
<1> DEFINE s == b.response_ids
           t == cut.response_ids
           m == IF n = 0 THEN 0 ELSE n - 1
           l == Len(s)
<1>1. /\ Mine(b, q) = {i \in 1..l : s[i].src = q}
      /\ Mine(b, v) = {i \in 1..l : s[i].src = v}
      /\ Mine(cut, q) = {i \in 1..Len(t) : t[i].src = q}
  BY MineIs
<1>2. s \in Seq(Token) /\ l \in Nat
  BY BufferFields
<1>3. n \in 0..(l - 1) /\ Mine(b, v) = (n + 1)..l
  BY DEF Ends
<1>4. n # 0 => s[n].src = Nobody
  <2>1. n # 0 => n \in 1..l
    BY <1>2, <1>3
  <2> QED
    BY <2>1, PrefixIsContext
<1>5. Len(t) = m /\ \A i \in 1..m : t[i] = s[i]
  <2>1. t = Take(s, m)
    OBVIOUS
  <2>2. m \in 0..Len(s)
    BY <1>2, <1>3
  <2> HIDE DEF s, t, m, l
  <2> QED
    BY <1>2, <2>1, <2>2, TakeElements
<1>m. m = IF n = 0 THEN 0 ELSE n - 1
  OBVIOUS
<1> HIDE DEF s, t, m, l
<1>6. q # Nobody
  BY DEF SessionAssumption
<1>7. /\ \A i \in 1..m : i \in 1..l /\ i \notin (n + 1)..l
      /\ \A i \in 1..l : i \in 1..m \/ (i = n /\ n # 0) \/ i \in (n + 1)..l
  BY <1>2, <1>3, <1>m
<1>8. CASE q = v
  <2>1. Mine(cut, q) = {}
    BY <1>1, <1>3, <1>5, <1>7, <1>8
  <2> QED
    BY <1>8, <2>1, MineIs
<1>9. CASE q # v
  <2>1. \A i \in (n + 1)..l : s[i].src = v
    BY <1>1, <1>3
  <2>2. ASSUME NEW i \in Mine(b, q) PROVE i \in 1..m
    BY <1>1, <1>4, <1>6, <1>7, <1>9, <2>1
  <2>3. Mine(cut, q) = Mine(b, q)
    BY <1>1, <1>5, <1>7, <2>2
  <2> QED
    BY <1>9, <2>3, MineIs
<1> QED
  BY <1>8, <1>9

\* What a rollback counts as dropped is what its latest turn had (session.py
\* 416-450).
LEMMA DroppedCounts ==
  ASSUME NEW b \in TrajectoryBuffer, BufferSound(b), NEW n, NEW v \in Requests, Ends(b, n, v)
  PROVE  Ones(b.response_mask, n + 1) = TrainableFrom(b, v)
<1> DEFINE s == b.response_ids
           mask == b.response_mask
           l == Len(s)
<1>1. /\ Mine(b, v) = {i \in 1..l : s[i].src = v}
      /\ TrainableFrom(b, v) = Cardinality(Mine(b, v))
  BY MineIs
<1>2. l \in Nat /\ Len(mask) = l /\ n \in 0..(l - 1) /\ Mine(b, v) = (n + 1)..l
      /\ \A i \in 1..l : mask[i] = IF s[i].src = Nobody THEN 0 ELSE 1
  BY BufferFields DEF Ends, BufferSound, Marks
<1>3. Ones(mask, n + 1) = Cardinality({i \in (n + 1)..Len(mask) : mask[i] = 1})
  BY DEF Ones
<1>4. v # Nobody
  BY DEF SessionAssumption
<1> HIDE DEF s, mask, l
<1>5. \A i \in (n + 1)..l : i \in 1..l /\ s[i].src = v
  BY <1>1, <1>2
<1>6. {i \in (n + 1)..Len(mask) : mask[i] = 1} = Mine(b, v)
  BY <1>2, <1>4, <1>5
<1> QED
  BY <1>1, <1>3, <1>6 DEF mask

\* When the latest turn is the whole response, nobody else's tokens are there.
LEMMA OnlyLatest ==
  ASSUME NEW b \in TrajectoryBuffer, BufferSound(b), NEW v \in Requests, Ends(b, 0, v),
         NEW q \in Requests, q # v
  PROVE  TrainableFrom(b, q) = 0
<1> DEFINE s == b.response_ids
           l == Len(s)
<1>1. /\ Mine(b, q) = {i \in 1..l : s[i].src = q}
      /\ Mine(b, v) = {i \in 1..l : s[i].src = v}
  BY MineIs
<1>2. Mine(b, v) = 1..l
  BY DEF Ends
<1> HIDE DEF s, l
<1>3. Mine(b, q) = {}
  BY <1>1, <1>2
<1> QED
  BY <1>3, MineIs

\* The latest turn is there.
LEMMA LatestCounts ==
  ASSUME NEW b \in TrajectoryBuffer, BufferSound(b), NEW n, NEW v \in Requests, Ends(b, n, v)
  PROVE  TrainableFrom(b, v) > 0
<1> DEFINE l == Len(b.response_ids)
<1>1. l \in Nat /\ n \in 0..(l - 1) /\ Mine(b, v) = (n + 1)..l
  BY BufferFields DEF Ends
<1> HIDE DEF l
<1>2. n + 1 \in Mine(b, v)
  BY <1>1
<1>3. TrainableFrom(b, v) \in Nat /\ TrainableFrom(b, v) # 0
  BY <1>2, MineIs
<1> QED
  BY <1>3

-----------------------------------------------------------------------------
(* The ledger.                                                             *)

LatestOf(b) == Last(b.generation_versions)

\* A chain's boundary cuts off exactly the tokens of its latest turn.
LedgerChain(chain) ==
  LET b == chain.buffer
  IN  LatestOf(b) \in Requests /\ Ends(b, chain.last_assistant_start.response_ids_len, LatestOf(b))

\* A turn is in a buffer whole or not at all.
Booked(b, f) == \A q \in Requests : TrainableFrom(b, q) \in {0, f[q]}

\* No turn is in both buffers.
Apart(a, b) == \A q \in Requests : TrainableFrom(a, q) = 0 \/ TrainableFrom(b, q) = 0

OneHome ==
  /\ \A c, d \in DOMAIN active_chains :
       c # d => Apart(active_chains[c].buffer, active_chains[d].buffer)
  /\ \A t, u \in materialized_chains : t # u => Apart(t.buffer, u.buffer)
  /\ \A c \in DOMAIN active_chains, t \in materialized_chains :
       Apart(active_chains[c].buffer, t.buffer)

\* What a request in flight took from the chain it continues.
Carries(e, b) ==
  /\ \A q \in Requests :
       TrainableFrom(e.buffer, q)
         = IF e.rollback_applied /\ q = LatestOf(b) THEN 0 ELSE TrainableFrom(b, q)
  /\ e.dropped = IF e.rollback_applied THEN TrainableFrom(b, LatestOf(b)) ELSE 0

Afresh(e) ==
  /\ \A q \in Requests : TrainableFrom(e.buffer, q) = 0
  /\ e.rollback_applied = FALSE /\ e.dropped = 0

InFlight(r) ==
  pc[r] = "generating" =>
    IF held[r] = 0 THEN Afresh(encoded[r])
                   ELSE Carries(encoded[r], active_chains[held[r]].buffer)

LedgerInv ==
  /\ \A r \in Requests : pc[r] = "ok" <=> completion[r] # 0
  /\ \A c \in DOMAIN active_chains :
       LedgerChain(active_chains[c]) /\ Booked(active_chains[c].buffer, completion)
  /\ \A t \in materialized_chains : Booked(t.buffer, completion)
  /\ OneHome
  /\ phase = "ACTIVE" => \A r \in Requests : InFlight(r)

SessionInv == TypeInv /\ ReservationInv /\ TokenInv /\ LedgerInv

InChain(q) == \E c \in DOMAIN active_chains : TrainableFrom(active_chains[c].buffer, q) # 0
InClosed(q) == \E t \in materialized_chains : TrainableFrom(t.buffer, q) # 0

\* The turns that are in the session's training data.
Home(q) == InChain(q) \/ InClosed(q)

\* The turns a step strikes out, as its rollback counters say.
Struck(gone) ==
  /\ \A q \in gone : q \in Requests /\ Home(q)
  /\ \/ gone = {} /\ UNCHANGED <<rollback_count, rollback_dropped>>
     \/ \E v \in Requests : /\ gone = {v}
                            /\ rollback_count' = rollback_count + 1
                            /\ rollback_dropped' = rollback_dropped + completion[v]

\* A step that answers nobody: at most one turn goes.
Strikes ==
  /\ UNCHANGED <<phase, completion, returned>>
  /\ \A q \in Requests : pc'[q] = "ok" <=> pc[q] = "ok"
  /\ \E gone : /\ Struck(gone)
               /\ phase # "ACTIVE" => gone = {}
               /\ \A q \in Requests : Home(q)' <=> Home(q) /\ q \notin gone

Quiet ==
  /\ UNCHANGED <<phase, completion, returned, rollback_count, rollback_dropped>>
  /\ \A q \in Requests : pc'[q] = "ok" <=> pc[q] = "ok"
  /\ UNCHANGED <<active_chains, materialized_chains>>

LEMMA QuietStrikes ==
  ASSUME Quiet PROVE Strikes
<1>1. \A q \in Requests : Home(q)' <=> Home(q)
  BY DEF Quiet, Home, InChain, InClosed
<1>2. Struck({})
  BY DEF Quiet, Struck
<1> QED
  BY <1>1, <1>2 DEF Quiet, Strikes

\* Nothing but the requests' own state moves, and those in flight stay.
LEMMA QuietLedger ==
  ASSUME SessionInv, Quiet,
         \A q \in Requests : pc'[q] = "generating" =>
           \/ InFlight(q)'
           \/ pc[q] = "generating" /\ encoded'[q] = encoded[q] /\ held'[q] = held[q]
  PROVE  LedgerInv'
<1>1. /\ \A r \in Requests : pc'[r] = "ok" <=> completion'[r] # 0
      /\ \A c \in DOMAIN active_chains' :
           LedgerChain(active_chains'[c]) /\ Booked(active_chains'[c].buffer, completion')
      /\ \A t \in materialized_chains' : Booked(t.buffer, completion')
  BY DEF Quiet, SessionInv, LedgerInv
<1>2. OneHome'
  BY DEF Quiet, SessionInv, LedgerInv, OneHome
<1>3. ASSUME phase' = "ACTIVE", NEW r \in Requests PROVE InFlight(r)'
  <2>1. phase = "ACTIVE" /\ InFlight(r) /\ active_chains' = active_chains
    BY <1>3 DEF Quiet, SessionInv, LedgerInv
  <2>2. CASE pc'[r] # "generating"
    BY <2>2 DEF InFlight
  <2>3. CASE pc[r] = "generating" /\ encoded'[r] = encoded[r] /\ held'[r] = held[r]
    BY <2>1, <2>3 DEF InFlight
  <2> QED
    BY <2>2, <2>3
<1> QED
  BY <1>1, <1>2, <1>3 DEF LedgerInv

\* Steps that move no token: a refusal, a request that reaches the backend, a
\* failure, a release, a reward, and no step.
LEMMA RespondLedger ==
  ASSUME SessionInv, NEW r \in Requests, NEW outcome \in Answered \ {"ok"},
         pc[r] = "idle", Respond(r, outcome), UNCHANGED sessionVars
  PROVE  LedgerInv' /\ Strikes
<1>1. Quiet
  BY DEF Respond, Quiet, SessionInv, TypeInv, TypeOK, sessionVars, chainVars
<1>2. \A q \in Requests : pc'[q] = "generating" =>
        pc[q] = "generating" /\ encoded'[q] = encoded[q] /\ held'[q] = held[q]
  BY DEF Respond, SessionInv, TypeInv, TypeOK, Answered
<1> QED
  BY <1>1, <1>2, QuietLedger, QuietStrikes

LEMMA GenerateLedger ==
  ASSUME SessionInv, NEW r \in Requests, NEW call, NEW c, NEW b, NEW rollback \in BOOLEAN,
         NEW dropped, pc[r] = "idle", Generate(r, call, c, b, rollback, dropped),
         NEW e, e = [chain_id |-> c, buffer |-> b, messages |-> call.messages,
                     tools |-> call.tools, last_assistant_start |-> Snapshot(b, call.messages),
                     rollback_applied |-> rollback, dropped |-> dropped],
         IF c = 0 THEN Afresh(e) ELSE Carries(e, active_chains[c].buffer)
  PROVE  LedgerInv' /\ Strikes
<1>1. Quiet
  BY DEF Generate, Quiet, SessionInv, TypeInv, TypeOK, sessionVars, chainVars
<1>2. \A q \in Requests : q # r =>
        pc'[q] = pc[q] /\ encoded'[q] = encoded[q] /\ held'[q] = held[q]
  BY DEF Generate, SessionInv, TypeInv, TypeOK
<1>3. encoded'[r] = e /\ held'[r] = c
  BY DEF Generate, SessionInv, TypeInv, TypeOK
<1>4. active_chains' = active_chains
  BY <1>1 DEF Quiet
<1>5. InFlight(r)'
  BY <1>3, <1>4 DEF InFlight
<1> QED
  BY <1>1, <1>2, <1>5, QuietLedger, QuietStrikes

LEMMA FailLedger ==
  ASSUME SessionInv, NEW r \in Requests, Fail(r)
  PROVE  LedgerInv' /\ Strikes
<1>1. Quiet
  BY DEF Fail, Quiet, SessionInv, TypeInv, TypeOK, sessionVars, chainVars
<1>2. \A q \in Requests : pc'[q] = "generating" =>
        pc[q] = "generating" /\ encoded'[q] = encoded[q] /\ held'[q] = held[q]
  BY DEF Fail, SessionInv, TypeInv, TypeOK
<1> QED
  BY <1>1, <1>2, QuietLedger, QuietStrikes

LEMMA ReleaseLedger ==
  ASSUME SessionInv, NEW r \in Requests, Release(r)
  PROVE  LedgerInv' /\ Strikes
<1>1. Quiet
  BY DEF Release, Quiet, SessionInv, TypeInv, TypeOK, sessionVars, chainVars
<1>2. \A q \in Requests : pc'[q] = "generating" =>
        pc[q] = "generating" /\ encoded'[q] = encoded[q] /\ held'[q] = held[q]
  BY DEF Release, SessionInv, TypeInv, TypeOK
<1> QED
  BY <1>1, <1>2, QuietLedger, QuietStrikes

LEMMA SetRewardLedger ==
  ASSUME SessionInv, NEW w \in Rewards, SetReward(w)
  PROVE  LedgerInv' /\ Strikes
<1>1. Quiet
  BY DEF SetReward, Quiet, requestVars, chainVars
<1>2. \A q \in Requests : pc'[q] = "generating" =>
        pc[q] = "generating" /\ encoded'[q] = encoded[q] /\ held'[q] = held[q]
  BY DEF SetReward, requestVars
<1> QED
  BY <1>1, <1>2, QuietLedger, QuietStrikes

LEMMA StutterLedger ==
  ASSUME SessionInv, UNCHANGED vars
  PROVE  LedgerInv' /\ Strikes
<1>1. Quiet
  BY DEF Quiet, vars, sessionVars, requestVars, chainVars
<1>2. \A q \in Requests : pc'[q] = "generating" =>
        pc[q] = "generating" /\ encoded'[q] = encoded[q] /\ held'[q] = held[q]
  BY DEF vars, requestVars
<1> QED
  BY <1>1, <1>2, QuietLedger, QuietStrikes

-----------------------------------------------------------------------------
(* Chains that are removed.                                                *)

\* What the ledger says of one chain.
LEMMA ChainLedger ==
  ASSUME SessionInv, NEW c \in DOMAIN active_chains
  PROVE  LET b == active_chains[c].buffer
             v == LatestOf(b)
         IN  /\ b \in TrajectoryBuffer /\ BufferSound(b) /\ Aligned(b) /\ v \in Requests
             /\ Ends(b, Start(c).response_ids_len, v)
             /\ TrainableFrom(b, v) # 0 /\ TrainableFrom(b, v) = completion[v]
             /\ \A q \in Requests : TrainableFrom(b, q) \in {0, completion[q]}
             /\ Home(v)
<1> DEFINE b == active_chains[c].buffer
           v == LatestOf(b)
<1>1. b \in TrajectoryBuffer /\ Aligned(b)
  BY ChainType DEF SessionInv, ChainShape
<1>2. BufferSound(b)
  BY DEF SessionInv, TokenInv, ChainSound
<1>3. /\ v \in Requests /\ Ends(b, Start(c).response_ids_len, v)
      /\ \A q \in Requests : TrainableFrom(b, q) \in {0, completion[q]}
  BY DEF SessionInv, LedgerInv, LedgerChain, Booked, Start
<1>4. TrainableFrom(b, v) # 0
  <2> HIDE DEF b, v
  <2> QED
    BY <1>1, <1>2, <1>3, LatestCounts
<1>5. Home(v)
  BY <1>4 DEF Home, InChain
<1> HIDE DEF b, v
<1>6. TrainableFrom(b, v) = completion[v]
  BY <1>3, <1>4
<1> QED
  BY <1>1, <1>2, <1>3, <1>4, <1>5, <1>6 DEF b, v

\* While the session is active, nobody holds a free chain.
LEMMA FreeIsUnheld ==
  ASSUME SessionInv, phase = "ACTIVE", NEW q \in Requests, held[q] # 0
  PROVE  held[q] \notin Free /\ held[q] \in DOMAIN active_chains
BY DEF SessionInv, ReservationInv, ReservationsExact, HoldersAreExclusive, HeldChainsExist, Free

\* What becomes of a chain that has no room left (session.py 716-747).
Leaves(c, rollback, dropped, kept) ==
  LET b == active_chains[c].buffer
      v == LatestOf(b)
  IN  /\ \A q \in Requests :
           TrainableFrom(kept, q) = IF rollback /\ q = v THEN 0 ELSE TrainableFrom(b, q)
      /\ rollback => dropped = TrainableFrom(b, v)

\* Closing a chain moves its turns to the trajectories (session.py 716-747).
LEMMA CloseLedger ==
  ASSUME SessionInv, NEW r \in Requests, NEW call, NEW c \in Free, NEW b,
         NEW rollback \in BOOLEAN, NEW dropped, pc[r] = "idle", phase = "ACTIVE",
         Leaves(c, rollback, dropped, IF rollback THEN b ELSE active_chains[c].buffer),
         CloseExhausted(c, call, b, rollback, dropped), Respond(r, "length")
  PROVE  LedgerInv' /\ Strikes
<1> DEFINE old  == active_chains[c].buffer
           v    == LatestOf(old)
           kept == IF rollback THEN b ELSE old
           gone == IF rollback THEN {v} ELSE {}
<1>1. c \in DOMAIN active_chains
  BY DEF Free
<1>2. /\ old \in TrajectoryBuffer /\ BufferSound(old) /\ v \in Requests
      /\ Ends(old, Start(c).response_ids_len, v)
      /\ TrainableFrom(old, v) # 0 /\ TrainableFrom(old, v) = completion[v]
      /\ \A q \in Requests : TrainableFrom(old, q) \in {0, completion[q]}
      /\ Home(v)
  BY <1>1, ChainLedger
<1>3. /\ \A q \in Requests :
           TrainableFrom(kept, q) = IF rollback /\ q = v THEN 0 ELSE TrainableFrom(old, q)
      /\ rollback => dropped = TrainableFrom(old, v)
  BY DEF Leaves
<1>4. /\ DOMAIN active_chains' = DOMAIN active_chains \ {c}
      /\ \A d \in DOMAIN active_chains \ {c} : active_chains'[d] = active_chains[d]
      /\ UNCHANGED <<phase, returned, completion, held, encoded>>
  BY DEF CloseExhausted, Respond
<1>5. /\ \A q \in Requests : q # r => pc'[q] = pc[q]
      /\ pc'[r] = "length"
  BY DEF Respond, SessionInv, TypeInv, TypeOK
<1>6. \/ /\ materialized_chains' = materialized_chains
         /\ rollback /\ Start(c).response_ids_len = 0
      \/ \E t : materialized_chains' = materialized_chains \cup {t} /\ t.buffer = kept
  BY MaterializedBuffer DEF CloseExhausted, NothingSurvives
<1>7. /\ rollback_count' = rollback_count + IF rollback THEN 1 ELSE 0
      /\ rollback_dropped' = rollback_dropped + IF rollback THEN dropped ELSE 0
  BY DEF CloseExhausted, RecordRollback
<1> HIDE DEF old, kept
<1>8. /\ \A d, f \in DOMAIN active_chains :
           d # f => Apart(active_chains[d].buffer, active_chains[f].buffer)
      /\ \A t, u \in materialized_chains : t # u => Apart(t.buffer, u.buffer)
      /\ \A d \in DOMAIN active_chains, t \in materialized_chains :
           Apart(active_chains[d].buffer, t.buffer)
      /\ \A d \in DOMAIN active_chains :
           LedgerChain(active_chains[d]) /\ Booked(active_chains[d].buffer, completion)
      /\ \A t \in materialized_chains : Booked(t.buffer, completion)
      /\ \A q \in Requests : InFlight(q)
      /\ \A q \in Requests : pc[q] = "ok" <=> completion[q] # 0
  BY DEF SessionInv, LedgerInv, OneHome
<1>9. /\ \A d \in DOMAIN active_chains : d # c => Apart(active_chains[d].buffer, old)
      /\ \A t \in materialized_chains : Apart(t.buffer, old)
  BY <1>1, <1>8 DEF Apart, old
<1>10. \A x : Apart(x, old) => Apart(x, kept) /\ Apart(kept, x)
  BY <1>3 DEF Apart
<1>11. \A t \in materialized_chains' : t \in materialized_chains \/ t.buffer = kept
  BY <1>6
<1>12. Booked(kept, completion)
  BY <1>2, <1>3 DEF Booked
<1>13. OneHome'
  <2>1. \A d, f \in DOMAIN active_chains' :
          d # f => Apart(active_chains'[d].buffer, active_chains'[f].buffer)
    BY <1>4, <1>8
  <2>2. \A t, u \in materialized_chains' : t # u => Apart(t.buffer, u.buffer)
    BY <1>6, <1>8, <1>9, <1>10
  <2>3. \A d \in DOMAIN active_chains', t \in materialized_chains' :
          Apart(active_chains'[d].buffer, t.buffer)
    BY <1>4, <1>8, <1>9, <1>10, <1>11
  <2> QED
    BY <2>1, <2>2, <2>3 DEF OneHome
<1>14. ASSUME NEW q \in Requests PROVE InFlight(q)'
  <2>1. CASE q = r
    BY <1>5, <2>1 DEF InFlight
  <2>2. CASE q # r
    <3>1. held[q] # 0 => held[q] \in DOMAIN active_chains \ {c}
      BY FreeIsUnheld
    <3> QED
      BY <1>4, <1>5, <1>8, <2>2, <3>1 DEF InFlight
  <2> QED
    BY <2>1, <2>2
<1>15. LedgerInv'
  <2>1. \A q \in Requests : pc'[q] = "ok" <=> completion'[q] # 0
    BY <1>4, <1>5, <1>8
  <2>2. \A d \in DOMAIN active_chains' :
          LedgerChain(active_chains'[d]) /\ Booked(active_chains'[d].buffer, completion')
    BY <1>4, <1>8
  <2>3. \A t \in materialized_chains' : Booked(t.buffer, completion')
    BY <1>4, <1>8, <1>11, <1>12
  <2> QED
    BY <1>13, <1>14, <2>1, <2>2, <2>3 DEF LedgerInv
<1>16. Struck(gone)
  BY <1>2, <1>3, <1>7, SMT DEF Struck, SessionInv, TypeInv, TypeOK
<1>17. ASSUME NEW q \in Requests, Home(q)' PROVE Home(q) /\ q \notin gone
  <2>1. CASE InChain(q)'
    <3>1. PICK d \in DOMAIN active_chains \ {c} : TrainableFrom(active_chains[d].buffer, q) # 0
      BY <1>4, <2>1 DEF InChain
    <3>2. Apart(active_chains[d].buffer, old)
      BY <1>9
    <3>3. q # v
      BY <1>2, <3>1, <3>2 DEF Apart
    <3> QED
      BY <3>1, <3>3 DEF Home, InChain
  <2>2. CASE InClosed(q)'
    <3>1. PICK t \in materialized_chains' : TrainableFrom(t.buffer, q) # 0
      BY <2>2 DEF InClosed
    <3>2. CASE t \in materialized_chains
      <4>1. q # v
        BY <1>2, <1>9, <3>1, <3>2 DEF Apart
      <4> QED
        BY <3>1, <3>2, <4>1 DEF Home, InClosed
    <3>3. CASE t.buffer = kept
      <4>1. TrainableFrom(old, q) # 0 /\ ~(rollback /\ q = v)
        BY <1>3, <3>1, <3>3
      <4> QED
        BY <1>1, <4>1 DEF Home, InChain, old
    <3> QED
      BY <1>11, <3>2, <3>3
  <2> QED
    BY <1>17, <2>1, <2>2 DEF Home
<1>18. ASSUME NEW q \in Requests, Home(q), q \notin gone PROVE Home(q)'
  <2>1. CASE \E d \in DOMAIN active_chains \ {c} : TrainableFrom(active_chains[d].buffer, q) # 0
    BY <1>4, <2>1 DEF Home, InChain
  <2>2. CASE InClosed(q)
    BY <1>6, <2>2 DEF Home, InClosed
  <2>3. CASE TrainableFrom(old, q) # 0
    <3>1. TrainableFrom(kept, q) # 0
      BY <1>3, <1>18, <2>3
    <3>2. ~(rollback /\ Start(c).response_ids_len = 0)
      <4>1. rollback => q # v
        BY <1>18
      <4>2. Start(c).response_ids_len = 0 => Ends(old, 0, v)
        BY <1>2
      <4> HIDE DEF v
      <4> QED
        BY <1>2, <2>3, <4>1, <4>2, OnlyLatest
    <3> QED
      BY <1>6, <3>1, <3>2 DEF Home, InClosed
  <2> QED
    BY <1>18, <2>1, <2>2, <2>3 DEF Home, InChain, old
<1>19. \A q \in Requests : pc'[q] = "ok" <=> pc[q] = "ok"
  BY <1>5
<1>20. Strikes
  <2> HIDE DEF gone
  <2> QED
    BY <1>4, <1>16, <1>17, <1>18, <1>19 DEF Strikes
<1> QED
  BY <1>15, <1>20

-----------------------------------------------------------------------------
(* Requests.                                                               *)

\* What preparing a continuation keeps of its chain, and counts as dropped.
Keeps(b, old, rollback, dropped) ==
  /\ \A q \in Requests :
       TrainableFrom(b, q) = IF rollback /\ q = LatestOf(old) THEN 0 ELSE TrainableFrom(old, q)
  /\ dropped = IF rollback THEN TrainableFrom(old, LatestOf(old)) ELSE 0

\* A request that continues a chain, with or without a rollback (session.py
\* 410-499).
LEMMA ExtendLedger ==
  ASSUME SessionInv, NEW r \in Requests, NEW call \in ChatRequest, NEW c \in Free,
         NEW b \in TrajectoryBuffer, BufferSound(b), Aligned(b), Settled(b),
         NEW suffix \in Seq(Messages), NEW rollback \in BOOLEAN, NEW dropped,
         pc[r] = "idle", phase = "ACTIVE",
         Keeps(b, active_chains[c].buffer, rollback, dropped),
         ~rollback => b = active_chains[c].buffer,
         Extend(r, call, c, b, suffix, rollback, dropped)
  PROVE  LedgerInv' /\ Strikes
<1> DEFINE old == active_chains[c].buffer
<1>1. CASE Respond(r, "rejected") /\ UNCHANGED <<sessionVars, reserved_chain_ids>>
  BY <1>1, RespondLedger DEF Answered
<1>2. CASE CloseExhausted(c, call, b, rollback, dropped) /\ Respond(r, "length")
  <2>1. Leaves(c, rollback, dropped, IF rollback THEN b ELSE active_chains[c].buffer)
    BY DEF Leaves, Keeps
  <2> QED
    BY <1>2, <2>1, CloseLedger
<1>3. CASE Generate(r, call, c, AddContext(b, encode_incremental(suffix)),
                    rollback, dropped)
  <2> DEFINE new == AddContext(b, encode_incremental(suffix))
             e == [chain_id |-> c, buffer |-> new, messages |-> call.messages,
                   tools |-> call.tools, last_assistant_start |-> Snapshot(new, call.messages),
                   rollback_applied |-> rollback, dropped |-> dropped]
  <2>1. \A q \in Requests : TrainableFrom(new, q) = TrainableFrom(b, q)
    BY ContextCounts
  <2>2. Generate(r, call, c, new, rollback, dropped)
    BY <1>3
  <2> HIDE DEF new
  <2>3. e.buffer = new /\ e.rollback_applied = rollback /\ e.dropped = dropped
    OBVIOUS
  <2>4. Carries(e, active_chains[c].buffer)
    BY <2>1, <2>3 DEF Carries, Keeps
  <2>5. c # 0
    BY ChainType DEF Free, SessionInv
  <2>6. \E x : /\ x = e
               /\ IF c = 0 THEN Afresh(x) ELSE Carries(x, active_chains[c].buffer)
    BY <2>4, <2>5
  <2> QED
    BY <2>2, <2>6, GenerateLedger
<1> QED
  BY <1>1, <1>2, <1>3 DEF Extend

LEMMA StartChainLedger ==
  ASSUME SessionInv, NEW r \in Requests, NEW call \in ChatRequest, StartChain(r, call)
  PROVE  LedgerInv' /\ Strikes
<1> DEFINE b == [EmptyBuffer EXCEPT !.prompt_ids = encode_full(call.messages)]
           e == [chain_id |-> 0, buffer |-> b, messages |-> call.messages,
                 tools |-> call.tools, last_assistant_start |-> Snapshot(b, call.messages),
                 rollback_applied |-> FALSE, dropped |-> 0]
<1>1. pc[r] = "idle"
  BY DEF StartChain, Preparing
<1>2. CASE Respond(r, "length") /\ UNCHANGED <<sessionVars, reserved_chain_ids>>
  BY <1>1, <1>2, RespondLedger DEF Answered
<1>3. CASE Generate(r, call, 0, b, FALSE, 0)
  <2>1. b.response_ids = << >>
    BY DEF EmptyBuffer
  <2> HIDE DEF b
  <2>2. \A q \in Requests : TrainableFrom(b, q) = 0
    BY <2>1, FS_EmptySet DEF TrainableFrom
  <2>3. e.buffer = b /\ e.rollback_applied = FALSE /\ e.dropped = 0
    OBVIOUS
  <2>4. Afresh(e)
    BY <2>2, <2>3 DEF Afresh
  <2>5. \E x : /\ x = e
               /\ IF 0 = 0 THEN Afresh(x) ELSE Carries(x, active_chains[0].buffer)
    BY <2>4
  <2> QED
    BY <1>1, <1>3, <2>5, GenerateLedger
<1> QED
  BY <1>2, <1>3 DEF StartChain

LEMMA ContinueChainLedger ==
  ASSUME SessionInv, NEW r \in Requests, NEW call \in ChatRequest, ContinueChain(r, call)
  PROVE  LedgerInv' /\ Strikes
<1>1. PICK c \in Chosen(call) \cap Exact(call) :
        Extend(r, call, c, active_chains[c].buffer,
               SubSeq(call.messages, Len(active_chains[c].message_history) + 1,
                      Len(call.messages)), FALSE, 0)
  BY DEF ContinueChain
<1> DEFINE b == active_chains[c].buffer
           suffix == SubSeq(call.messages, Len(active_chains[c].message_history) + 1,
                            Len(call.messages))
<1>2. c \in Free /\ c \in DOMAIN active_chains /\ pc[r] = "idle" /\ phase = "ACTIVE"
  BY ChosenChain DEF Free, ContinueChain, Preparing
<1>3. b \in TrajectoryBuffer /\ BufferSound(b) /\ Aligned(b)
  BY <1>2, ChainLedger
<1>4. Settled(b)
  <2>1. \E o \in Outputs : Delimits(b, Start(c).response_ids_len, o)
    BY <1>2 DEF SessionInv, TokenInv, ChainSound, Start
  <2> QED
    BY <1>3, <2>1, ChainSettled
<1>5. suffix \in Seq(Messages)
  <2>1. Len(active_chains[c].message_history) \in Nat
    BY <1>2, ChainType, LenProperties DEF SessionInv
  <2> QED
    BY <2>1, SuffixType
<1>6. Keeps(b, b, FALSE, 0)
  BY DEF Keeps
<1>7. Extend(r, call, c, b, suffix, FALSE, 0) /\ b = active_chains[c].buffer
  BY <1>1
<1> HIDE DEF b, suffix
<1> QED
  BY <1>2, <1>3, <1>4, <1>5, <1>6, <1>7, ExtendLedger

\* A rollback keeps every turn of its chain but the latest (session.py 416-450).
LEMMA CutKeeps ==
  ASSUME SessionInv, NEW c \in DOMAIN active_chains,
         EndsWithPrefix(active_chains[c].buffer, Start(c).response_ids_len)
  PROVE  LET b   == active_chains[c].buffer
             n   == Start(c).response_ids_len
             cut == CutLastAssistant(b, n)
         IN  /\ cut \in TrajectoryBuffer /\ Aligned(cut) /\ BufferSound(cut) /\ Settled(cut)
             /\ Keeps(cut, b, TRUE, Ones(b.response_mask, n + 1))
<1> DEFINE b == active_chains[c].buffer
           n == Start(c).response_ids_len
           v == LatestOf(b)
           cut == CutLastAssistant(b, n)
           dropped == Ones(b.response_mask, n + 1)
<1>1. /\ b \in TrajectoryBuffer /\ BufferSound(b) /\ Aligned(b) /\ v \in Requests
      /\ Ends(b, n, v)
  BY ChainLedger
<1>2. n \in 0..Len(b.response_ids) /\ Len(b.generation_versions) \in Nat \ {0}
  BY ChainType DEF SessionInv, ChainShape
<1>3. \E o \in Messages : Delimits(b, n, o)
  BY DEF SessionInv, TokenInv, ChainSound, Start, SessionAssumption
<1>4. cut.response_ids = Take(b.response_ids, IF n = 0 THEN 0 ELSE n - 1)
  BY DEF CutLastAssistant
<1>5. dropped = Ones(b.response_mask, n + 1) /\ v = LatestOf(b) /\ EndsWithPrefix(b, n)
  OBVIOUS
<1> HIDE DEF b, n, v, dropped
<1>6. cut \in TrajectoryBuffer /\ Aligned(cut)
  BY <1>1, <1>2, <1>5, CutLastAssistantType
<1>7. BufferSound(cut) /\ Settled(cut)
  BY <1>1, <1>3, <1>5, CutSound
<1> HIDE DEF cut
<1>8. \A q \in Requests : TrainableFrom(cut, q) = IF q = v THEN 0 ELSE TrainableFrom(b, q)
  BY <1>1, <1>4, <1>5, <1>6, <1>7, CutCounts
<1>9. dropped = TrainableFrom(b, v)
  BY <1>1, <1>5, DroppedCounts
<1>10. Keeps(cut, b, TRUE, dropped)
  BY <1>5, <1>8, <1>9 DEF Keeps
<1> QED
  BY <1>6, <1>7, <1>10 DEF b, n, cut, dropped

LEMMA RollbackChainLedger ==
  ASSUME SessionInv, NEW r \in Requests, NEW call \in ChatRequest, RollbackChain(r, call)
  PROVE  LedgerInv' /\ Strikes
<1>1. PICK c \in Chosen(call) \ Exact(call) :
        LET b == active_chains[c].buffer
            n == Start(c).response_ids_len
        IN  \/ /\ Respond(r, "rejected")
               /\ UNCHANGED <<sessionVars, reserved_chain_ids>>
            \/ /\ EndsWithPrefix(b, n)
               /\ Extend(r, call, c, CutLastAssistant(b, n),
                         SubSeq(call.messages, Start(c).message_history_len + 1,
                                Len(call.messages)),
                         TRUE, Ones(b.response_mask, n + 1))
  BY DEF RollbackChain
<1> DEFINE b == active_chains[c].buffer
           n == Start(c).response_ids_len
           cut == CutLastAssistant(b, n)
           suffix == SubSeq(call.messages, Start(c).message_history_len + 1,
                            Len(call.messages))
           dropped == Ones(b.response_mask, n + 1)
<1>2. c \in Free /\ c \in DOMAIN active_chains /\ pc[r] = "idle" /\ phase = "ACTIVE"
  BY ChosenChain DEF Free, RollbackChain, Preparing
<1>3. CASE Respond(r, "rejected") /\ UNCHANGED <<sessionVars, reserved_chain_ids>>
  BY <1>2, <1>3, RespondLedger DEF Answered
<1>4. CASE EndsWithPrefix(b, n) /\ Extend(r, call, c, cut, suffix, TRUE, dropped)
  <2>1. suffix \in Seq(Messages)
    <3>1. Start(c).message_history_len \in Nat
      BY <1>2, ChainType DEF SessionInv, ChainShape
    <3> QED
      BY <3>1, SuffixType
  <2>2. /\ cut \in TrajectoryBuffer /\ Aligned(cut) /\ BufferSound(cut) /\ Settled(cut)
        /\ Keeps(cut, b, TRUE, dropped)
    BY <1>2, <1>4, CutKeeps
  <2>3. Extend(r, call, c, cut, suffix, TRUE, dropped) /\ b = active_chains[c].buffer
    BY <1>4
  <2> HIDE DEF b, n, suffix, dropped, cut
  <2> QED
    BY <1>2, <2>1, <2>2, <2>3, ExtendLedger
<1> QED
  BY <1>1, <1>3, <1>4

-----------------------------------------------------------------------------
(* Answers.                                                                *)

\* A step that answers request r, whose turn may replace another.
AnswersTurn(r) ==
  /\ phase = "ACTIVE" /\ UNCHANGED <<phase, returned>>
  /\ pc[r] = "generating" /\ pc' = [pc EXCEPT ![r] = "ok"]
  /\ completion[r] = 0 /\ ~Home(r)
  /\ \E k \in Nat \ {0} : completion' = [completion EXCEPT ![r] = k]
  /\ \E gone : /\ Struck(gone)
               /\ \A q \in Requests : Home(q)' <=> q = r \/ (Home(q) /\ q \notin gone)

\* The buffer a commit stores.
LEMMA CommittedCounts ==
  ASSUME SessionInv, NEW r \in Requests, NEW o \in Outputs, Commit(r, o)
  PROVE  LET e   == encoded[r]
             new == AddGeneration(e.buffer, r, Generated(r, o))
             k   == OutLen[o]
         IN  /\ completion[r] = 0 /\ ~Home(r)
             /\ \A c \in DOMAIN active_chains : TrainableFrom(active_chains[c].buffer, r) = 0
             /\ \A t \in materialized_chains : TrainableFrom(t.buffer, r) = 0
             /\ k \in Nat \ {0}
             /\ \A q \in Requests :
                  TrainableFrom(new, q) = IF q = r THEN k ELSE TrainableFrom(e.buffer, q)
             /\ LatestOf(new) = r
             /\ Ends(new, e.last_assistant_start.response_ids_len, r)
<1> DEFINE e   == encoded[r]
           old == e.buffer
           new == AddGeneration(old, r, Generated(r, o))
           k   == OutLen[o]
           n   == Len(old.response_ids)
<1>1. pc[r] = "generating" /\ phase = "ACTIVE"
  BY DEF Commit, CanCommit
<1>2. completion[r] = 0
  BY <1>1 DEF SessionInv, LedgerInv
<1>3. /\ \A c \in DOMAIN active_chains : TrainableFrom(active_chains[c].buffer, r) = 0
      /\ \A t \in materialized_chains : TrainableFrom(t.buffer, r) = 0
  BY <1>2 DEF SessionInv, LedgerInv, Booked
<1>4. ~Home(r)
  BY <1>3 DEF Home, InChain, InClosed
<1>5. TrainableFrom(old, r) = 0
  <2>1. InFlight(r)
    BY <1>1 DEF SessionInv, LedgerInv
  <2>2. CASE held[r] = 0
    BY <1>1, <2>1, <2>2 DEF InFlight, Afresh
  <2>3. CASE held[r] # 0
    <3>1. held[r] \in DOMAIN active_chains
      BY <1>1, <2>3, FreeIsUnheld
    <3> QED
      BY <1>1, <1>3, <2>1, <2>3, <3>1 DEF InFlight, Carries
  <2> QED
    BY <2>2, <2>3
<1>6. /\ old \in TrajectoryBuffer /\ Aligned(old) /\ BufferSound(old)
      /\ e.last_assistant_start.response_ids_len = n
  BY <1>1 DEF SessionInv, TypeInv, TypeOK, Shapes, RequestShape, EncodedData, TokenInv, DataSound
<1>7. /\ \A q \in Requests :
           TrainableFrom(new, q) = IF q = r THEN k ELSE TrainableFrom(old, q)
      /\ Mine(new, r) = (n + 1)..Len(new.response_ids) /\ k \in Nat \ {0}
  <2> HIDE DEF old
  <2> QED
    BY <1>5, <1>6, GenerationCounts
<1>8. LatestOf(new) = r
  <2> DEFINE g == old.generation_versions
  <2>1. g \in Seq(Requests)
    BY <1>6, BufferFields
  <2>2. new.generation_versions = Append(g, r)
    BY DEF AddGeneration, Extended
  <2> HIDE DEF g, new
  <2> QED
    BY <2>1, <2>2, AppendProperties DEF LatestOf, Last
<1>9. n \in 0..(Len(new.response_ids) - 1)
  <2> DEFINE ids == Generated(r, o)
  <2>1. ids \in Seq(Token) /\ Len(ids) \in Nat \ {0}
    <3>1. ids \in Seq(Token) /\ Len(ids) = OutLen[o] /\ OutLen[o] \in Nat \ {0}
      BY GeneratedTokens
    <3> HIDE DEF ids
    <3> QED
      BY <3>1
  <2> HIDE DEF old, ids
  <2>2. Len(new.response_ids) = n + Len(ids)
    BY <1>6, <2>1, AddGenerationType DEF ids
  <2>3. n \in Nat
    BY <1>6, BufferFields
  <2> HIDE DEF new, n
  <2> QED
    BY <2>1, <2>2, <2>3
<1>10. Ends(new, n, r)
  BY <1>7, <1>9 DEF Ends
<1> QED
  BY <1>2, <1>3, <1>4, <1>6, <1>7, <1>8, <1>10

\* A commit answers one turn, and makes at most the turn go that its rollback
\* dropped (session.py 299-323, 668-714).
LEMMA CommitLedger ==
  ASSUME SessionInv, NEW r \in Requests, NEW o \in Outputs, Commit(r, o)
  PROVE  LedgerInv' /\ AnswersTurn(r)
<1> DEFINE e   == encoded[r]
           h   == held[r]
           c   == IF e.chain_id = 0 THEN next_chain_id ELSE e.chain_id
           buf == AddGeneration(e.buffer, r, Generated(r, o))
           new == Committed(e, Append(e.messages, o), buf)
           k   == OutLen[o]
           v   == LatestOf(active_chains[h].buffer)
           gone == IF h # 0 /\ e.rollback_applied THEN {v} ELSE {}
<1>1. /\ completion[r] = 0 /\ ~Home(r) /\ k \in Nat \ {0}
      /\ \A d \in DOMAIN active_chains : TrainableFrom(active_chains[d].buffer, r) = 0
      /\ \A t \in materialized_chains : TrainableFrom(t.buffer, r) = 0
      /\ \A q \in Requests :
           TrainableFrom(buf, q) = IF q = r THEN k ELSE TrainableFrom(e.buffer, q)
      /\ LatestOf(buf) = r
      /\ Ends(buf, e.last_assistant_start.response_ids_len, r)
  BY CommittedCounts
<1>2. /\ pc[r] = "generating" /\ phase = "ACTIVE" /\ e.chain_id = h /\ h \in Nat
      /\ completion \in [Requests -> Nat]
  BY DEF Commit, CanCommit, SessionInv, ReservationInv, ReservationsExact, HeldChainsExist,
         TypeInv, TypeOK
<1>3. /\ active_chains' = [d \in DOMAIN active_chains \cup {c} |->
                             IF d = c THEN new ELSE active_chains[d]]
      /\ RecordRollback(e.rollback_applied, e.dropped)
      /\ UNCHANGED <<phase, materialized_chains, returned>>
      /\ completion' = [completion EXCEPT ![r] = k] /\ pc' = [pc EXCEPT ![r] = "ok"]
  BY DEF Commit, CommitChain
<1>4. \A q \in Requests : q # r =>
        pc'[q] = pc[q] /\ encoded'[q] = encoded[q] /\ held'[q] = held[q]
        /\ completion'[q] = completion[q]
  BY DEF Commit, SessionInv, TypeInv, TypeOK
<1>5. pc'[r] = "ok" /\ completion'[r] = k
  BY <1>2, <1>3 DEF SessionInv, TypeInv, TypeOK
<1>6. new.buffer = buf /\ new.last_assistant_start = e.last_assistant_start
  BY DEF Committed
<1>7. LedgerChain(new)
  <2> HIDE DEF new, buf, e
  <2> QED
    BY <1>1, <1>6 DEF LedgerChain
<1>8. h # 0 => h \in DOMAIN active_chains /\ c = h
  BY <1>2, FreeIsUnheld
<1>9. h = 0 => c = next_chain_id
  BY <1>2
<1>10. InFlight(r)
  BY <1>2 DEF SessionInv, LedgerInv
<1>11. \A d \in DOMAIN active_chains : d < next_chain_id /\ d \in Nat /\ next_chain_id \in Nat
  BY ChainType DEF SessionInv, ReservationInv, IdsAllocated, TypeInv, TypeOK
<1> HIDE DEF new, buf, c, k, e, h
<1>12. /\ DOMAIN active_chains' = DOMAIN active_chains \cup {c}
       /\ active_chains'[c].buffer = buf /\ active_chains'[c] = new
       /\ \A d \in DOMAIN active_chains \ {c} : active_chains'[d] = active_chains[d]
  BY <1>3, <1>6
\* What the new buffer has of another's turn, the chain it replaces had.
<1>13. ASSUME NEW q \in Requests, q # r
       PROVE  /\ h = 0 => TrainableFrom(buf, q) = 0
              /\ h # 0 => TrainableFrom(buf, q)
                            = IF e.rollback_applied /\ q = v THEN 0
                              ELSE TrainableFrom(active_chains[h].buffer, q)
  BY <1>1, <1>2, <1>10, <1>13 DEF InFlight, Afresh, Carries, e, h
<1>14. /\ h = 0 => e.rollback_applied = FALSE
       /\ h # 0 => e.dropped = IF e.rollback_applied
                               THEN TrainableFrom(active_chains[h].buffer, v) ELSE 0
  BY <1>2, <1>10 DEF InFlight, Afresh, Carries, e, h
<1>15. /\ \A d, f \in DOMAIN active_chains :
            d # f => Apart(active_chains[d].buffer, active_chains[f].buffer)
       /\ \A t, u \in materialized_chains : t # u => Apart(t.buffer, u.buffer)
       /\ \A d \in DOMAIN active_chains, t \in materialized_chains :
            Apart(active_chains[d].buffer, t.buffer)
       /\ \A d \in DOMAIN active_chains :
            LedgerChain(active_chains[d]) /\ Booked(active_chains[d].buffer, completion)
       /\ \A t \in materialized_chains : Booked(t.buffer, completion)
       /\ \A q \in Requests : InFlight(q)
       /\ \A q \in Requests : pc[q] = "ok" <=> completion[q] # 0
  BY <1>2 DEF SessionInv, LedgerInv, OneHome
<1>16. /\ \A d \in DOMAIN active_chains \ {c} :
            Apart(buf, active_chains[d].buffer) /\ Apart(active_chains[d].buffer, buf)
       /\ \A t \in materialized_chains : Apart(buf, t.buffer)
  <2>1. ASSUME NEW x, TrainableFrom(x, r) = 0, h # 0 => Apart(active_chains[h].buffer, x)
        PROVE  Apart(buf, x) /\ Apart(x, buf)
    BY <1>13, <2>1 DEF Apart
  <2>2. ASSUME NEW d \in DOMAIN active_chains \ {c}
        PROVE  Apart(buf, active_chains[d].buffer) /\ Apart(active_chains[d].buffer, buf)
    BY <1>1, <1>8, <1>15, <2>1, <2>2
  <2>3. ASSUME NEW t \in materialized_chains PROVE Apart(buf, t.buffer)
    BY <1>1, <1>8, <1>15, <2>1, <2>3
  <2> QED
    BY <2>2, <2>3
<1>17. OneHome'
  <2>1. \A d, f \in DOMAIN active_chains' :
          d # f => Apart(active_chains'[d].buffer, active_chains'[f].buffer)
    BY <1>12, <1>15, <1>16
  <2>2. \A d \in DOMAIN active_chains', t \in materialized_chains' :
          Apart(active_chains'[d].buffer, t.buffer)
    BY <1>3, <1>12, <1>15, <1>16
  <2> QED
    BY <1>3, <1>15, <2>1, <2>2 DEF OneHome
<1>18. ASSUME NEW q \in Requests PROVE InFlight(q)'
  <2>1. CASE q = r
    BY <1>5, <2>1 DEF InFlight
  <2>2. CASE q # r
    <3>1. held[q] # 0 => held[q] \in DOMAIN active_chains /\ held[q] # c
      <4>1. held[q] # 0 => held[q] \in DOMAIN active_chains /\ held[q] # h
        BY <1>2, <2>2, FreeIsUnheld
           DEF h, SessionInv, ReservationInv, ReservationsExact, HoldersAreExclusive
      <4> QED
        BY <1>8, <1>9, <1>11, <4>1
    <3> QED
      BY <1>4, <1>12, <1>15, <2>2, <3>1 DEF InFlight
  <2> QED
    BY <2>1, <2>2
<1>19. Booked(buf, completion')
  <2>1. ASSUME NEW q \in Requests, q # r PROVE TrainableFrom(buf, q) \in {0, completion[q]}
    BY <1>8, <1>13, <1>15, <2>1 DEF Booked
  <2> QED
    BY <1>1, <1>4, <1>5, <2>1 DEF Booked
<1>20. \A x : Booked(x, completion) /\ TrainableFrom(x, r) = 0 => Booked(x, completion')
  BY <1>4 DEF Booked
<1>21. LedgerInv'
  <2>1. \A q \in Requests : pc'[q] = "ok" <=> completion'[q] # 0
    BY <1>1, <1>4, <1>5, <1>15
  <2>2. \A d \in DOMAIN active_chains' :
          LedgerChain(active_chains'[d]) /\ Booked(active_chains'[d].buffer, completion')
    BY <1>1, <1>7, <1>12, <1>15, <1>19, <1>20
  <2>3. \A t \in materialized_chains' : Booked(t.buffer, completion')
    BY <1>1, <1>3, <1>15, <1>20
  <2> QED
    BY <1>17, <1>18, <2>1, <2>2, <2>3 DEF LedgerInv
<1>22. h # 0 => /\ v \in Requests /\ Home(v)
                /\ TrainableFrom(active_chains[h].buffer, v) = completion[v]
                /\ TrainableFrom(active_chains[h].buffer, v) # 0
  BY <1>8, ChainLedger
<1>23. Struck(gone)
  <2>1. CASE h # 0 /\ e.rollback_applied
    <3>1. /\ rollback_count' = rollback_count + 1
          /\ rollback_dropped' = rollback_dropped + completion[v]
      BY <1>3, <1>14, <1>22, <2>1 DEF RecordRollback
    <3> QED
      BY <1>22, <2>1, <3>1 DEF Struck
  <2>2. CASE ~(h # 0 /\ e.rollback_applied)
    <3>1. UNCHANGED <<rollback_count, rollback_dropped>>
      <4>1. ~e.rollback_applied
        BY <1>14, <2>2
      <4> QED
        BY <1>3, <4>1, SMT DEF RecordRollback, SessionInv, TypeInv, TypeOK
    <3> QED
      BY <2>2, <3>1 DEF Struck
  <2> QED
    BY <2>1, <2>2
<1>24. ASSUME NEW q \in Requests, Home(q)' PROVE q = r \/ (Home(q) /\ q \notin gone)
  <2> SUFFICES ASSUME q # r PROVE Home(q) /\ q \notin gone
    OBVIOUS
  <2>1. ASSUME NEW x, Apart(buf, x), TrainableFrom(x, q) # 0,
               h # 0 => Apart(active_chains[h].buffer, x)
        PROVE  q \notin gone
    BY <1>22, <2>1 DEF Apart
  <2>2. CASE InChain(q)'
    <3>1. PICK d \in DOMAIN active_chains' : TrainableFrom(active_chains'[d].buffer, q) # 0
      BY <2>2 DEF InChain
    <3>2. CASE d = c
      <4>1. h # 0 /\ TrainableFrom(active_chains[h].buffer, q) # 0
            /\ ~(e.rollback_applied /\ q = v)
        BY <1>12, <1>13, <3>1, <3>2
      <4> QED
        BY <1>8, <4>1 DEF Home, InChain
    <3>3. CASE d # c
      <4>1. d \in DOMAIN active_chains /\ TrainableFrom(active_chains[d].buffer, q) # 0
        BY <1>12, <3>1, <3>3
      <4>2. h # 0 => Apart(active_chains[h].buffer, active_chains[d].buffer)
        BY <1>8, <1>15, <3>3, <4>1
      <4>3. q \notin gone
        BY <1>16, <2>1, <3>3, <4>1, <4>2
      <4> QED
        BY <4>1, <4>3 DEF Home, InChain
    <3> QED
      BY <3>2, <3>3
  <2>3. CASE InClosed(q)'
    <3>1. PICK t \in materialized_chains : TrainableFrom(t.buffer, q) # 0
      BY <1>3, <2>3 DEF InClosed
    <3>2. q \notin gone
      BY <1>8, <1>15, <1>16, <2>1, <3>1
    <3> QED
      BY <3>1, <3>2 DEF Home, InClosed
  <2> QED
    BY <1>24, <2>2, <2>3 DEF Home
<1>25. ASSUME NEW q \in Requests, q = r \/ (Home(q) /\ q \notin gone) PROVE Home(q)'
  <2>1. CASE q = r
    <3>1. TrainableFrom(active_chains'[c].buffer, q) # 0
      BY <1>1, <1>12, <2>1
    <3> QED
      BY <1>12, <3>1 DEF Home, InChain
  <2>2. CASE q # r /\ InChain(q)
    <3>1. PICK d \in DOMAIN active_chains : TrainableFrom(active_chains[d].buffer, q) # 0
      BY <2>2 DEF InChain
    <3>2. d = c => h # 0
      BY <1>9, <1>11
    <3>3. d = c => TrainableFrom(buf, q) # 0
      BY <1>8, <1>13, <1>25, <2>2, <3>1, <3>2
    <3> QED
      BY <1>12, <3>1, <3>3 DEF Home, InChain
  <2>3. CASE InClosed(q)
    BY <1>3, <2>3 DEF Home, InClosed
  <2> QED
    BY <1>25, <2>1, <2>2, <2>3 DEF Home
<1> HIDE DEF gone
<1>26. AnswersTurn(r)
  BY <1>1, <1>2, <1>3, <1>23, <1>24, <1>25 DEF AnswersTurn
<1> QED
  BY <1>21, <1>26

-----------------------------------------------------------------------------
(* Closing, and every step.                                                *)

\* How many trainable tokens a turn has, wherever its home is.
Share(q) == IF Home(q) THEN completion[q] ELSE 0

\* A turn's tokens, summed over all chains and trajectories, are those of its
\* one home.
LEMMA SurvivingIsShare ==
  SessionInv => \A q \in Requests : Surviving(q) = Share(q)
<1> SUFFICES ASSUME SessionInv, NEW q \in Requests PROVE Surviving(q) = Share(q)
  OBVIOUS
<1> DEFINE f == [c \in DOMAIN active_chains |-> TrainableFrom(active_chains[c].buffer, q)]
           g == [t \in materialized_chains |-> TrainableFrom(t.buffer, q)]
<1>1. Surviving(q) = Total(f) + Total(g)
  BY DEF Surviving
<1>2. /\ \A c \in DOMAIN active_chains : f[c] \in {0, completion[q]}
      /\ \A t \in materialized_chains : g[t] \in {0, completion[q]}
      /\ completion[q] \in Nat
  BY DEF SessionInv, LedgerInv, Booked, TypeInv, TypeOK
<1>3. /\ \A c, d \in DOMAIN active_chains : c # d => f[c] = 0 \/ f[d] = 0
      /\ \A t, u \in materialized_chains : t # u => g[t] = 0 \/ g[u] = 0
      /\ \A c \in DOMAIN active_chains, t \in materialized_chains : f[c] = 0 \/ g[t] = 0
  BY DEF SessionInv, LedgerInv, OneHome, Apart
<1>4. /\ InChain(q) <=> \E c \in DOMAIN active_chains : f[c] # 0
      /\ InClosed(q) <=> \E t \in materialized_chains : g[t] # 0
  BY DEF InChain, InClosed
<1>5. DOMAIN f = DOMAIN active_chains /\ DOMAIN g = materialized_chains
  OBVIOUS
<1> HIDE DEF f, g
<1>6. CASE InChain(q)
  <2>1. PICK c \in DOMAIN f : f[c] # 0
    BY <1>4, <1>5, <1>6
  <2>2. f[c] = completion[q] /\ \A d \in DOMAIN f : d # c => f[d] = 0
    BY <1>2, <1>3, <1>5, <2>1
  <2>3. Total(f) = completion[q]
    BY <1>2, <2>2, TotalOne
  <2>4. Total(g) = 0
    <3>1. \A t \in DOMAIN g : g[t] = 0
      BY <1>3, <1>5, <2>1
    <3> QED
      BY <3>1, TotalZero
  <2> QED
    BY <1>1, <1>2, <1>6, <2>3, <2>4 DEF Share, Home
<1>7. CASE ~InChain(q)
  <2>1. Total(f) = 0
    BY <1>4, <1>5, <1>7, TotalZero
  <2>2. CASE InClosed(q)
    <3>1. PICK t \in DOMAIN g : g[t] # 0
      BY <1>4, <1>5, <2>2
    <3>2. g[t] = completion[q] /\ \A u \in DOMAIN g : u # t => g[u] = 0
      BY <1>2, <1>3, <1>5, <3>1
    <3>3. Total(g) = completion[q]
      BY <1>2, <3>2, TotalOne
    <3> QED
      BY <1>1, <1>2, <2>1, <2>2, <3>3 DEF Share, Home
  <2>3. CASE ~InClosed(q)
    <3>1. Total(g) = 0
      BY <1>4, <1>5, <2>3, TotalZero
    <3> QED
      BY <1>1, <1>7, <2>1, <2>3, <3>1 DEF Share, Home
  <2> QED
    BY <2>2, <2>3
<1> QED
  BY <1>6, <1>7

\* Closing moves the turns from the chains to the trajectories.
LEMMA FinalizeMoves ==
  ASSUME SessionInv, Finalize
  PROVE  /\ LedgerInv'
         /\ \A q \in Requests : Home(q)' <=> Home(q)
         /\ UNCHANGED <<rollback_count, rollback_dropped, requestVars>>
         /\ phase = "ACTIVE" /\ phase' = "FINALIZED"
<1> DEFINE M(c) == Materialized(active_chains[c].buffer, active_chains[c].message_history,
                                active_chains[c].updated_seq, "none")
<1>1. /\ DOMAIN active_chains' = {} /\ UNCHANGED requestVars
      /\ UNCHANGED <<rollback_count, rollback_dropped>>
      /\ phase = "ACTIVE" /\ phase' = "FINALIZED"
      /\ materialized_chains' = materialized_chains \cup ActiveTrajectories
  BY DEF Finalize
<1>2. /\ \A c \in DOMAIN active_chains : M(c) \in ActiveTrajectories
      /\ \A t \in ActiveTrajectories : \E c \in DOMAIN active_chains : t = M(c)
  BY DEF ActiveTrajectories
<1>3. \A c \in DOMAIN active_chains : M(c).buffer = active_chains[c].buffer
  BY MaterializedBuffer
<1> HIDE DEF M
<1>4. /\ \A c, d \in DOMAIN active_chains :
           c # d => Apart(active_chains[c].buffer, active_chains[d].buffer)
      /\ \A t, u \in materialized_chains : t # u => Apart(t.buffer, u.buffer)
      /\ \A c \in DOMAIN active_chains, t \in materialized_chains :
           Apart(active_chains[c].buffer, t.buffer)
      /\ \A c \in DOMAIN active_chains : Booked(active_chains[c].buffer, completion)
      /\ \A t \in materialized_chains : Booked(t.buffer, completion)
      /\ \A q \in Requests : pc[q] = "ok" <=> completion[q] # 0
  BY DEF SessionInv, LedgerInv, OneHome
<1>5. \A x, y : Apart(x, y) => Apart(y, x)
  BY DEF Apart
<1>6. \A t \in materialized_chains' :
        \/ t \in materialized_chains
        \/ \E c \in DOMAIN active_chains : t = M(c) /\ t.buffer = active_chains[c].buffer
  BY <1>1, <1>2, <1>3
<1>7. \A t, u \in materialized_chains' : t # u => Apart(t.buffer, u.buffer)
  <2> SUFFICES ASSUME NEW t \in materialized_chains', NEW u \in materialized_chains', t # u
               PROVE  Apart(t.buffer, u.buffer)
    OBVIOUS
  <2>1. CASE t \in materialized_chains /\ u \in materialized_chains
    BY <1>4, <2>1
  <2>2. CASE t \notin materialized_chains \/ u \notin materialized_chains
    BY <1>4, <1>5, <1>6, <2>2
  <2> QED
    BY <2>1, <2>2
<1>8. OneHome'
  BY <1>1, <1>7 DEF OneHome
<1>9. LedgerInv'
  <2>1. \A t \in materialized_chains' : Booked(t.buffer, completion')
    BY <1>1, <1>4, <1>6 DEF requestVars
  <2>2. \A q \in Requests : pc'[q] = "ok" <=> completion'[q] # 0
    BY <1>1, <1>4 DEF requestVars
  <2> QED
    BY <1>1, <1>8, <2>1, <2>2 DEF LedgerInv
<1>10. ASSUME NEW q \in Requests PROVE Home(q)' <=> Home(q)
  <2>1. ASSUME Home(q) PROVE Home(q)'
    BY <1>1, <1>2, <1>3, <2>1 DEF Home, InChain, InClosed
  <2>2. ASSUME Home(q)' PROVE Home(q)
    BY <1>1, <1>6, <2>2 DEF Home, InChain, InClosed
  <2> QED
    BY <2>1, <2>2
<1> QED
  BY <1>1, <1>9, <1>10

\* What finalize returns: each closed trajectory once, so each turn once.
LEMMA FinalizeDelivers ==
  ASSUME SessionInv, Finalize, NEW q \in Requests
  PROVE  Delivered(q)' = Share(q)'
<1> DEFINE T == materialized_chains'
           n == Cardinality(T)
           f == [i \in DOMAIN returned' |-> TrainableFrom(returned'[i].buffer, q)]
<1>1. Delivered(q)' = Total(f)
  BY DEF Delivered
<1>2. /\ LedgerInv' /\ DOMAIN active_chains' = {} /\ TypeInv'
  <2>1. LedgerInv'
    BY FinalizeMoves
  <2>2. TypeInv'
    BY FinalizeKeepsTypes DEF SessionInv
  <2>3. DOMAIN active_chains' = {}
    BY DEF Finalize
  <2> QED
    BY <2>1, <2>2, <2>3
<1>3. PICK s \in InOrder(T) :
        returned' = [i \in DOMAIN s |-> [s[i] EXCEPT !.reward_info = reward_info]]
  BY DEF Finalize
<1>4. /\ s \in [1..n -> T] /\ \A t \in T : \E i \in 1..n : s[i] = t
  BY DEF InOrder
<1>5. IsFiniteSet(T) /\ n \in Nat
  BY <1>2, FS_CardinalityType DEF TypeInv, Shapes
<1>6. \A i, j \in 1..n : s[i] = s[j] => i = j
  <2>1. s \in Surjection(1..n, T)
    BY <1>4 DEF Surjection
  <2>2. IsFiniteSet(1..n) /\ Cardinality(1..n) = Cardinality(T)
    BY <1>5, FS_Interval
  <2> HIDE DEF T
  <2>3. s \in Injection(1..n, T)
    BY <2>1, <2>2, FS_SurjSameCardinalityImpliesInj
  <2> QED
    BY <2>3 DEF Injection, IsInjective
<1>7. /\ DOMAIN returned' = 1..n
      /\ \A i \in 1..n : returned'[i].buffer = s[i].buffer
  <2>1. \A t \in T : [t EXCEPT !.reward_info = reward_info].buffer = t.buffer
    BY <1>2 DEF TypeInv, TypeOK, Trajectory
  <2> HIDE DEF T, n
  <2> QED
    BY <1>3, <1>4, <2>1
<1>8. /\ \A t \in T : TrainableFrom(t.buffer, q) \in {0, completion'[q]}
      /\ \A t, u \in T : t # u => TrainableFrom(t.buffer, q) = 0 \/ TrainableFrom(u.buffer, q) = 0
      /\ completion'[q] \in Nat
  BY <1>2 DEF LedgerInv, Booked, OneHome, Apart, TypeInv, TypeOK
<1>9. Home(q)' <=> \E t \in T : TrainableFrom(t.buffer, q) # 0
  BY <1>2 DEF Home, InChain, InClosed
<1>10. DOMAIN f = 1..n /\ \A i \in 1..n : f[i] = TrainableFrom(s[i].buffer, q)
  BY <1>7
<1> HIDE DEF T, n, f
<1>11. CASE Home(q)'
  <2>1. PICK i \in 1..n : f[i] # 0
    BY <1>4, <1>9, <1>10, <1>11
  <2>2. f[i] = completion'[q]
    BY <1>4, <1>8, <1>10, <2>1
  <2>3. ASSUME NEW j \in 1..n, j # i PROVE f[j] = 0
    BY <1>4, <1>6, <1>8, <1>10, <2>1, <2>3
  <2>4. Total(f) = completion'[q]
    BY <1>8, <1>10, <2>2, <2>3, TotalOne
  <2> QED
    BY <1>1, <1>11, <2>4 DEF Share
<1>12. CASE ~Home(q)'
  <2>1. \A i \in 1..n : f[i] = 0
    BY <1>4, <1>9, <1>10, <1>12
  <2>2. Total(f) = 0
    BY <1>10, <2>1, TotalZero
  <2> QED
    BY <1>1, <1>12, <2>2 DEF Share
<1> QED
  BY <1>11, <1>12

\* Aborting leaves nothing.
LEMMA AbortEmpties ==
  ASSUME SessionInv, Abort
  PROVE  /\ LedgerInv' /\ \A q \in Requests : ~Home(q)'
         /\ phase = "ACTIVE" /\ phase' = "ABORTED"
         /\ UNCHANGED <<requestVars, returned>>
<1>1. /\ DOMAIN active_chains' = {} /\ materialized_chains' = {} /\ UNCHANGED requestVars
      /\ phase = "ACTIVE" /\ phase' = "ABORTED" /\ UNCHANGED returned
  BY DEF Abort
<1>2. \A q \in Requests : pc[q] = "ok" <=> completion[q] # 0
  BY DEF SessionInv, LedgerInv
<1>3. OneHome'
  BY <1>1 DEF OneHome
<1>4. LedgerInv'
  BY <1>1, <1>2, <1>3 DEF LedgerInv, requestVars
<1>5. \A q \in Requests : ~Home(q)'
  BY <1>1 DEF Home, InChain, InClosed
<1> QED
  BY <1>1, <1>4, <1>5

\* Every step of the session, as the ledger sees it.
LEMMA LedgerStep ==
  ASSUME SessionInv, [Step]_vars
  PROVE  /\ LedgerInv'
         /\ Strikes \/ (\E r \in Requests : AnswersTurn(r)) \/ Finalize \/ Abort
<1>1. ASSUME NEW r \in Requests, RefuseClosed(r) PROVE LedgerInv' /\ Strikes
  BY <1>1, RespondLedger DEF RefuseClosed, Answered
<1>2. ASSUME NEW r \in Requests, Serve(r) PROVE LedgerInv' /\ Strikes
  BY <1>2, StartChainLedger, ContinueChainLedger, RollbackChainLedger DEF Serve
<1>3. ASSUME NEW r \in Requests, Fail(r) PROVE LedgerInv' /\ Strikes
  BY <1>3, FailLedger
<1>4. ASSUME NEW r \in Requests, Release(r) PROVE LedgerInv' /\ Strikes
  BY <1>4, ReleaseLedger
<1>5. ASSUME NEW r \in Requests, NEW o \in Outputs, Commit(r, o)
      PROVE  LedgerInv' /\ AnswersTurn(r)
  BY <1>5, CommitLedger
<1>6. ASSUME NEW w \in Rewards, SetReward(w) PROVE LedgerInv' /\ Strikes
  BY <1>6, SetRewardLedger
<1>7. CASE Finalize
  BY <1>7, FinalizeMoves
<1>8. CASE Abort
  BY <1>8, AbortEmpties
<1>9. CASE UNCHANGED vars
  BY <1>9, StutterLedger
<1> QED
  BY <1>1, <1>2, <1>3, <1>4, <1>5, <1>6, <1>7, <1>8, <1>9 DEF Step, Resume

\* A new session has no turns.
LEMMA LedgerInit == Init => LedgerInv
<1> SUFFICES ASSUME Init PROVE LedgerInv
  OBVIOUS
<1> DOMAIN active_chains = {}
  BY DEF Init
<1> QED
  BY DEF Init, LedgerInv, OneHome, InFlight

\* The session's inductive invariant.
LEMMA SessionInit == Init => SessionInv
BY TypeInit, ReservationInit, TokenInit, LedgerInit DEF SessionInv

LEMMA SessionStep == SessionInv /\ [Step]_vars => SessionInv'
<1> SUFFICES ASSUME SessionInv, [Step]_vars PROVE SessionInv'
  OBVIOUS
<1>1. TypeInv' /\ ReservationInv' /\ TokenInv'
  BY TypeStep, ReservationStep, TokenStep DEF SessionInv, TypeInv
<1>2. LedgerInv'
  BY LedgerStep
<1> QED
  BY <1>1, <1>2 DEF SessionInv

-----------------------------------------------------------------------------
(* The books balance.                                                      *)

Shares == [r \in Requests |-> Share(r)]
Paid   == {r \in Requests : pc[r] = "ok"}
Kept(s) == {r \in Requests : s[r] > 0}

\* The books balance, in tokens and in turns.
AccountsInv ==
  /\ IsFiniteSet(Units(completion)) /\ IsFiniteSet(Paid)
  /\ phase # "ABORTED" =>
       /\ Total(completion) = Total(Shares) + rollback_dropped
       /\ Cardinality(Paid) = Cardinality(Kept(Shares)) + rollback_count

\* A turn with a home was answered, and is all there.
LEMMA HomeIsPaid ==
  ASSUME SessionInv, NEW q \in Requests, Home(q)
  PROVE  completion[q] # 0 /\ pc[q] = "ok"
<1>1. completion[q] # 0
  <2>1. CASE InChain(q)
    BY <2>1 DEF InChain, SessionInv, LedgerInv, Booked
  <2>2. CASE InClosed(q)
    BY <2>2 DEF InClosed, SessionInv, LedgerInv, Booked
  <2> QED
    BY <2>1, <2>2 DEF Home
<1> QED
  BY <1>1 DEF SessionInv, LedgerInv

LEMMA SharesType ==
  ASSUME SessionInv, IsFiniteSet(Units(completion)), IsFiniteSet(Paid)
  PROVE  /\ completion \in [Requests -> Nat] /\ Shares \in [Requests -> Nat]
         /\ IsFiniteSet(Units(Shares)) /\ IsFiniteSet(Kept(Shares))
         /\ Total(Shares) \in Nat /\ Cardinality(Kept(Shares)) \in Nat
         /\ Kept(Shares) = {q \in Requests : Home(q)}
<1>1. completion \in [Requests -> Nat]
  BY DEF SessionInv, TypeInv, TypeOK
<1>2. \A q \in Requests : Shares[q] = Share(q) /\ Share(q) \in {0, completion[q]}
  BY DEF Shares, Share
<1>3. Shares \in [Requests -> Nat]
  BY <1>1 DEF Shares, Share
<1>4. Units(Shares) \subseteq Units(completion)
  <2> SUFFICES ASSUME NEW u \in Units(Shares) PROVE u \in Units(completion)
    OBVIOUS
  <2>1. PICK q \in Requests : \E k \in 1..Shares[q] : u = <<q, k>>
    BY <1>3, InUnits
  <2>2. PICK k \in 1..Shares[q] : u = <<q, k>>
    BY <2>1
  <2>3. k \in 1..completion[q]
    BY <1>1, <1>2, <2>2
  <2>4. q \in DOMAIN completion
    BY <1>1
  <2> QED
    BY <2>2, <2>3, <2>4, InUnits
<1>5. IsFiniteSet(Units(Shares))
  BY <1>4, FS_Subset
<1>6. Total(Shares) \in Nat
  <2>1. Total(Shares) = Cardinality(Units(Shares))
    BY DEF Total, Units
  <2> QED
    BY <1>5, <2>1, FS_CardinalityType
<1>7. Kept(Shares) = {q \in Requests : Home(q)}
  <2>1. ASSUME NEW q \in Requests PROVE Shares[q] > 0 <=> Home(q)
    <3>1. CASE Home(q)
      <4>1. completion[q] # 0 /\ completion[q] \in Nat
        BY <1>1, <3>1, HomeIsPaid
      <4> QED
        BY <1>2, <3>1, <4>1 DEF Share
    <3>2. CASE ~Home(q)
      BY <1>2, <3>2 DEF Share
    <3> QED
      BY <3>1, <3>2
  <2> QED
    BY <2>1 DEF Kept
<1>8. Kept(Shares) \subseteq Paid
  BY <1>7, HomeIsPaid DEF Paid
<1>9. IsFiniteSet(Kept(Shares)) /\ Cardinality(Kept(Shares)) \in Nat
  BY <1>8, FS_Subset, FS_CardinalityType
<1> QED
  BY <1>1, <1>3, <1>5, <1>6, <1>7, <1>9

\* Striking turns out moves their tokens from the shares to the counters.
LEMMA StruckBalances ==
  ASSUME SessionInv, IsFiniteSet(Units(completion)), IsFiniteSet(Paid), NEW gone, Struck(gone),
         NEW t, t = [q \in Requests |-> IF q \in gone THEN 0 ELSE Share(q)]
  PROVE  /\ IsFiniteSet(Units(t)) /\ IsFiniteSet(Kept(t)) /\ t \in [Requests -> Nat]
         /\ Total(t) \in Nat /\ Cardinality(Kept(t)) \in Nat
         /\ Total(t) + rollback_dropped' = Total(Shares) + rollback_dropped
         /\ Cardinality(Kept(t)) + rollback_count' = Cardinality(Kept(Shares)) + rollback_count
<1>1. /\ completion \in [Requests -> Nat] /\ Shares \in [Requests -> Nat]
      /\ IsFiniteSet(Units(Shares)) /\ IsFiniteSet(Kept(Shares))
      /\ Total(Shares) \in Nat /\ Cardinality(Kept(Shares)) \in Nat
      /\ Kept(Shares) = {q \in Requests : Home(q)}
  BY SharesType
<1>2. rollback_count \in Nat /\ rollback_dropped \in Nat
  BY DEF SessionInv, TypeInv, TypeOK
<1>3. \A q \in Requests : Shares[q] = Share(q) /\ Shares[q] \in Nat
  BY <1>1 DEF Shares
<1>4. CASE gone = {} /\ UNCHANGED <<rollback_count, rollback_dropped>>
  <2>1. t = Shares
    BY <1>4 DEF Shares
  <2> QED
    BY <1>1, <1>4, <2>1
<1>5. ASSUME NEW v \in Requests, gone = {v}, rollback_count' = rollback_count + 1,
             rollback_dropped' = rollback_dropped + completion[v]
      PROVE  /\ IsFiniteSet(Units(t)) /\ IsFiniteSet(Kept(t)) /\ t \in [Requests -> Nat]
             /\ Total(t) \in Nat /\ Cardinality(Kept(t)) \in Nat
             /\ Total(t) + rollback_dropped' = Total(Shares) + rollback_dropped
             /\ Cardinality(Kept(t)) + rollback_count' = Cardinality(Kept(Shares)) + rollback_count
  <2>1. Home(v)
    BY <1>5 DEF Struck
  <2>2. Shares[v] = completion[v] /\ completion[v] \in Nat
    BY <1>1, <1>3, <2>1 DEF Share
  <2>3. /\ t[v] = 0 /\ \A q \in Requests : q # v => t[q] = Shares[q]
        /\ t \in [Requests -> Nat]
    BY <1>3, <1>5
  <2>4. /\ IsFiniteSet(Units(t)) /\ Total(t) \in Nat
        /\ Total(t) + Shares[v] = Total(Shares) + t[v]
    <3>1. v \in DOMAIN Shares /\ DOMAIN t = DOMAIN Shares /\ DOMAIN Shares = Requests
      BY <1>1, <2>3
    <3>2. /\ \A q \in DOMAIN t : t[q] \in Nat /\ Shares[q] \in Nat
          /\ \A q \in DOMAIN t : q # v => t[q] = Shares[q]
          /\ IsFiniteSet(Units(Shares)) /\ v \in DOMAIN t
      BY <1>1, <1>3, <2>3, <3>1
    <3> QED
      BY <3>1, <3>2, TotalSplit
  <2>5. Kept(t) = Kept(Shares) \ {v} /\ v \in Kept(Shares)
    BY <1>1, <2>1, <2>3 DEF Kept
  <2>6. /\ IsFiniteSet(Kept(t))
        /\ Cardinality(Kept(t)) = Cardinality(Kept(Shares)) - 1
    <3> DEFINE K == Kept(Shares)
    <3>1. IsFiniteSet(K) /\ v \in K /\ Kept(t) = K \ {v}
      BY <1>1, <2>5
    <3> HIDE DEF K
    <3>2. IsFiniteSet(K \ {v}) /\ Cardinality(K \ {v}) = Cardinality(K) - 1
      BY <3>1, FS_RemoveElement
    <3> QED
      BY <3>1, <3>2 DEF K
  <2>7. Cardinality(Kept(t)) \in Nat
    BY <2>6, FS_CardinalityType
  <2> QED
    BY <1>1, <1>2, <1>5, <2>2, <2>3, <2>4, <2>6, <2>7
<1> QED
  BY <1>4, <1>5 DEF Struck

\* A step that answers nobody keeps the books balanced.
LEMMA StrikesBalance ==
  ASSUME SessionInv, AccountsInv, Strikes
  PROVE  AccountsInv'
<1>1. PICK gone : /\ Struck(gone)
                  /\ \A q \in Requests : Home(q)' <=> Home(q) /\ q \notin gone
  BY DEF Strikes
<1>2. /\ completion' = completion /\ phase' = phase
      /\ \A q \in Requests : pc'[q] = "ok" <=> pc[q] = "ok"
  BY DEF Strikes
<1>3. Paid' = Paid
  BY <1>2 DEF Paid
<1> DEFINE t == [q \in Requests |-> IF q \in gone THEN 0 ELSE Share(q)]
<1>4. Shares' = t
  BY <1>1, <1>2 DEF Shares, Share
<1>5. /\ Total(t) \in Nat /\ Cardinality(Kept(t)) \in Nat
      /\ Total(t) + rollback_dropped' = Total(Shares) + rollback_dropped
      /\ Cardinality(Kept(t)) + rollback_count' = Cardinality(Kept(Shares)) + rollback_count
  BY <1>1, StruckBalances DEF AccountsInv
<1>6. Kept(Shares)' = Kept(t)
  BY <1>4 DEF Kept
<1> HIDE DEF t
<1>7. IsFiniteSet(Units(completion))' /\ IsFiniteSet(Paid)'
  BY <1>2, <1>3 DEF AccountsInv
<1>8. ASSUME phase' # "ABORTED"
      PROVE  /\ Total(completion') = Total(Shares') + rollback_dropped'
             /\ Cardinality(Paid') = Cardinality(Kept(Shares)') + rollback_count'
  BY <1>2, <1>3, <1>4, <1>5, <1>6, <1>8 DEF AccountsInv
<1> QED
  BY <1>7, <1>8 DEF AccountsInv

\* An answer adds its tokens to the completions and to the shares.
LEMMA AnswerBalances ==
  ASSUME SessionInv, AccountsInv, NEW r \in Requests, AnswersTurn(r)
  PROVE  AccountsInv'
<1>1. PICK gone : /\ Struck(gone)
                  /\ \A q \in Requests : Home(q)' <=> q = r \/ (Home(q) /\ q \notin gone)
  BY DEF AnswersTurn
<1>2. PICK k \in Nat \ {0} : completion' = [completion EXCEPT ![r] = k]
  BY DEF AnswersTurn
<1>3. /\ phase = "ACTIVE" /\ pc' = [pc EXCEPT ![r] = "ok"] /\ pc[r] # "ok"
      /\ completion[r] = 0 /\ ~Home(r)
  BY DEF AnswersTurn
<1>4. /\ completion \in [Requests -> Nat] /\ Kept(Shares) = {q \in Requests : Home(q)}
      /\ Total(Shares) \in Nat /\ Cardinality(Kept(Shares)) \in Nat
  BY SharesType DEF AccountsInv
<1>5. /\ IsFiniteSet(Units(completion)) /\ IsFiniteSet(Paid)
      /\ Total(completion) = Total(Shares) + rollback_dropped
      /\ Cardinality(Paid) = Cardinality(Kept(Shares)) + rollback_count
  BY <1>3 DEF AccountsInv
<1>6. /\ rollback_count \in Nat /\ rollback_dropped \in Nat
      /\ rollback_count' \in Nat /\ rollback_dropped' \in Nat
  BY <1>1, <1>4, SMT DEF Struck, SessionInv, TypeInv, TypeOK
<1>7. /\ completion'[r] = k /\ DOMAIN completion' = DOMAIN completion
      /\ \A q \in DOMAIN completion : q # r => completion'[q] = completion[q]
      /\ r \in DOMAIN completion
  BY <1>2, <1>4
<1>8. /\ IsFiniteSet(Units(completion)') /\ Total(completion)' \in Nat
      /\ Total(completion)' = Total(completion) + k /\ Total(completion) \in Nat
  <2>1. /\ IsFiniteSet(Units(completion')) /\ Total(completion) \in Nat /\ Total(completion') \in Nat
        /\ Total(completion') + completion[r] = Total(completion) + completion'[r]
    BY <1>3, <1>5, <1>7, TotalSplit
  <2> QED
    BY <1>3, <1>7, <2>1
<1>9. Paid' = Paid \cup {r} /\ r \notin Paid
  BY <1>3 DEF Paid, SessionInv, TypeInv, TypeOK
<1>10. IsFiniteSet(Paid') /\ Cardinality(Paid') = Cardinality(Paid) + 1
  BY <1>5, <1>9, FS_AddElement
<1> DEFINE t == [q \in Requests |-> IF q \in gone THEN 0 ELSE Share(q)]
           s == Shares'
<1>11. /\ IsFiniteSet(Units(t)) /\ IsFiniteSet(Kept(t)) /\ t \in [Requests -> Nat]
       /\ Total(t) \in Nat /\ Cardinality(Kept(t)) \in Nat
       /\ Total(t) + rollback_dropped' = Total(Shares) + rollback_dropped
       /\ Cardinality(Kept(t)) + rollback_count' = Cardinality(Kept(Shares)) + rollback_count
  BY <1>1, <1>5, StruckBalances
<1>12. /\ DOMAIN s = Requests /\ DOMAIN t = Requests /\ t[r] = 0 /\ s[r] = k
       /\ \A q \in Requests : q # r => s[q] = t[q]
  <2>1. \A q \in Requests : s[q] = Share(q)' /\ t[q] = IF q \in gone THEN 0 ELSE Share(q)
    BY DEF Shares
  <2>2. t[r] = 0
    BY <1>3, <2>1 DEF Share
  <2>3. s[r] = k
    BY <1>1, <1>7, <2>1 DEF Share
  <2>4. ASSUME NEW q \in Requests, q # r PROVE s[q] = t[q]
    <3>1. (Home(q)' <=> Home(q) /\ q \notin gone) /\ completion'[q] = completion[q]
      BY <1>1, <1>4, <1>7, <2>4
    <3> QED
      BY <2>1, <3>1 DEF Share
  <2>5. DOMAIN s = Requests
    BY DEF Shares
  <2> QED
    BY <2>2, <2>3, <2>4, <2>5
<1> HIDE DEF t, s
<1>13. Total(s) = Total(t) + k
  <2>1. Total(s) + t[r] = Total(t) + s[r] /\ Total(s) \in Nat
    BY <1>11, <1>12, TotalSplit
  <2> QED
    BY <1>11, <1>12, <2>1
<1>14. Kept(s) = Kept(t) \cup {r} /\ r \notin Kept(t)
  BY <1>12 DEF Kept
<1>15. Cardinality(Kept(s)) = Cardinality(Kept(t)) + 1
  BY <1>11, <1>14, FS_AddElement
<1>16. Total(completion)' = Total(s) + rollback_dropped'
  BY <1>4, <1>5, <1>6, <1>8, <1>11, <1>13
<1>17. Cardinality(Paid') = Cardinality(Kept(s)) + rollback_count'
  BY <1>4, <1>5, <1>6, <1>10, <1>11, <1>15
<1>18. Total(Shares)' = Total(s) /\ Cardinality(Kept(Shares))' = Cardinality(Kept(s))
  BY DEF s, Kept
<1> QED
  BY <1>8, <1>10, <1>16, <1>17, <1>18 DEF AccountsInv

\* The books balance after every step.
LEMMA AccountsStep ==
  SessionInv /\ AccountsInv /\ [Step]_vars => AccountsInv'
<1> SUFFICES ASSUME SessionInv, AccountsInv, [Step]_vars PROVE AccountsInv'
  OBVIOUS
<1>1. Strikes \/ (\E r \in Requests : AnswersTurn(r)) \/ Finalize \/ Abort
  BY LedgerStep
<1>2. CASE Finalize
  <2>1. /\ \A q \in Requests : Home(q)' <=> Home(q)
        /\ UNCHANGED <<rollback_count, rollback_dropped, completion, pc>>
        /\ phase = "ACTIVE"
    BY <1>2, FinalizeMoves DEF requestVars
  <2>2. Shares' = Shares /\ Paid' = Paid
    BY <2>1 DEF Shares, Share, Paid
  <2>3. Kept(Shares)' = Kept(Shares)
    BY <2>2 DEF Kept
  <2> QED
    BY <2>1, <2>2, <2>3 DEF AccountsInv
<1>3. CASE Abort
  <2>1. phase' = "ABORTED" /\ UNCHANGED <<completion, pc>>
    BY <1>3 DEF Abort, requestVars
  <2>2. Paid' = Paid
    BY <2>1 DEF Paid
  <2> QED
    BY <2>1, <2>2 DEF AccountsInv
<1> QED
  BY <1>1, <1>2, <1>3, StrikesBalance, AnswerBalances

LEMMA AccountsInit == Init => AccountsInv
<1> SUFFICES ASSUME Init PROVE AccountsInv
  OBVIOUS
<1>1. /\ completion = [r \in Requests |-> 0] /\ pc = [r \in Requests |-> "idle"]
      /\ rollback_count = 0 /\ rollback_dropped = 0
  BY DEF Init
<1>2. Paid = {}
  BY <1>1 DEF Paid
<1>3. \A r \in Requests : completion[r] = 0 /\ Shares[r] = 0
  BY <1>1 DEF Shares, Share
<1>4. DOMAIN completion = Requests /\ DOMAIN Shares = Requests
  BY <1>1 DEF Shares
<1>5. Total(completion) = 0 /\ Total(Shares) = 0 /\ IsFiniteSet(Units(completion))
  BY <1>3, <1>4, TotalZero
<1>6. Kept(Shares) = {}
  BY <1>3 DEF Kept
<1> QED
  BY <1>1, <1>2, <1>5, <1>6, FS_EmptySet DEF AccountsInv

\* TrainableConservation is what the books say.
LEMMA ConservationNow ==
  SessionInv /\ AccountsInv => TrainableConservation
<1> SUFFICES ASSUME SessionInv, AccountsInv, phase # "ABORTED"
             PROVE  /\ Total(completion)
                         = Total([r \in Requests |-> Surviving(r)]) + rollback_dropped
                    /\ \A r \in Requests : Surviving(r) \in {0, completion[r]}
                    /\ Cardinality({r \in Requests : pc[r] = "ok"})
                         = Cardinality({r \in Requests : Surviving(r) > 0}) + rollback_count
  BY DEF TrainableConservation
<1>1. \A r \in Requests : Surviving(r) = Share(r)
  BY SurvivingIsShare
<1>2. [r \in Requests |-> Surviving(r)] = Shares
  BY <1>1 DEF Shares
<1>3. {r \in Requests : Surviving(r) > 0} = Kept(Shares)
  BY <1>1 DEF Kept, Shares
<1>4. \A r \in Requests : Surviving(r) \in {0, completion[r]}
  BY <1>1 DEF Share
<1> QED
  BY <1>2, <1>3, <1>4 DEF AccountsInv, Paid

\* Every token the backend generated for an answered request is trainable in one
\* place, or counted as rolled back: none is lost and none is trained twice,
\* through every interleaving of commits, rollbacks and closings (session.py
\* 218-366, 384-530, 668-814).
THEOREM ConservationCorrect == Spec => []TrainableConservation
BY ConservationNow, SessionInit, SessionStep, AccountsInit, AccountsStep, NextIsStep, PTL
   DEF Spec

-----------------------------------------------------------------------------
(* The session implements TurnLedger.                                      *)

\* What the refinement mapping makes of the ledger.
LEMMA LedgerIsShares == SessionInv => [r \in Requests |-> Surviving(r)] = Shares
<1> SUFFICES ASSUME SessionInv PROVE [r \in Requests |-> Surviving(r)] = Shares
  OBVIOUS
<1>1. \A q \in Requests : Surviving(q) = Share(q)
  BY SurvivingIsShare
<1> QED
  BY <1>1 DEF Shares

\* A step's rollbacks strike at most one turn, which had tokens.
LEMMA StruckIsStrike ==
  ASSUME SessionInv, IsFiniteSet(Units(completion)), IsFiniteSet(Paid), NEW gone, Struck(gone)
  PROVE  gone \in SUBSET Requests /\ gone \subseteq Kept(Shares) /\ Cardinality(gone) <= 1
<1>1. Kept(Shares) = {q \in Requests : Home(q)}
  BY SharesType
<1>2. gone = {} \/ \E v \in Requests : gone = {v}
  BY DEF Struck
<1>3. Cardinality({}) = 0 /\ \A v : Cardinality({v}) = 1
  BY FS_EmptySet, FS_Singleton
<1>4. Cardinality(gone) <= 1
  BY <1>2, <1>3
<1> QED
  BY <1>1, <1>4 DEF Struck

\* A step that answers nobody withdraws at most one turn (session.py 716-747).
LEMMA StrikesIsWithdraw ==
  ASSUME SessionInv, AccountsInv, Strikes
  PROVE  /\ phase' = phase /\ Paid' = Paid
         /\ [r \in Requests |-> Delivered(r)]' = [r \in Requests |-> Delivered(r)]
         /\ \E gone \in SUBSET Requests :
              /\ gone \subseteq Kept(Shares) /\ Cardinality(gone) <= 1
              /\ phase # "ACTIVE" => gone = {}
              /\ Shares' = [u \in Requests |-> IF u \in gone THEN 0 ELSE Shares[u]]
<1>1. PICK gone : /\ Struck(gone)
                  /\ phase # "ACTIVE" => gone = {}
                  /\ \A q \in Requests : Home(q)' <=> Home(q) /\ q \notin gone
  BY DEF Strikes
<1>2. /\ completion' = completion /\ phase' = phase /\ returned' = returned
      /\ \A q \in Requests : pc'[q] = "ok" <=> pc[q] = "ok"
  BY DEF Strikes
<1>3. gone \in SUBSET Requests /\ gone \subseteq Kept(Shares) /\ Cardinality(gone) <= 1
  BY <1>1, StruckIsStrike DEF AccountsInv
<1>4. Shares' = [u \in Requests |-> IF u \in gone THEN 0 ELSE Shares[u]]
  BY <1>1, <1>2 DEF Shares, Share
<1>5. Paid' = Paid /\ [r \in Requests |-> Delivered(r)]' = [r \in Requests |-> Delivered(r)]
  BY <1>2 DEF Paid, Delivered
<1> QED
  BY <1>1, <1>2, <1>3, <1>4, <1>5

\* A commit enters its turn and strikes at most one (session.py 299-323).
LEMMA AnswerIsAnswer ==
  ASSUME SessionInv, AccountsInv, NEW r \in Requests, AnswersTurn(r)
  PROVE  /\ phase = "ACTIVE" /\ phase' = phase /\ r \notin Paid /\ Paid' = Paid \cup {r}
         /\ [q \in Requests |-> Delivered(q)]' = [q \in Requests |-> Delivered(q)]
         /\ Shares'[r] > 0
         /\ \E gone \in SUBSET Requests :
              /\ gone \subseteq Kept(Shares) /\ Cardinality(gone) <= 1
              /\ Shares' = [u \in Requests |-> IF u = r THEN Shares'[r]
                                               ELSE IF u \in gone THEN 0 ELSE Shares[u]]
<1>1. PICK gone : /\ Struck(gone)
                  /\ \A q \in Requests : Home(q)' <=> q = r \/ (Home(q) /\ q \notin gone)
  BY DEF AnswersTurn
<1>2. PICK k \in Nat \ {0} : completion' = [completion EXCEPT ![r] = k]
  BY DEF AnswersTurn
<1>3. /\ phase = "ACTIVE" /\ phase' = phase /\ returned' = returned
      /\ pc' = [pc EXCEPT ![r] = "ok"] /\ pc[r] # "ok"
  BY DEF AnswersTurn
<1>4. completion \in [Requests -> Nat] /\ pc = [q \in Requests |-> pc[q]]
  BY DEF SessionInv, TypeInv, TypeOK
<1>5. gone \in SUBSET Requests /\ gone \subseteq Kept(Shares) /\ Cardinality(gone) <= 1
  BY <1>1, StruckIsStrike, <1>3 DEF AccountsInv
<1>6. Paid' = Paid \cup {r} /\ r \notin Paid
  BY <1>3, <1>4 DEF Paid
<1>7. [q \in Requests |-> Delivered(q)]' = [q \in Requests |-> Delivered(q)]
  BY <1>3 DEF Delivered
<1>8. Home(r)' /\ completion'[r] = k /\ Shares'[r] = k
  BY <1>1, <1>2, <1>4 DEF Shares, Share
<1>9. \A q \in Requests : q # r => Shares'[q] = IF q \in gone THEN 0 ELSE Shares[q]
  <2> SUFFICES ASSUME NEW q \in Requests, q # r
               PROVE  Shares'[q] = IF q \in gone THEN 0 ELSE Shares[q]
    OBVIOUS
  <2>1. completion'[q] = completion[q] /\ (Home(q)' <=> Home(q) /\ q \notin gone)
    BY <1>1, <1>2, <1>4
  <2> QED
    BY <2>1 DEF Shares, Share
<1>10. Shares' = [u \in Requests |-> Shares'[u]]
  BY DEF Shares
<1>11. Shares' = [u \in Requests |-> IF u = r THEN Shares'[r]
                                     ELSE IF u \in gone THEN 0 ELSE Shares[u]]
  BY <1>9, <1>10
<1> QED
  BY <1>3, <1>5, <1>6, <1>7, <1>8, <1>11

LEMMA StrikeIs ==
  ASSUME NEW gone,
         gone \subseteq {t \in Requests : [r \in Requests |-> Surviving(r)][t] > 0},
         Cardinality(gone) <= 1
  PROVE  Ledger!Strike(gone)
BY DEF Ledger!Strike, Ledger!Cardinality, Cardinality

\* A step of the session is a step of the ledger, or none.
LEMMA StepIsLedgerStep ==
  ASSUME SessionInv, SessionInv', AccountsInv, [Step]_vars,
         [r \in Requests |-> Surviving(r)] = Shares,
         [r \in Requests |-> Surviving(r)]' = Shares'
  PROVE  [Ledger!Next]_(Ledger!vars)
<1> DEFINE D == [r \in Requests |-> Delivered(r)]
           L == [r \in Requests |-> Surviving(r)]
<1>1. Strikes \/ (\E r \in Requests : AnswersTurn(r)) \/ Finalize \/ Abort
  BY LedgerStep
<1>2. Kept(Shares) = {t \in Requests : Shares[t] > 0}
  BY DEF Kept
<1>3. CASE Strikes
  <2>1. /\ phase' = phase /\ Paid' = Paid /\ D' = D
        /\ \E gone \in SUBSET Requests :
              /\ gone \subseteq Kept(Shares) /\ Cardinality(gone) <= 1
              /\ phase # "ACTIVE" => gone = {}
              /\ Shares' = [u \in Requests |-> IF u \in gone THEN 0 ELSE Shares[u]]
    BY <1>3, StrikesIsWithdraw
  <2>2. CASE phase = "ACTIVE"
    <3>1. PICK gone \in SUBSET Requests :
            /\ gone \subseteq {t \in Requests : Shares[t] > 0} /\ Cardinality(gone) <= 1
            /\ Shares' = [u \in Requests |-> IF u \in gone THEN 0 ELSE Shares[u]]
      BY <1>2, <2>1
    <3>2. /\ gone \subseteq {t \in Requests : L[t] > 0} /\ Cardinality(gone) <= 1
          /\ L' = [u \in Requests |-> IF u \in gone THEN 0 ELSE L[u]]
      BY <3>1
    <3>3. Ledger!Strike(gone)
      BY <3>2, StrikeIs
    <3>4. \E g \in SUBSET Requests :
            Ledger!Strike(g) /\ L' = [u \in Requests |-> IF u \in g THEN 0 ELSE L[u]]
      BY <3>2, <3>3
    <3>5. Ledger!Withdraw
      BY <2>1, <2>2, <3>4 DEF Ledger!Withdraw, Paid
    <3> QED
      BY <3>5 DEF Ledger!Next
  <2>3. CASE phase # "ACTIVE"
    <3>1. Shares' = Shares
      BY <2>1, <2>3 DEF Shares
    <3> QED
      BY <2>1, <3>1 DEF Ledger!vars, Paid
  <2> QED
    BY <2>2, <2>3
<1>4. ASSUME NEW r \in Requests, AnswersTurn(r) PROVE Ledger!Answer(r)
  <2>1. /\ phase = "ACTIVE" /\ phase' = phase /\ r \notin Paid /\ Paid' = Paid \cup {r}
         /\ D' = D
         /\ Shares'[r] > 0
         /\ \E gone \in SUBSET Requests :
              /\ gone \subseteq Kept(Shares) /\ Cardinality(gone) <= 1
              /\ Shares' = [u \in Requests |-> IF u = r THEN Shares'[r]
                                               ELSE IF u \in gone THEN 0 ELSE Shares[u]]
    BY <1>4, AnswerIsAnswer
  <2>2. PICK gone \in SUBSET Requests :
            /\ gone \subseteq {t \in Requests : Shares[t] > 0} /\ Cardinality(gone) <= 1
            /\ Shares' = [u \in Requests |-> IF u = r THEN Shares'[r]
                                               ELSE IF u \in gone THEN 0 ELSE Shares[u]]
    BY <1>2, <2>1
  <2>3. /\ gone \subseteq {t \in Requests : L[t] > 0} /\ Cardinality(gone) <= 1
        /\ L' = [u \in Requests |-> IF u = r THEN L'[r]
                                      ELSE IF u \in gone THEN 0 ELSE L[u]]
        /\ L'[r] > 0
    BY <2>1, <2>2
  <2>4. Ledger!Strike(gone)
    BY <2>3, StrikeIs
  <2>5. \E g \in SUBSET Requests :
          /\ Ledger!Strike(g) /\ L'[r] > 0
          /\ L' = [u \in Requests |-> IF u = r THEN L'[r]
                                       ELSE IF u \in g THEN 0 ELSE L[u]]
    BY <2>3, <2>4
  <2> QED
    BY <2>1, <2>5 DEF Ledger!Answer, Paid
<1>5. CASE Finalize
  <2>1. /\ \A q \in Requests : Home(q)' <=> Home(q)
        /\ completion' = completion /\ pc' = pc
        /\ phase = "ACTIVE" /\ phase' = "FINALIZED"
    BY <1>5, FinalizeMoves DEF requestVars
  <2>2. Shares' = Shares /\ Paid' = Paid
    BY <2>1 DEF Shares, Share, Paid
  <2>3. \A q \in Requests : Delivered(q)' = Share(q)'
    BY <1>5, FinalizeDelivers
  <2>4. D' = Shares'
    BY <2>3 DEF Shares
  <2>5. Ledger!Finalize
    BY <2>1, <2>2, <2>4 DEF Ledger!Finalize, Paid
  <2> QED
    BY <2>5 DEF Ledger!Next
<1>6. CASE Abort
  <2>1. /\ \A q \in Requests : ~Home(q)'
        /\ completion' = completion /\ pc' = pc /\ returned' = returned
        /\ phase = "ACTIVE" /\ phase' = "ABORTED"
    BY <1>6, AbortEmpties DEF requestVars
  <2>2. Shares' = [t \in Requests |-> 0]
    BY <2>1 DEF Shares, Share
  <2>3. Paid' = Paid /\ D' = D
    BY <2>1 DEF Paid, Delivered
  <2>4. Ledger!Abort
    BY <2>1, <2>2, <2>3 DEF Ledger!Abort, Ledger!Nothing, Paid
  <2> QED
    BY <2>4 DEF Ledger!Next
<1> QED
  BY <1>1, <1>3, <1>4, <1>5, <1>6 DEF Ledger!Next

\* A new session is an empty ledger.
LEMMA InitIsLedgerInit == Init => Ledger!Init
<1> SUFFICES ASSUME Init PROVE Ledger!Init
  OBVIOUS
<1>1. SessionInv
  BY SessionInit
<1>2. [r \in Requests |-> Surviving(r)] = Shares
  BY <1>1, LedgerIsShares
<1>3. /\ completion = [r \in Requests |-> 0] /\ pc = [r \in Requests |-> "idle"]
      /\ phase = "ACTIVE" /\ returned = << >>
  BY DEF Init
<1>4. Shares = [r \in Requests |-> 0] /\ Paid = {}
  BY <1>3 DEF Shares, Share, Paid
<1>5. ASSUME NEW r \in Requests PROVE Delivered(r) = 0
  <2> DEFINE f == [i \in DOMAIN returned |-> TrainableFrom(returned[i].buffer, r)]
  <2>1. Delivered(r) = Total(f)
    BY DEF Delivered
  <2>2. DOMAIN f = {}
    BY <1>3
  <2> HIDE DEF f
  <2> QED
    BY <2>1, <2>2, TotalZero
<1> QED
  BY <1>2, <1>3, <1>4, <1>5 DEF Ledger!Init, Ledger!Nothing, Paid

Balanced == /\ SessionInv /\ AccountsInv
            /\ [r \in Requests |-> Surviving(r)] = Shares

\* The session implements TurnLedger: however its chains branch, roll back and
\* close, each answer enters one turn, at most one is struck out with it, and
\* finalize delivers each turn of the ledger once (session.py 218-366).
THEOREM LedgerImplemented == Spec => ImplementsTurnLedger
<1>1. Init => Balanced
  BY SessionInit, AccountsInit, LedgerIsShares DEF Balanced
<1>2. Balanced /\ [Step]_vars => SessionInv' /\ AccountsInv'
  BY SessionStep, AccountsStep DEF Balanced
<1>3. (SessionInv /\ AccountsInv => Balanced)
  BY LedgerIsShares DEF Balanced
<1>4. Spec => []Balanced
  BY <1>1, <1>2, <1>3, NextIsStep, PTL DEF Spec
<1>5. Balanced /\ Balanced' /\ [Step]_vars => [Ledger!Next]_(Ledger!vars)
  BY StepIsLedgerStep DEF Balanced
<1>6. Init => Ledger!Init
  BY InitIsLedgerInit
<1>7. Spec => Ledger!Spec
  BY <1>4, <1>5, <1>6, NextIsStep, PTL DEF Spec, Ledger!Spec
<1> QED
  BY <1>7 DEF ImplementsTurnLedger
=============================================================================

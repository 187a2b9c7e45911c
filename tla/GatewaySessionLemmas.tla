----------------------- MODULE GatewaySessionLemmas -----------------------
(***************************************************************************)
(* What the operators of GatewaySession return: types and lengths of token *)
(* sequences and buffers (the first half), and what the tokens of a buffer *)
(* say and whose they are (the second): BufferSound relates the parallel   *)
(* lists of a buffer, Says reads the messages off its tokens, and both are *)
(* preserved by encoding, generating and cutting.  Recursive definitions   *)
(* cannot be reasoned about here, so a subsequence is described by the     *)
(* positions it picks (Selects) and compared by counting them.             *)
(***************************************************************************)
EXTENDS GatewaySessionProps, TLAPS, FiniteSetTheorems, SequenceTheorems

\* The parallel arrays of a buffer are equally long (session.py 645-649).
Aligned(b) ==
  /\ Len(b.response_mask) = Len(b.response_ids)
  /\ Logprobs => Len(b.response_logprobs) = Len(b.response_ids)

-----------------------------------------------------------------------------
(* Sequences.                                                              *)

\* A prefix of a sequence (every Python slice s[:n] of session.py).
LEMMA TakeType ==
  ASSUME NEW S, NEW s \in Seq(S), NEW n \in 0..Len(s)
  PROVE  Take(s, n) \in Seq(S) /\ Len(Take(s, n)) = n
<1>1. \A i \in 1..n : s[i] \in S
  BY ElementOfSeq, LenProperties
<1>2. n \in Int /\ Len(s) \in Nat
  BY LenProperties
<1> QED
  BY <1>1, <1>2, SubSeqProperties DEF Take

\* Repeat(x, n), the [x] * n of session.py 278 and 471.
LEMMA RepeatType ==
  ASSUME NEW x, NEW n \in Nat, NEW S, x \in S
  PROVE  Repeat(x, n) \in Seq(S) /\ Len(Repeat(x, n)) = n
BY DEF Repeat

\* A rendering for inference has one token per message and the prompt suffix
\* (codec.py 210-227).
LEMMA encode_fullType ==
  ASSUME NEW messages \in Seq(Messages), SessionAssumption
  PROVE  /\ encode_full(messages) \in Seq(Token)
         /\ Len(encode_full(messages)) = Len(messages) + 1
<1>1. Len(messages) \in Nat /\ \A i \in 1..Len(messages) : messages[i] \in Messages
  BY ElementOfSeq, LenProperties
<1>2. Render(messages) \in Seq(Token) /\ Len(Render(messages)) = Len(messages)
  BY <1>1 DEF Render, Context, Token
<1>3. Context(GenPrompt) \in Token
  BY DEF Context, Token
<1> QED
  BY <1>2, <1>3 DEF encode_full

\* The rendering of a continuation (codec.py 229-274).
LEMMA encode_incrementalType ==
  ASSUME NEW messages \in Seq(Messages), SessionAssumption
  PROVE  encode_incremental(messages) \in Seq(Token)
BY encode_fullType DEF encode_incremental

\* A backend answer is a sequence of tokens of its length, at least one.
LEMMA GeneratedType ==
  ASSUME SessionAssumption, NEW r \in Requests, NEW o \in Outputs
  PROVE  /\ Generated(r, o) \in Seq(Token)
         /\ Len(Generated(r, o)) = OutLen[o] /\ OutLen[o] \in Nat \ {0}
<1> DEFINE token(i) == [text |-> IF i = 1 THEN o ELSE Pad, src |-> r]
<1>1. OutLen[o] \in Nat \ {0} /\ o \in Messages
  BY DEF SessionAssumption
<1>2. \A i \in 1..OutLen[o] : token(i) \in Token
  BY <1>1 DEF Token
<1>3. Generated(r, o) = [i \in 1..OutLen[o] |-> token(i)]
  BY DEF Generated
<1> HIDE DEF token
<1> QED
  BY <1>1, <1>2, <1>3

\* The number of trainable tokens is a number.
LEMMA OnesType ==
  ASSUME NEW mask, Len(mask) \in Nat, NEW from \in Nat
  PROVE  Ones(mask, from) \in Nat
<1> DEFINE I == {i \in from..Len(mask) : mask[i] = 1}
<1>1. IsFiniteSet(from..Len(mask))
  BY FS_Interval
<1>2. I \in SUBSET (from..Len(mask))
  OBVIOUS
<1>3. IsFiniteSet(I)
  BY <1>1, <1>2, FS_Subset
<1> QED
  BY <1>3, FS_CardinalityType DEF Ones
-----------------------------------------------------------------------------
(* Buffers.                                                                *)

LEMMA EmptyBufferType == EmptyBuffer \in TrajectoryBuffer /\ Aligned(EmptyBuffer)
<1>1. \A S : << >> \in Seq(S)
  BY EmptySeq
<1> QED
  BY <1>1 DEF EmptyBuffer, TrajectoryBuffer, Aligned

LEMMA NotEncodedType ==
  ASSUME SessionAssumption PROVE NotEncoded \in EncodedData
<1>1. (CHOOSE t \in Tools : TRUE) \in Tools
  BY DEF SessionAssumption
<1> QED
  BY <1>1, EmptyBufferType, EmptySeq
     DEF NotEncoded, EncodedData, LastAssistantStart

\* Appending one mark per token.
LEMMA MarkedType ==
  ASSUME NEW s \in Seq({0, 1}), NEW mark \in {0, 1}, NEW n \in Nat
  PROVE  /\ s \o Repeat(mark, n) \in Seq({0, 1})
         /\ Len(s \o Repeat(mark, n)) = Len(s) + n
<1>1. Repeat(mark, n) \in Seq({0, 1}) /\ Len(Repeat(mark, n)) = n
  BY RepeatType
<1> QED
  BY <1>1, ConcatProperties

\* Appending tokens keeps a buffer aligned and adds to its response only
\* (session.py 270-289, 470-475).
LEMMA ExtendedType ==
  ASSUME NEW b \in TrajectoryBuffer, Aligned(b), NEW ids \in Seq(Token),
         NEW mark \in {0, 1}, NEW versions \in Seq(Requests)
  PROVE  /\ Extended(b, ids, mark, versions) \in TrajectoryBuffer
         /\ Aligned(Extended(b, ids, mark, versions))
         /\ Extended(b, ids, mark, versions).prompt_ids = b.prompt_ids
         /\ Len(Extended(b, ids, mark, versions).response_ids)
              = Len(b.response_ids) + Len(ids)
         /\ Extended(b, ids, mark, versions).generation_versions = versions
<1> DEFINE mask == b.response_mask \o Repeat(mark, Len(ids))
           lps  == b.response_logprobs \o Repeat(mark, Len(ids))
<1>1. /\ b.response_ids \in Seq(Token) /\ b.response_mask \in Seq({0, 1})
      /\ b.response_logprobs \in Seq({0, 1}) /\ b.prompt_ids \in Seq(Token)
  BY DEF TrajectoryBuffer
<1>2. Len(ids) \in Nat
  BY LenProperties
<1>3. /\ b.response_ids \o ids \in Seq(Token)
      /\ Len(b.response_ids \o ids) = Len(b.response_ids) + Len(ids)
  BY <1>1, ConcatProperties
<1>4. mask \in Seq({0, 1}) /\ Len(mask) = Len(b.response_mask) + Len(ids)
  BY <1>1, <1>2, MarkedType
<1>5. lps \in Seq({0, 1}) /\ Len(lps) = Len(b.response_logprobs) + Len(ids)
  BY <1>1, <1>2, MarkedType
<1> HIDE DEF mask, lps
<1>6. Extended(b, ids, mark, versions) =
        [prompt_ids |-> b.prompt_ids, response_ids |-> b.response_ids \o ids,
         response_mask |-> mask,
         response_logprobs |-> IF Logprobs THEN lps ELSE b.response_logprobs,
         generation_versions |-> versions]
  BY DEF Extended, mask, lps
<1>7. Extended(b, ids, mark, versions) \in TrajectoryBuffer
  BY <1>1, <1>3, <1>4, <1>5, <1>6 DEF TrajectoryBuffer
<1>8. Aligned(Extended(b, ids, mark, versions))
  <2>1. /\ Len(mask) = Len(b.response_ids) + Len(ids)
        /\ Logprobs => Len(lps) = Len(b.response_ids) + Len(ids)
    BY <1>4, <1>5 DEF Aligned
  <2> QED
    BY <1>3, <1>6, <2>1 DEF Aligned
<1> QED
  BY <1>3, <1>6, <1>7, <1>8

\* A commit adds one version mark.
LEMMA AddGenerationType ==
  ASSUME NEW b \in TrajectoryBuffer, Aligned(b), NEW r \in Requests,
         NEW ids \in Seq(Token)
  PROVE  /\ AddGeneration(b, r, ids) \in TrajectoryBuffer
         /\ Aligned(AddGeneration(b, r, ids))
         /\ AddGeneration(b, r, ids).prompt_ids = b.prompt_ids
         /\ Len(AddGeneration(b, r, ids).response_ids) = Len(b.response_ids) + Len(ids)
         /\ Len(AddGeneration(b, r, ids).generation_versions) \in Nat \ {0}
<1>1. b.generation_versions \in Seq(Requests)
  BY DEF TrajectoryBuffer
<1>2. /\ Append(b.generation_versions, r) \in Seq(Requests)
      /\ Len(Append(b.generation_versions, r)) \in Nat \ {0}
  BY <1>1
<1> QED
  BY <1>2, ExtendedType DEF AddGeneration

\* Continuation context adds none.
LEMMA AddContextType ==
  ASSUME NEW b \in TrajectoryBuffer, Aligned(b), NEW ids \in Seq(Token)
  PROVE  /\ AddContext(b, ids) \in TrajectoryBuffer
         /\ Aligned(AddContext(b, ids))
         /\ AddContext(b, ids).prompt_ids = b.prompt_ids
         /\ Len(AddContext(b, ids).response_ids) = Len(b.response_ids) + Len(ids)
<1>1. b.generation_versions \in Seq(Requests)
  BY DEF TrajectoryBuffer
<1> QED
  BY <1>1, ExtendedType DEF AddContext

\* A rollback keeps a buffer aligned and never makes it longer (416-447).
LEMMA CutLastAssistantType ==
  ASSUME NEW b \in TrajectoryBuffer, Aligned(b), NEW n \in 0..Len(b.response_ids),
         EndsWithPrefix(b, n), Len(b.generation_versions) \in Nat \ {0}
  PROVE  /\ CutLastAssistant(b, n) \in TrajectoryBuffer
         /\ Aligned(CutLastAssistant(b, n))
         /\ Len(CutLastAssistant(b, n).prompt_ids) <= Len(b.prompt_ids)
         /\ Len(CutLastAssistant(b, n).response_ids) <= n
<1> DEFINE m == IF n = 0 THEN 0 ELSE n - 1
           cut == CutLastAssistant(b, n)
<1>1. /\ b.response_ids \in Seq(Token) /\ b.response_mask \in Seq({0, 1})
      /\ b.response_logprobs \in Seq({0, 1}) /\ b.prompt_ids \in Seq(Token)
      /\ b.generation_versions \in Seq(Requests)
  BY DEF TrajectoryBuffer
<1>2. /\ Len(b.response_ids) \in Nat /\ Len(b.prompt_ids) \in Nat
      /\ m \in 0..Len(b.response_ids) /\ m <= n
  BY <1>1, LenProperties
<1>3. /\ Take(b.response_ids, m) \in Seq(Token)
      /\ Len(Take(b.response_ids, m)) = m
  BY <1>1, <1>2, TakeType
<1>4. Take(b.response_mask, m) \in Seq({0, 1}) /\ Len(Take(b.response_mask, m)) = m
  <2>1. m \in 0..Len(b.response_mask)
    BY <1>2 DEF Aligned
  <2> HIDE DEF m
  <2> QED
    BY <1>1, <2>1, TakeType
<1>5. Logprobs => /\ Take(b.response_logprobs, m) \in Seq({0, 1})
                  /\ Len(Take(b.response_logprobs, m)) = m
  <2> SUFFICES ASSUME Logprobs
               PROVE  /\ Take(b.response_logprobs, m) \in Seq({0, 1})
                      /\ Len(Take(b.response_logprobs, m)) = m
    OBVIOUS
  <2>1. m \in 0..Len(b.response_logprobs)
    BY <1>2 DEF Aligned
  <2> HIDE DEF m
  <2> QED
    BY <1>1, <2>1, TakeType
<1>6. /\ cut.generation_versions \in Seq(Requests)
  <2>1. Len(b.generation_versions) - 1 \in 0..Len(b.generation_versions)
    OBVIOUS
  <2>2. Take(b.generation_versions, Len(b.generation_versions) - 1) \in Seq(Requests)
    BY <1>1, <2>1, TakeType
  <2> QED
    BY <2>2 DEF CutLastAssistant
<1>7. cut.prompt_ids \in Seq(Token) /\ Len(cut.prompt_ids) <= Len(b.prompt_ids)
  <2>1. CASE n = 0
    <3>1. b.prompt_ids # << >>
      BY <2>1 DEF EndsWithPrefix
    <3>2. Len(b.prompt_ids) - 1 \in 0..Len(b.prompt_ids)
      BY <3>1, <1>1, <1>2, EmptySeq
    <3>3. /\ Take(b.prompt_ids, Len(b.prompt_ids) - 1) \in Seq(Token)
          /\ Len(Take(b.prompt_ids, Len(b.prompt_ids) - 1)) = Len(b.prompt_ids) - 1
      BY <1>1, <3>2, TakeType
    <3> QED
      BY <2>1, <3>3, <1>2 DEF CutLastAssistant
  <2>2. CASE n # 0
    BY <2>2, <1>1, <1>2 DEF CutLastAssistant
  <2> QED
    BY <2>1, <2>2
<1>8. /\ cut.response_ids = Take(b.response_ids, m)
      /\ cut.response_mask = Take(b.response_mask, m)
      /\ cut.response_logprobs = IF Logprobs THEN Take(b.response_logprobs, m) ELSE << >>
      /\ cut = [prompt_ids |-> cut.prompt_ids, response_ids |-> cut.response_ids,
                response_mask |-> cut.response_mask,
                response_logprobs |-> cut.response_logprobs,
                generation_versions |-> cut.generation_versions]
  BY DEF CutLastAssistant
<1>9. cut.response_logprobs \in Seq({0, 1})
  <2> << >> \in Seq({0, 1})
    BY EmptySeq
  <2> QED
    BY <1>5, <1>8
<1> HIDE DEF m, cut
<1>10. cut \in TrajectoryBuffer /\ Aligned(cut)
  BY <1>3, <1>4, <1>5, <1>6, <1>7, <1>8, <1>9 DEF TrajectoryBuffer, Aligned
<1>11. Len(cut.response_ids) <= n
  BY <1>2, <1>3, <1>8
<1> QED
  BY <1>7, <1>10, <1>11 DEF cut
-----------------------------------------------------------------------------
(* Trajectories.                                                           *)

LEMMA MaterializedType ==
  ASSUME NEW b \in TrajectoryBuffer, NEW history, Len(history) \in Nat,
         DOMAIN history = 1..Len(history), NEW seq \in Nat,
         NEW reason \in {"none", "max_trajectory_length"}
  PROVE  Materialized(b, history, seq, reason) \in Trajectory
<1> DEFINE turns == {i \in DOMAIN history : history[i] \in User \cup Assistant}
<1>1. IsFiniteSet(1..Len(history))
  BY FS_Interval
<1>2. turns \in SUBSET (1..Len(history))
  OBVIOUS
<1>3. Cardinality(turns) \in Nat
  BY <1>1, <1>2, FS_Subset, FS_CardinalityType
<1> QED
  BY <1>3 DEF Materialized, Trajectory
-----------------------------------------------------------------------------
(* What a sequence selects from another (Picked and Selects), by ranks:    *)
(* the element at picked position i of s is at position                    *)
(* Cardinality(UpTo(s, K, i)) of what is selected.                         *)

\* The elements of a prefix.
LEMMA TakeElements ==
  ASSUME NEW S, NEW s \in Seq(S), NEW n \in 0..Len(s)
  PROVE  /\ Take(s, n) \in Seq(S) /\ Len(Take(s, n)) = n
         /\ \A i \in 1..n : Take(s, n)[i] = s[i]
<1>1. Len(s) \in Nat /\ n \in Int /\ 1 \in Int
  BY LenProperties
<1>2. \A i \in 1..n : s[i] \in S
  BY <1>1, ElementOfSeq
<1>3. \A i \in 1..(n - 1 + 1) : SubSeq(s, 1, n)[i] = s[1 + i - 1]
  BY <1>1, <1>2, SubSeqProperties
<1>4. \A i \in 1..n : i \in 1..(n - 1 + 1) /\ 1 + i - 1 = i
  BY <1>1
<1>5. \A i \in 1..n : SubSeq(s, 1, n)[i] = s[i]
  BY <1>3, <1>4
<1> QED
  BY <1>5, TakeType DEF Take

\* Of the picked positions, those up to position i.
UpTo(s, K, i) == {j \in Picked(s, K) : j <= i}

\* A set of positions, moved up by k ...
Shifted(T, k) == {k + j : j \in T}

\* ... has as many elements.
LEMMA ShiftedCardinality ==
  ASSUME NEW T \in SUBSET Nat, IsFiniteSet(T), NEW k \in Nat
  PROVE  IsFiniteSet(Shifted(T, k)) /\ Cardinality(Shifted(T, k)) = Cardinality(T)
<1> DEFINE f == [j \in T |-> k + j]
<1>1. f \in Bijection(T, Shifted(T, k))
  <2>1. f \in Injection(T, Shifted(T, k))
    BY DEF Injection, IsInjective, Shifted
  <2>2. f \in Surjection(T, Shifted(T, k))
    BY DEF Surjection, Shifted
  <2> QED
    BY <2>1, <2>2 DEF Bijection
<1>2. ExistsBijection(T, Shifted(T, k))
  BY <1>1 DEF ExistsBijection
<1> QED
  BY <1>2, FS_Bijection

\* What is picked are positions, finitely many.
LEMMA PickedType ==
  ASSUME NEW S, NEW s \in Seq(S), NEW K
  PROVE  /\ Picked(s, K) \subseteq 1..Len(s) /\ IsFiniteSet(Picked(s, K))
         /\ Cardinality(Picked(s, K)) \in Nat
         /\ \A i : UpTo(s, K, i) \subseteq Picked(s, K) /\ IsFiniteSet(UpTo(s, K, i))
<1>1. Len(s) \in Nat /\ DOMAIN s = 1..Len(s)
  BY LenProperties
<1>2. IsFiniteSet(1..Len(s))
  BY <1>1, FS_Interval
<1>3. Picked(s, K) \in SUBSET (1..Len(s))
  BY <1>1 DEF Picked
<1>4. IsFiniteSet(Picked(s, K))
  BY <1>2, <1>3, FS_Subset
<1>5. \A i : UpTo(s, K, i) \in SUBSET Picked(s, K)
  BY DEF UpTo
<1> QED
  BY <1>3, <1>4, <1>5, FS_Subset, FS_CardinalityType

\* The rank of a picked position.
LEMMA RankType ==
  ASSUME NEW S, NEW s \in Seq(S), NEW K, NEW i \in Picked(s, K)
  PROVE  Cardinality(UpTo(s, K, i)) \in 1..Cardinality(Picked(s, K))
<1>1. /\ UpTo(s, K, i) \in SUBSET Picked(s, K) /\ IsFiniteSet(UpTo(s, K, i))
      /\ IsFiniteSet(Picked(s, K)) /\ Picked(s, K) \subseteq 1..Len(s)
  BY PickedType
<1>2. i \in UpTo(s, K, i)
  BY <1>1, LenProperties DEF UpTo
<1>3. Cardinality(UpTo(s, K, i)) \in Nat /\ Cardinality(UpTo(s, K, i)) # 0
  BY <1>1, <1>2, FS_CardinalityType, FS_EmptySet
<1>4. Cardinality(UpTo(s, K, i)) <= Cardinality(Picked(s, K))
  BY <1>1, FS_Subset
<1>5. Cardinality(Picked(s, K)) \in Nat
  BY PickedType
<1> QED
  BY <1>3, <1>4, <1>5

\* Selects, in terms of UpTo.
LEMMA SelectsByRank ==
  ASSUME NEW m, NEW s, NEW K
  PROVE  Selects(m, s, K) <=>
           /\ Len(m) = Cardinality(Picked(s, K))
           /\ \A i \in Picked(s, K) : m[Cardinality(UpTo(s, K, i))] = s[i]
BY DEF Selects, UpTo

\* What is picked from a concatenation.
LEMMA PickedConcat ==
  ASSUME NEW S, NEW s \in Seq(S), NEW u \in Seq(S), NEW K
  PROVE  /\ Picked(s \o u, K) = Picked(s, K) \cup Shifted(Picked(u, K), Len(s))
         /\ Picked(s, K) \cap Shifted(Picked(u, K), Len(s)) = {}
         /\ Cardinality(Picked(s \o u, K))
              = Cardinality(Picked(s, K)) + Cardinality(Picked(u, K))
         /\ \A i \in Picked(s, K) : UpTo(s \o u, K, i) = UpTo(s, K, i)
         /\ \A j \in Picked(u, K) :
              Cardinality(UpTo(s \o u, K, Len(s) + j))
                = Cardinality(Picked(s, K)) + Cardinality(UpTo(u, K, j))
<1> DEFINE P == Picked(s, K)
           Q == Picked(u, K)
           k == Len(s)
<1>1. /\ k \in Nat /\ Len(u) \in Nat
      /\ DOMAIN s = 1..k /\ DOMAIN u = 1..Len(u)
  BY LenProperties
<1>2. /\ DOMAIN (s \o u) = 1..(k + Len(u))
      /\ \A i \in 1..k : (s \o u)[i] = s[i]
      /\ \A j \in 1..Len(u) : (s \o u)[k + j] = u[j]
  <2>1. s \o u \in Seq(S) /\ Len(s \o u) = k + Len(u)
    BY ConcatProperties
  <2>2. DOMAIN (s \o u) = 1..(k + Len(u))
    BY <2>1, LenProperties
  <2>3. \A i \in 1..(k + Len(u)) : (s \o u)[i] = IF i <= k THEN s[i] ELSE u[i - k]
    BY ConcatProperties
  <2>4. \A j \in 1..Len(u) : (s \o u)[k + j] = u[j]
    <3> SUFFICES ASSUME NEW j \in 1..Len(u) PROVE (s \o u)[k + j] = u[j]
      OBVIOUS
    <3>1. k + j \in 1..(k + Len(u)) /\ ~(k + j <= k) /\ (k + j) - k = j
      BY <1>1
    <3> QED
      BY <2>3, <3>1
  <2>5. \A i \in 1..k : i \in 1..(k + Len(u)) /\ i <= k
    BY <1>1
  <2> QED
    BY <2>2, <2>3, <2>4, <2>5
<1>3. P \subseteq 1..k /\ Q \subseteq 1..Len(u) /\ IsFiniteSet(P) /\ IsFiniteSet(Q)
  BY PickedType
<1>4. Picked(s \o u, K) = P \cup Shifted(Q, k)
  <2>1. ASSUME NEW i \in Picked(s \o u, K) PROVE i \in P \cup Shifted(Q, k)
    <3>1. i \in 1..(k + Len(u)) /\ (s \o u)[i] \in K
      BY <1>2 DEF Picked
    <3>2. CASE i <= k
      BY <1>1, <1>2, <3>1, <3>2 DEF Picked
    <3>3. CASE ~(i <= k)
      <4>1. i - k \in 1..Len(u) /\ k + (i - k) = i
        BY <1>1, <3>1, <3>3
      <4>2. i - k \in Q
        BY <1>1, <1>2, <3>1, <4>1 DEF Picked
      <4> QED
        BY <4>1, <4>2 DEF Shifted
    <3> QED
      BY <3>2, <3>3
  <2>2. P \subseteq Picked(s \o u, K)
    BY <1>1, <1>2 DEF Picked
  <2>3. ASSUME NEW j \in Q PROVE k + j \in Picked(s \o u, K)
    <3>1. j \in 1..Len(u) /\ u[j] \in K
      BY <1>1 DEF Picked
    <3>2. k + j \in 1..(k + Len(u)) /\ (s \o u)[k + j] = u[j]
      BY <1>1, <1>2, <3>1
    <3> QED
      BY <1>2, <3>1, <3>2 DEF Picked
  <2> QED
    BY <2>1, <2>2, <2>3 DEF Shifted
<1>5. \A T \in SUBSET Q : P \cap Shifted(T, k) = {}
  BY <1>1, <1>3 DEF Shifted
<1>6. ASSUME NEW T \in SUBSET Q
      PROVE  Cardinality(P \cup Shifted(T, k)) = Cardinality(P) + Cardinality(T)
  <2>1. IsFiniteSet(T) /\ T \subseteq Nat
    BY <1>1, <1>3, FS_Subset
  <2>2. IsFiniteSet(Shifted(T, k)) /\ Cardinality(Shifted(T, k)) = Cardinality(T)
    BY <1>1, <2>1, ShiftedCardinality
  <2>3. P \cap Shifted(T, k) = {}
    BY <1>5
  <2>4. /\ Cardinality(P) \in Nat /\ Cardinality(T) \in Nat
        /\ Cardinality(P \cup Shifted(T, k))
             = Cardinality(P) + Cardinality(Shifted(T, k)) - Cardinality(P \cap Shifted(T, k))
    BY <1>3, <2>1, <2>2, FS_Union, FS_CardinalityType
  <2>5. Cardinality(P \cap Shifted(T, k)) = 0
    BY <2>3, FS_EmptySet
  <2> QED
    BY <2>2, <2>4, <2>5
<1>7. \A i \in P : UpTo(s \o u, K, i) = UpTo(s, K, i)
  BY <1>1, <1>3, <1>4 DEF UpTo, Shifted
<1>8. ASSUME NEW j \in Q
      PROVE  Cardinality(UpTo(s \o u, K, k + j)) = Cardinality(P) + Cardinality(UpTo(u, K, j))
  <2>1. UpTo(u, K, j) \in SUBSET Q
    BY DEF UpTo
  <2>2. UpTo(s \o u, K, k + j) = P \cup Shifted(UpTo(u, K, j), k)
    BY <1>1, <1>3, <1>4 DEF UpTo, Shifted
  <2> QED
    BY <1>6, <2>1, <2>2
<1> QED
  BY <1>4, <1>5, <1>6, <1>7, <1>8

\* Lists of selected elements concatenate as the sequences do.
LEMMA SelectsConcat ==
  ASSUME NEW S, NEW s \in Seq(S), NEW u \in Seq(S), NEW K,
         NEW M, NEW m \in Seq(M), NEW n \in Seq(M),
         Selects(m, s, K), Selects(n, u, K)
  PROVE  Selects(m \o n, s \o u, K)
<1>1. /\ Len(m) = Cardinality(Picked(s, K)) /\ Len(n) = Cardinality(Picked(u, K))
      /\ \A i \in Picked(s, K) : m[Cardinality(UpTo(s, K, i))] = s[i]
      /\ \A i \in Picked(u, K) : n[Cardinality(UpTo(u, K, i))] = u[i]
  BY SelectsByRank
<1>2. /\ Len(m \o n) = Len(m) + Len(n) /\ Len(m) \in Nat /\ Len(n) \in Nat
      /\ \A i \in 1..(Len(m) + Len(n)) :
           (m \o n)[i] = IF i <= Len(m) THEN m[i] ELSE n[i - Len(m)]
  BY ConcatProperties, LenProperties
<1>3. /\ Picked(s \o u, K) = Picked(s, K) \cup Shifted(Picked(u, K), Len(s))
      /\ Cardinality(Picked(s \o u, K))
           = Cardinality(Picked(s, K)) + Cardinality(Picked(u, K))
      /\ \A i \in Picked(s, K) : UpTo(s \o u, K, i) = UpTo(s, K, i)
      /\ \A j \in Picked(u, K) :
           Cardinality(UpTo(s \o u, K, Len(s) + j))
             = Cardinality(Picked(s, K)) + Cardinality(UpTo(u, K, j))
  BY PickedConcat
<1>4. /\ \A i \in 1..Len(s) : (s \o u)[i] = s[i]
      /\ \A j \in 1..Len(u) : (s \o u)[Len(s) + j] = u[j]
  <2>1. /\ Len(s) \in Nat /\ Len(u) \in Nat
        /\ \A i \in 1..(Len(s) + Len(u)) :
             (s \o u)[i] = IF i <= Len(s) THEN s[i] ELSE u[i - Len(s)]
    BY ConcatProperties, LenProperties
  <2>2. \A j \in 1..Len(u) :
          Len(s) + j \in 1..(Len(s) + Len(u)) /\ ~(Len(s) + j <= Len(s)) /\ (Len(s) + j) - Len(s) = j
    BY <2>1
  <2>3. \A i \in 1..Len(s) : i \in 1..(Len(s) + Len(u)) /\ i <= Len(s)
    BY <2>1
  <2> QED
    BY <2>1, <2>2, <2>3
<1>5. ASSUME NEW i \in Picked(s, K)
      PROVE  (m \o n)[Cardinality(UpTo(s \o u, K, i))] = (s \o u)[i]
  <2>1. Cardinality(UpTo(s, K, i)) \in 1..Len(m)
    BY <1>1, RankType
  <2>2. i \in 1..Len(s)
    BY PickedType
  <2> DEFINE x == Cardinality(UpTo(s, K, i))
  <2>3. x \in 1..(Len(m) + Len(n)) /\ x <= Len(m)
    BY <1>2, <2>1
  <2> QED
    BY <1>1, <1>2, <1>3, <1>4, <2>2, <2>3
<1>6. ASSUME NEW j \in Picked(u, K)
      PROVE  (m \o n)[Cardinality(UpTo(s \o u, K, Len(s) + j))] = (s \o u)[Len(s) + j]
  <2> DEFINE x == Cardinality(UpTo(u, K, j))
  <2>1. x \in 1..Len(n)
    BY <1>1, RankType
  <2>2. j \in 1..Len(u)
    BY PickedType
  <2> HIDE DEF x
  <2>3. Len(m) + x \in 1..(Len(m) + Len(n)) /\ ~(Len(m) + x <= Len(m)) /\ (Len(m) + x) - Len(m) = x
    BY <1>2, <2>1
  <2>4. (m \o n)[Len(m) + x] = n[x]
    BY <1>2, <2>3
  <2>5. Cardinality(UpTo(s \o u, K, Len(s) + j)) = Len(m) + x
    BY <1>1, <1>3 DEF x
  <2> QED
    BY <1>1, <1>4, <2>2, <2>4, <2>5 DEF x
<1>7. \A i \in Picked(s \o u, K) :
        (m \o n)[Cardinality(UpTo(s \o u, K, i))] = (s \o u)[i]
  BY <1>3, <1>5, <1>6 DEF Shifted
<1>8. Len(m \o n) = Cardinality(Picked(s \o u, K))
  BY <1>1, <1>2, <1>3
<1> QED
  BY <1>7, <1>8, SelectsByRank

\* All of it is selected ...
LEMMA SelectsAll ==
  ASSUME NEW S, NEW s \in Seq(S), NEW K, \A i \in 1..Len(s) : s[i] \in K
  PROVE  Selects(s, s, K)
<1>1. Len(s) \in Nat /\ DOMAIN s = 1..Len(s)
  BY LenProperties
<1>2. Picked(s, K) = 1..Len(s)
  BY <1>1 DEF Picked
<1>3. ASSUME NEW i \in 1..Len(s) PROVE Cardinality(UpTo(s, K, i)) = i
  <2>1. UpTo(s, K, i) = 1..i
    BY <1>1, <1>2 DEF UpTo
  <2> QED
    BY <1>1, <2>1, FS_Interval
<1>4. Cardinality(Picked(s, K)) = Len(s)
  BY <1>1, <1>2, FS_Interval
<1> QED
  BY <1>2, <1>3, <1>4, SelectsByRank

\* ... or none of it ...
LEMMA SelectsNone ==
  ASSUME NEW S, NEW s \in Seq(S), NEW K, \A i \in 1..Len(s) : s[i] \notin K
  PROVE  Selects(<< >>, s, K)
<1>1. Picked(s, K) = {}
  BY LenProperties DEF Picked
<1>2. Len(<< >>) = 0
  OBVIOUS
<1> QED
  BY <1>1, <1>2, FS_EmptySet DEF Selects

\* ... or just its first element.
LEMMA SelectsFirst ==
  ASSUME NEW S, NEW s \in Seq(S), NEW K, s # << >>, s[1] \in K,
         \A i \in 2..Len(s) : s[i] \notin K
  PROVE  Selects(<<s[1]>>, s, K)
<1>1. Len(s) \in Nat \ {0} /\ DOMAIN s = 1..Len(s)
  BY LenProperties, EmptySeq
<1>2. Picked(s, K) = {1}
  BY <1>1 DEF Picked
<1>3. UpTo(s, K, 1) = {1}
  BY <1>2 DEF UpTo
<1>4. Len(<<s[1]>>) = 1 /\ <<s[1]>>[1] = s[1]
  OBVIOUS
<1>5. Cardinality({1}) = 1
  BY FS_Singleton
<1> QED
  BY <1>2, <1>3, <1>4, <1>5, SelectsByRank

\* A prefix of s lists a prefix of what s lists.
LEMMA SelectsTake ==
  ASSUME NEW S, NEW s \in Seq(S), NEW K, NEW M, NEW m \in Seq(M), Selects(m, s, K),
         NEW k \in 0..Len(s), NEW p, p = Cardinality({i \in Picked(s, K) : i <= k})
  PROVE  p \in 0..Len(m) /\ Selects(Take(m, p), Take(s, k), K)
<1> DEFINE t == Take(s, k)
<1>1. Len(s) \in Nat /\ k \in Nat /\ DOMAIN s = 1..Len(s)
  BY LenProperties
<1>2. t \in Seq(S) /\ Len(t) = k /\ \A i \in 1..k : t[i] = s[i]
  BY TakeElements
<1>3. DOMAIN t = 1..k
  BY <1>2, LenProperties
<1> HIDE DEF t
<1>4. Picked(t, K) = {i \in Picked(s, K) : i <= k}
  BY <1>1, <1>2, <1>3 DEF Picked
<1>5. Cardinality(Picked(t, K)) = p
  BY <1>4
<1>6. /\ Len(m) = Cardinality(Picked(s, K))
      /\ \A i \in Picked(s, K) : m[Cardinality(UpTo(s, K, i))] = s[i]
  BY SelectsByRank
<1>7. p \in 0..Len(m)
  <2>1. IsFiniteSet(Picked(s, K)) /\ Picked(t, K) \in SUBSET Picked(s, K)
    BY <1>4, PickedType
  <2> QED
    BY <1>5, <1>6, <2>1, FS_Subset, FS_CardinalityType
<1>8. Take(m, p) \in Seq(M) /\ Len(Take(m, p)) = p /\ \A i \in 1..p : Take(m, p)[i] = m[i]
  BY <1>7, TakeElements
<1>9. ASSUME NEW i \in Picked(t, K)
      PROVE  Take(m, p)[Cardinality(UpTo(t, K, i))] = t[i]
  <2>1. Cardinality(UpTo(t, K, i)) \in 1..p
    BY <1>2, <1>5, RankType
  <2>2. UpTo(t, K, i) = UpTo(s, K, i) /\ i \in Picked(s, K)
    BY <1>1, <1>2, <1>4, PickedType DEF UpTo
  <2>3. i \in 1..k
    BY <1>2, PickedType
  <2> QED
    BY <1>2, <1>6, <1>8, <2>1, <2>2, <2>3
<1> QED
  BY <1>5, <1>7, <1>8, <1>9, SelectsByRank DEF t

\* What s and m select, any part of it, is equally much.
LEMMA SelectsCount ==
  ASSUME NEW S, NEW s \in Seq(S), NEW K, NEW M, NEW m \in Seq(M), Selects(m, s, K),
         NEW U, U \subseteq K
  PROVE  Cardinality(Picked(m, U)) = Cardinality(Picked(s, U))
<1> DEFINE P == Picked(s, K)
           rank == [i \in P |-> Cardinality(UpTo(s, K, i))]
<1>1. /\ Len(m) = Cardinality(P) /\ Len(m) \in Nat
      /\ \A i \in P : m[rank[i]] = s[i]
  BY SelectsByRank, LenProperties
<1>2. P \subseteq 1..Len(s) /\ IsFiniteSet(P) /\ Len(s) \in Nat
  BY PickedType, LenProperties
<1>3. rank \in [P -> 1..Len(m)]
  BY <1>1, RankType
<1>4. ASSUME NEW i \in P, NEW j \in P, i < j PROVE rank[i] < rank[j]
  <2>1. /\ UpTo(s, K, i) \in SUBSET UpTo(s, K, j)
        /\ j \in UpTo(s, K, j) \ UpTo(s, K, i)
    BY <1>2, <1>4 DEF UpTo
  <2>2. IsFiniteSet(UpTo(s, K, j))
    BY PickedType
  <2>3. /\ Cardinality(UpTo(s, K, i)) <= Cardinality(UpTo(s, K, j))
        /\ Cardinality(UpTo(s, K, i)) # Cardinality(UpTo(s, K, j))
    BY <2>1, <2>2, FS_Subset
  <2>4. /\ Cardinality(UpTo(s, K, i)) \in Nat
        /\ Cardinality(UpTo(s, K, j)) \in Nat
    BY <1>3
  <2> QED
    BY <2>3, <2>4
<1>5. rank \in Injection(P, 1..Len(m))
  <2>1. ASSUME NEW i \in P, NEW j \in P, rank[i] = rank[j] PROVE i = j
    <3>1. ~(i < j) /\ ~(j < i)
      BY <1>3, <1>4, <2>1
    <3> QED
      BY <1>2, <3>1
  <2> HIDE DEF rank, P
  <2> QED
    BY <1>3, <2>1 DEF Injection, IsInjective
<1>6. rank \in Surjection(P, 1..Len(m))
  <2>1. IsFiniteSet(1..Len(m)) /\ Cardinality(1..Len(m)) = Len(m)
    BY <1>1, FS_Interval
  <2> HIDE DEF rank, P
  <2> QED
    BY <1>1, <1>5, <2>1, FS_Injection
<1>7. Picked(s, U) = {i \in P : s[i] \in U}
  BY DEF Picked
<1>8. Picked(m, U) = {i \in 1..Len(m) : m[i] \in U}
  BY LenProperties DEF Picked
<1> DEFINE part == [i \in Picked(s, U) |-> rank[i]]
<1> HIDE DEF rank, P
<1>9. part \in Bijection(Picked(s, U), Picked(m, U))
  <2>1. part \in [Picked(s, U) -> Picked(m, U)]
    BY <1>1, <1>3, <1>7, <1>8
  <2>2. \A i, j \in Picked(s, U) : part[i] = part[j] => i = j
    BY <1>5, <1>7 DEF Injection, IsInjective
  <2>3. \A x \in Picked(m, U) : \E i \in Picked(s, U) : part[i] = x
    BY <1>1, <1>6, <1>7, <1>8 DEF Surjection
  <2> QED
    BY <2>1, <2>2, <2>3 DEF Bijection, Injection, Surjection, IsInjective
<1>10. ExistsBijection(Picked(s, U), Picked(m, U))
  BY <1>9 DEF ExistsBijection
<1>11. IsFiniteSet(Picked(s, U))
  BY PickedType
<1> QED
  BY <1>10, <1>11, FS_Bijection

USE SessionAssumption

-----------------------------------------------------------------------------
(* Sequences, cut and mapped.                                              *)

\* A slice to the end, as session.py takes of the messages (446, 449).
Drop(s, n) == SubSeq(s, n + 1, Len(s))

\* A list is its slice s[:n] followed by s[n:].
LEMMA TakeDrop ==
  ASSUME NEW S, NEW s \in Seq(S), NEW n \in 0..Len(s)
  PROVE  Drop(s, n) \in Seq(S) /\ s = Take(s, n) \o Drop(s, n)
<1>1. Len(s) \in Nat /\ n + 1 \in Int /\ \A i \in 1..Len(s) : s[i] \in S
  BY LenProperties, ElementOfSeq
<1>2. \A i \in (n + 1)..Len(s) : s[i] \in S
  BY <1>1
<1>3. /\ Drop(s, n) \in Seq(S)
      /\ Len(Drop(s, n)) = IF n + 1 <= Len(s) THEN Len(s) - (n + 1) + 1 ELSE 0
      /\ \A i \in 1..(Len(s) - (n + 1) + 1) : Drop(s, n)[i] = s[(n + 1) + i - 1]
  BY <1>1, <1>2, SubSeqProperties DEF Drop
<1>4. /\ Take(s, n) \in Seq(S) /\ Len(Take(s, n)) = n
      /\ \A i \in 1..n : Take(s, n)[i] = s[i]
  BY TakeElements
<1> DEFINE u == Take(s, n) \o Drop(s, n)
<1>5. /\ u \in Seq(S) /\ Len(u) = n + Len(Drop(s, n))
      /\ \A i \in 1..(n + Len(Drop(s, n))) :
           u[i] = IF i <= n THEN Take(s, n)[i] ELSE Drop(s, n)[i - n]
  BY <1>3, <1>4, ConcatProperties
<1> HIDE DEF u
<1>6. Len(Drop(s, n)) = Len(s) - n
  BY <1>1, <1>3
<1>7. Len(u) = Len(s)
  BY <1>1, <1>5, <1>6
<1>8. ASSUME NEW i \in 1..Len(s) PROVE u[i] = s[i]
  <2>1. CASE i <= n
    BY <2>1, <1>1, <1>4, <1>5, <1>6
  <2>2. CASE ~(i <= n)
    <3>1. i - n \in 1..(Len(s) - (n + 1) + 1) /\ (n + 1) + (i - n) - 1 = i
      BY <2>2, <1>1
    <3>2. Drop(s, n)[i - n] = s[i]
      BY <1>3, <3>1
    <3>3. i \in 1..(n + Len(Drop(s, n)))
      BY <1>1, <1>6
    <3> QED
      BY <2>2, <1>5, <3>2, <3>3
  <2> QED
    BY <2>1, <2>2
<1>9. u = s
  BY <1>5, <1>7, <1>8, SeqEqual
<1> QED
  BY <1>3, <1>9 DEF u

\* What was appended last is cut off again.
LEMMA TakeAppend ==
  ASSUME NEW S, NEW s \in Seq(S), NEW x \in S
  PROVE  Take(Append(s, x), Len(s)) = s
<1>1. Len(s) \in Nat
  BY LenProperties
<1>2. /\ Append(s, x) \in Seq(S) /\ Len(Append(s, x)) = Len(s) + 1
      /\ \A i \in 1..Len(s) : Append(s, x)[i] = s[i]
  OBVIOUS
<1>3. Len(s) \in 0..Len(Append(s, x))
  BY <1>1, <1>2
<1> DEFINE t == Append(s, x)
<1> HIDE DEF t
<1>4. t \in Seq(S) /\ Len(s) \in 0..Len(t) /\ \A i \in 1..Len(s) : t[i] = s[i]
  BY <1>2, <1>3 DEF t
<1>5. /\ Take(t, Len(s)) \in Seq(S) /\ Len(Take(t, Len(s))) = Len(s)
      /\ \A i \in 1..Len(s) : Take(t, Len(s))[i] = t[i]
  BY <1>4, TakeElements
<1>6. Take(t, Len(s)) = s
  BY <1>4, <1>5, SeqEqual
<1> QED
  BY <1>6 DEF t

\* F maps the elements of S to elements of X.
Maps(F, S, X) == F \in [S -> X]

Mapped(F, s) == [i \in DOMAIN s |-> F[s[i]]]

\* A list comprehension over the tokens keeps their number and order.
LEMMA MappedType ==
  ASSUME NEW S, NEW X, NEW F, Maps(F, S, X), NEW s \in Seq(S)
  PROVE  /\ Mapped(F, s) \in Seq(X) /\ Len(Mapped(F, s)) = Len(s)
         /\ \A i \in 1..Len(s) : Mapped(F, s)[i] = F[s[i]]
<1>1. Len(s) \in Nat /\ DOMAIN s = 1..Len(s) /\ \A i \in 1..Len(s) : s[i] \in S
  BY LenProperties, ElementOfSeq
<1>2. Mapped(F, s) = [i \in 1..Len(s) |-> F[s[i]]]
  BY <1>1 DEF Mapped
<1>3. \A i \in 1..Len(s) : F[s[i]] \in X
  BY <1>1 DEF Maps
<1> QED
  BY <1>1, <1>2, <1>3

LEMMA MappedConcat ==
  ASSUME NEW S, NEW X, NEW F, Maps(F, S, X), NEW s \in Seq(S), NEW u \in Seq(S)
  PROVE  Mapped(F, s \o u) = Mapped(F, s) \o Mapped(F, u)
<1> DEFINE su == s \o u
           ms == Mapped(F, s)
           mu == Mapped(F, u)
<1>1. /\ su \in Seq(S) /\ Len(su) = Len(s) + Len(u)
      /\ \A i \in 1..(Len(s) + Len(u)) : su[i] = IF i <= Len(s) THEN s[i] ELSE u[i - Len(s)]
      /\ Len(s) \in Nat /\ Len(u) \in Nat
  BY ConcatProperties, LenProperties
<1>2. /\ ms \in Seq(X) /\ Len(ms) = Len(s)
      /\ \A i \in 1..Len(s) : ms[i] = F[s[i]]
  BY MappedType
<1>3. /\ mu \in Seq(X) /\ Len(mu) = Len(u)
      /\ \A i \in 1..Len(u) : mu[i] = F[u[i]]
  BY MappedType
<1> HIDE DEF su, ms, mu
<1> DEFINE l == Mapped(F, su)
           r == ms \o mu
<1>4. /\ r \in Seq(X) /\ Len(r) = Len(s) + Len(u)
      /\ \A i \in 1..(Len(s) + Len(u)) : r[i] = IF i <= Len(s) THEN ms[i] ELSE mu[i - Len(s)]
  <2>1. ms \in Seq(X) /\ mu \in Seq(X)
    BY <1>2, <1>3
  <2>2. /\ r \in Seq(X) /\ Len(r) = Len(ms) + Len(mu)
        /\ \A i \in 1..(Len(ms) + Len(mu)) :
             r[i] = IF i <= Len(ms) THEN ms[i] ELSE mu[i - Len(ms)]
    BY <2>1, ConcatProperties
  <2> HIDE DEF r
  <2> QED
    BY <2>2, <1>2, <1>3
<1>5. l \in Seq(X) /\ Len(l) = Len(su) /\ \A i \in 1..Len(su) : l[i] = F[su[i]]
  <2>1. su \in Seq(S)
    BY <1>1
  <2> QED
    BY <2>1, MappedType
<1> HIDE DEF l, r
<1>6. ASSUME NEW i \in 1..Len(su) PROVE l[i] = r[i]
  <2>1. CASE i <= Len(s)
    <3>1. i \in 1..Len(s) /\ i \in 1..(Len(s) + Len(u))
      BY <2>1, <1>1
    <3> QED
      BY <2>1, <3>1, <1>1, <1>2, <1>4, <1>5
  <2>2. CASE ~(i <= Len(s))
    <3>1. i - Len(s) \in 1..Len(u) /\ i \in 1..(Len(s) + Len(u))
      BY <2>2, <1>1
    <3>2. su[i] = u[i - Len(s)]
      BY <2>2, <3>1, <1>1
    <3>3. r[i] = mu[i - Len(s)]
      BY <2>2, <3>1, <1>4
    <3>4. mu[i - Len(s)] = F[u[i - Len(s)]]
      BY <3>1, <1>3
    <3> QED
      BY <3>2, <3>3, <3>4, <1>5
  <2> QED
    BY <2>1, <2>2
<1>7. l = r
  BY <1>1, <1>4, <1>5, <1>6, SeqEqual
<1> QED
  BY <1>7 DEF su, l, r, ms, mu

LEMMA MappedTake ==
  ASSUME NEW S, NEW X, NEW F, Maps(F, S, X), NEW s \in Seq(S), NEW k \in 0..Len(s)
  PROVE  Mapped(F, Take(s, k)) = Take(Mapped(F, s), k)
<1> DEFINE t == Take(s, k)
           ms == Mapped(F, s)
<1>1. t \in Seq(S) /\ Len(t) = k /\ \A i \in 1..k : t[i] = s[i]
  BY TakeElements
<1>2. ms \in Seq(X) /\ Len(ms) = Len(s) /\ \A i \in 1..Len(s) : ms[i] = F[s[i]]
  BY MappedType
<1> HIDE DEF t, ms
<1>3. /\ Mapped(F, t) \in Seq(X) /\ Len(Mapped(F, t)) = k
      /\ \A i \in 1..k : Mapped(F, t)[i] = F[t[i]]
  BY <1>1, MappedType
<1>4. /\ Take(ms, k) \in Seq(X) /\ Len(Take(ms, k)) = k
      /\ \A i \in 1..k : Take(ms, k)[i] = ms[i]
  BY <1>2, TakeElements
<1>5. \A i \in 1..k : i \in 1..Len(s)
  BY LenProperties
<1>6. Mapped(F, t) = Take(ms, k)
  BY <1>1, <1>2, <1>3, <1>4, <1>5, SeqEqual
<1> QED
  BY <1>6 DEF t, ms

\* Cutting a sequence before the last element it selects.
LEMMA SelectsFront ==
  ASSUME NEW S, NEW s \in Seq(S), NEW K, NEW M, NEW m \in Seq(M), Selects(m, s, K),
         NEW j \in 1..Len(s), NEW k \in 0..(j - 1), s[j] \in K,
         \A i \in (k + 1)..Len(s) : i # j => s[i] \notin K
  PROVE  /\ Len(m) \in Nat \ {0}
         /\ Selects(Take(m, Len(m) - 1), Take(s, k), K)
         /\ m[Len(m)] = s[j]
<1> DEFINE P == {i \in Picked(s, K) : i <= k}
<1>1. /\ Picked(s, K) \subseteq 1..Len(s) /\ IsFiniteSet(Picked(s, K))
      /\ Len(s) \in Nat /\ DOMAIN s = 1..Len(s)
  BY PickedType, LenProperties
<1>2. Picked(s, K) = P \cup {j} /\ j \notin P
  BY <1>1 DEF Picked
<1>3. IsFiniteSet(P) /\ Cardinality(P) \in Nat
  <2>1. P \in SUBSET Picked(s, K)
    OBVIOUS
  <2> QED
    BY <1>1, <2>1, FS_Subset, FS_CardinalityType
<1>4. Cardinality(Picked(s, K)) = Cardinality(P) + 1
  BY <1>2, <1>3, FS_AddElement
<1>5. Len(m) = Cardinality(P) + 1
  BY <1>4 DEF Selects
<1>6. Cardinality(P) = Len(m) - 1 /\ k \in 0..Len(s)
  BY <1>1, <1>3, <1>5
<1>7. Selects(Take(m, Cardinality(P)), Take(s, k), K)
  BY <1>6, SelectsTake
<1>8. m[Len(m)] = s[j]
  <2>1. UpTo(s, K, j) = Picked(s, K)
    BY <1>1, <1>2 DEF UpTo
  <2>2. j \in Picked(s, K)
    BY <1>2
  <2> QED
    BY <1>4, <1>5, <2>1, <2>2, SelectsByRank
<1> QED
  BY <1>3, <1>5, <1>6, <1>7, <1>8

-----------------------------------------------------------------------------
(* Tokens and buffers.                                                     *)

TextOf == [t \in Token |-> t.text]
AuthorOf == [t \in Token |-> IF t.text = Pad THEN Nobody ELSE t.src]

Marks(ids, mask) ==
  /\ Len(mask) = Len(ids)
  /\ \A i \in 1..Len(ids) : mask[i] = IF ids[i].src = Nobody THEN 0 ELSE 1

\* No generation prompt is generated, and each one is answered.
Answers(s) ==
  /\ \A i \in 1..Len(s) : s[i].src # Nobody => s[i].text # GenPrompt
  /\ \A i \in 1..(Len(s) - 1) : s[i].text = GenPrompt => s[i + 1].src # Nobody

BufferSound(b) ==
  /\ Marks(b.response_ids, b.response_mask)
  /\ b.response_logprobs = IF Logprobs THEN b.response_mask ELSE << >>
  /\ Selects(b.generation_versions, Mapped(AuthorOf, b.response_ids), Requests)
  /\ Answers(Ids(b))

Says(b, messages) == Selects(messages, Mapped(TextOf, Ids(b)), Messages)

\* Every token says one text, and its author is the request that generated it,
\* or nobody for context and padding.
LEMMA TokenMaps ==
  /\ Maps(TextOf, Token, Messages \cup {GenPrompt, Pad})
  /\ Maps(AuthorOf, Token, Requests \cup {Nobody})
  /\ \A t \in Token : /\ TextOf[t] = t.text
                      /\ AuthorOf[t] = IF t.text = Pad THEN Nobody ELSE t.src
BY DEF Maps, TextOf, AuthorOf, Token

\* The fields of a TrajectoryBuffer (session.py 35-62) and the tokens of both
\* its lists in one.
LEMMA BufferFields ==
  ASSUME NEW b \in TrajectoryBuffer
  PROVE  /\ b.prompt_ids \in Seq(Token) /\ b.response_ids \in Seq(Token)
         /\ b.response_mask \in Seq({0, 1}) /\ b.response_logprobs \in Seq({0, 1})
         /\ b.generation_versions \in Seq(Requests)
         /\ Ids(b) \in Seq(Token)
         /\ Len(Ids(b)) = Len(b.prompt_ids) + Len(b.response_ids)
         /\ Len(b.prompt_ids) \in Nat /\ Len(b.response_ids) \in Nat
         /\ \A i \in 1..Len(b.prompt_ids) : Ids(b)[i] = b.prompt_ids[i]
         /\ \A i \in 1..Len(b.response_ids) : Ids(b)[Len(b.prompt_ids) + i] = b.response_ids[i]
<1>1. /\ b.prompt_ids \in Seq(Token) /\ b.response_ids \in Seq(Token)
      /\ b.response_mask \in Seq({0, 1}) /\ b.response_logprobs \in Seq({0, 1})
      /\ b.generation_versions \in Seq(Requests)
  BY DEF TrajectoryBuffer
<1> DEFINE p == b.prompt_ids
           q == b.response_ids
<1>2. p \in Seq(Token) /\ q \in Seq(Token) /\ Ids(b) = p \o q
  BY <1>1 DEF Ids
<1> HIDE DEF p, q
<1>3. /\ p \o q \in Seq(Token) /\ Len(p \o q) = Len(p) + Len(q)
      /\ \A i \in 1..(Len(p) + Len(q)) : (p \o q)[i] = IF i <= Len(p) THEN p[i] ELSE q[i - Len(p)]
      /\ Len(p) \in Nat /\ Len(q) \in Nat
  BY <1>2, ConcatProperties, LenProperties
<1>4. \A i \in 1..Len(p) : (p \o q)[i] = p[i]
  BY <1>3
<1>5. ASSUME NEW i \in 1..Len(q) PROVE (p \o q)[Len(p) + i] = q[i]
  <2>1. Len(p) + i \in 1..(Len(p) + Len(q)) /\ ~(Len(p) + i <= Len(p)) /\ (Len(p) + i) - Len(p) = i
    BY <1>3
  <2> QED
    BY <1>3, <2>1
<1> QED
  BY <1>1, <1>2, <1>3, <1>4, <1>5 DEF p, q

\* The lists of BuffersAligned and Spells are those of the mapped tokens.
LEMMA SoundMeans ==
  ASSUME NEW b \in TrajectoryBuffer
  PROVE  /\ Authors(b) = Mapped(AuthorOf, b.response_ids)
         /\ Texts(b) = Mapped(TextOf, Ids(b))
         /\ \A messages : Says(b, messages) <=> Spells(b, messages)
<1>1. /\ \A i \in DOMAIN b.response_ids : b.response_ids[i] \in Token
      /\ \A i \in DOMAIN Ids(b) : Ids(b)[i] \in Token
  <2>1. \A s \in Seq(Token) : \A i \in DOMAIN s : s[i] \in Token
    BY LenProperties, ElementOfSeq
  <2>2. b.response_ids \in Seq(Token) /\ Ids(b) \in Seq(Token)
    BY BufferFields
  <2> QED
    BY <2>1, <2>2
<1>2. Authors(b) = Mapped(AuthorOf, b.response_ids)
  BY <1>1, TokenMaps DEF Authors, Mapped
<1>3. Texts(b) = Mapped(TextOf, Ids(b))
  BY <1>1, TokenMaps DEF Texts, Mapped
<1> QED
  BY <1>2, <1>3 DEF Says, Spells

LEMMA AnswersTake ==
  ASSUME NEW s \in Seq(Token), NEW k \in 0..Len(s), Answers(s)
  PROVE  Answers(Take(s, k))
<1> DEFINE t == Take(s, k)
<1>1. Len(t) = k /\ \A i \in 1..k : t[i] = s[i]
  BY TakeElements
<1>2. Len(s) \in Nat
  BY LenProperties
<1> HIDE DEF t
<1>3. \A i \in 1..k : i \in 1..Len(s)
  BY <1>2
<1>4. \A i \in 1..(k - 1) : i \in 1..(Len(s) - 1) /\ i \in 1..k /\ i + 1 \in 1..k
  BY <1>2
<1>5. Answers(t)
  BY <1>1, <1>3, <1>4 DEF Answers
<1> QED
  BY <1>5 DEF t

LEMMA AnswersConcat ==
  ASSUME NEW s \in Seq(Token), NEW u \in Seq(Token), Answers(s), Answers(u),
         s = << >> \/ u = << >> \/ s[Len(s)].text # GenPrompt \/ u[1].src # Nobody
  PROVE  Answers(s \o u)
<1> DEFINE t == s \o u
<1>1. /\ t \in Seq(Token) /\ Len(t) = Len(s) + Len(u)
      /\ \A i \in 1..(Len(s) + Len(u)) : t[i] = IF i <= Len(s) THEN s[i] ELSE u[i - Len(s)]
      /\ Len(s) \in Nat /\ Len(u) \in Nat
  BY ConcatProperties, LenProperties
<1> HIDE DEF t
<1>2. s = << >> => Len(s) = 0
  BY EmptySeq
<1>3. u = << >> => Len(u) = 0
  BY EmptySeq
<1>4. ASSUME NEW i \in 1..Len(t), t[i].src # Nobody PROVE t[i].text # GenPrompt
  <2>1. CASE i <= Len(s)
    <3>1. i \in 1..Len(s) /\ t[i] = s[i]
      BY <1>1, <2>1
    <3> QED
      BY <1>4, <3>1 DEF Answers
  <2>2. CASE ~(i <= Len(s))
    <3>1. i - Len(s) \in 1..Len(u) /\ t[i] = u[i - Len(s)]
      BY <1>1, <2>2
    <3> QED
      BY <1>4, <3>1 DEF Answers
  <2> QED
    BY <2>1, <2>2
<1>5. ASSUME NEW i \in 1..(Len(t) - 1), t[i].text = GenPrompt PROVE t[i + 1].src # Nobody
  <2>1. CASE i < Len(s)
    <3>1. i \in 1..(Len(s) - 1) /\ t[i] = s[i] /\ t[i + 1] = s[i + 1]
      BY <1>1, <2>1
    <3> QED
      BY <1>5, <3>1 DEF Answers
  <2>2. CASE i = Len(s)
    <3>1. /\ i \in 1..(Len(s) + Len(u)) /\ i + 1 \in 1..(Len(s) + Len(u))
          /\ i <= Len(s) /\ ~(i + 1 <= Len(s)) /\ (i + 1) - Len(s) = 1
          /\ Len(s) # 0 /\ Len(u) # 0
      BY <1>1, <2>2
    <3>2. t[i] = s[Len(s)] /\ t[i + 1] = u[1]
      BY <1>1, <2>2, <3>1
    <3> QED
      BY <1>2, <1>3, <1>5, <3>1, <3>2
  <2>3. CASE i > Len(s)
    <3>1. /\ i - Len(s) \in 1..(Len(u) - 1) /\ t[i] = u[i - Len(s)]
          /\ t[i + 1] = u[(i + 1) - Len(s)] /\ (i + 1) - Len(s) = (i - Len(s)) + 1
      BY <1>1, <2>3
    <3> QED
      BY <1>5, <3>1 DEF Answers
  <2> QED
    BY <1>1, <2>1, <2>2, <2>3
<1>6. Answers(t)
  BY <1>4, <1>5 DEF Answers
<1> QED
  BY <1>6 DEF t

-----------------------------------------------------------------------------
(* Texts and authors of tokens.                                            *)

TextValue == Messages \cup {GenPrompt, Pad}
AuthorValue == Requests \cup {Nobody}

\* What tokens say, of a list, a concatenation and a slice.
LEMMA TextsOf ==
  ASSUME NEW s \in Seq(Token)
  PROVE  /\ Mapped(TextOf, s) \in Seq(TextValue) /\ Len(Mapped(TextOf, s)) = Len(s)
         /\ \A i \in 1..Len(s) : Mapped(TextOf, s)[i] = s[i].text
         /\ \A u \in Seq(Token) : Mapped(TextOf, s \o u) = Mapped(TextOf, s) \o Mapped(TextOf, u)
         /\ \A k \in 0..Len(s) : Mapped(TextOf, Take(s, k)) = Take(Mapped(TextOf, s), k)
<1>1. Maps(TextOf, Token, TextValue)
  BY TokenMaps DEF TextValue
<1>2. /\ Mapped(TextOf, s) \in Seq(TextValue) /\ Len(Mapped(TextOf, s)) = Len(s)
      /\ \A i \in 1..Len(s) : Mapped(TextOf, s)[i] = TextOf[s[i]]
  BY <1>1, MappedType
<1>3. \A i \in 1..Len(s) : s[i] \in Token
  BY ElementOfSeq
<1>4. \A u \in Seq(Token) : Mapped(TextOf, s \o u) = Mapped(TextOf, s) \o Mapped(TextOf, u)
  BY <1>1, MappedConcat
<1>5. \A k \in 0..Len(s) : Mapped(TextOf, Take(s, k)) = Take(Mapped(TextOf, s), k)
  BY <1>1, MappedTake
<1> QED
  BY <1>2, <1>3, <1>4, <1>5, TokenMaps

\* Who wrote tokens, of a list, a concatenation and a slice.
LEMMA AuthorsOf ==
  ASSUME NEW s \in Seq(Token)
  PROVE  /\ Mapped(AuthorOf, s) \in Seq(AuthorValue) /\ Len(Mapped(AuthorOf, s)) = Len(s)
         /\ \A i \in 1..Len(s) :
              Mapped(AuthorOf, s)[i] = IF s[i].text = Pad THEN Nobody ELSE s[i].src
         /\ \A u \in Seq(Token) : Mapped(AuthorOf, s \o u) = Mapped(AuthorOf, s) \o Mapped(AuthorOf, u)
         /\ \A k \in 0..Len(s) : Mapped(AuthorOf, Take(s, k)) = Take(Mapped(AuthorOf, s), k)
<1>1. Maps(AuthorOf, Token, AuthorValue)
  BY TokenMaps DEF AuthorValue
<1>2. /\ Mapped(AuthorOf, s) \in Seq(AuthorValue) /\ Len(Mapped(AuthorOf, s)) = Len(s)
      /\ \A i \in 1..Len(s) : Mapped(AuthorOf, s)[i] = AuthorOf[s[i]]
  BY <1>1, MappedType
<1>3. \A i \in 1..Len(s) : s[i] \in Token
  BY ElementOfSeq
<1>4. \A u \in Seq(Token) : Mapped(AuthorOf, s \o u) = Mapped(AuthorOf, s) \o Mapped(AuthorOf, u)
  BY <1>1, MappedConcat
<1>5. \A k \in 0..Len(s) : Mapped(AuthorOf, Take(s, k)) = Take(Mapped(AuthorOf, s), k)
  BY <1>1, MappedTake
<1> QED
  BY <1>2, <1>3, <1>4, <1>5, TokenMaps

LEMMA MarksTake ==
  ASSUME NEW ids \in Seq(Token), NEW mask \in Seq({0, 1}), Marks(ids, mask),
         NEW k \in 0..Len(ids)
  PROVE  Marks(Take(ids, k), Take(mask, k))
<1>1. /\ Take(ids, k) \in Seq(Token) /\ Len(Take(ids, k)) = k
      /\ \A i \in 1..k : Take(ids, k)[i] = ids[i]
  BY TakeElements
<1>2. k \in 0..Len(mask)
  BY DEF Marks
<1>3. Len(Take(mask, k)) = k /\ \A i \in 1..k : Take(mask, k)[i] = mask[i]
  BY <1>2, TakeElements
<1>4. \A i \in 1..k : i \in 1..Len(ids)
  BY LenProperties
<1> QED
  BY <1>1, <1>3, <1>4 DEF Marks

LEMMA MarksConcat ==
  ASSUME NEW ids \in Seq(Token), NEW mask \in Seq({0, 1}), Marks(ids, mask),
         NEW u \in Seq(Token), NEW mark \in {0, 1},
         \A i \in 1..Len(u) : mark = IF u[i].src = Nobody THEN 0 ELSE 1
  PROVE  Marks(ids \o u, mask \o Repeat(mark, Len(u)))
<1> DEFINE v == Repeat(mark, Len(u))
           l == ids \o u
           r == mask \o v
<1>1. Len(ids) \in Nat /\ Len(u) \in Nat /\ Len(mask) = Len(ids)
  BY LenProperties DEF Marks
<1>2. v \in Seq({0, 1}) /\ Len(v) = Len(u) /\ \A i \in 1..Len(u) : v[i] = mark
  BY <1>1, RepeatType DEF Repeat
<1> HIDE DEF v
<1>3. /\ Len(l) = Len(ids) + Len(u)
      /\ \A i \in 1..(Len(ids) + Len(u)) : l[i] = IF i <= Len(ids) THEN ids[i] ELSE u[i - Len(ids)]
  BY ConcatProperties
<1>4. /\ Len(r) = Len(mask) + Len(v)
      /\ \A i \in 1..(Len(mask) + Len(v)) : r[i] = IF i <= Len(mask) THEN mask[i] ELSE v[i - Len(mask)]
  <2>1. v \in Seq({0, 1})
    BY <1>2
  <2> QED
    BY <2>1, ConcatProperties
<1> HIDE DEF l, r
<1>5. ASSUME NEW i \in 1..Len(l) PROVE r[i] = IF l[i].src = Nobody THEN 0 ELSE 1
  <2>1. i \in 1..(Len(ids) + Len(u)) /\ i \in 1..(Len(mask) + Len(v))
    BY <1>1, <1>2, <1>3
  <2>2. CASE i <= Len(ids)
    <3>1. i \in 1..Len(ids) /\ l[i] = ids[i] /\ r[i] = mask[i]
      BY <1>1, <1>3, <1>4, <2>1, <2>2
    <3> QED
      BY <3>1 DEF Marks
  <2>3. CASE ~(i <= Len(ids))
    <3>1. i - Len(ids) \in 1..Len(u)
      BY <1>1, <2>1, <2>3
    <3>2. l[i] = u[i - Len(ids)] /\ r[i] = v[i - Len(ids)]
      BY <1>1, <1>3, <1>4, <2>1, <2>3
    <3> QED
      BY <1>2, <3>1, <3>2
  <2> QED
    BY <2>2, <2>3
<1>6. Marks(l, r)
  BY <1>1, <1>2, <1>3, <1>4, <1>5 DEF Marks
<1> QED
  BY <1>6 DEF l, r, v

\* Appending to the response appends to all the tokens.
LEMMA IdsExtended ==
  ASSUME NEW b \in TrajectoryBuffer, NEW ids \in Seq(Token), NEW mark, NEW versions
  PROVE  Ids(Extended(b, ids, mark, versions)) = Ids(b) \o ids
<1>1. b.prompt_ids \in Seq(Token) /\ b.response_ids \in Seq(Token)
  BY BufferFields
<1> DEFINE p == b.prompt_ids
           q == b.response_ids
<1>2. (p \o q) \o ids = p \o (q \o ids)
  <2>1. p \in Seq(Token) /\ q \in Seq(Token)
    BY <1>1
  <2> HIDE DEF p, q
  <2> QED
    BY <2>1, ConcatAssociative
<1>3. /\ Extended(b, ids, mark, versions).prompt_ids = b.prompt_ids
      /\ Extended(b, ids, mark, versions).response_ids = b.response_ids \o ids
  BY DEF Extended
<1> QED
  BY <1>2, <1>3 DEF Ids

\* Tokens that continue a buffer.
Follows(b, ids) ==
  \/ Ids(b) = << >> \/ ids = << >>
  \/ Ids(b)[Len(Ids(b))].text # GenPrompt \/ ids[1].src # Nobody

\* Appending tokens with their mask and logprobs keeps a buffer sound.
LEMMA ExtendedSound ==
  ASSUME NEW b \in TrajectoryBuffer, BufferSound(b), NEW ids \in Seq(Token),
         NEW mark \in {0, 1}, NEW v \in Seq(Requests),
         \A i \in 1..Len(ids) : mark = IF ids[i].src = Nobody THEN 0 ELSE 1,
         Answers(ids), Follows(b, ids), Selects(v, Mapped(AuthorOf, ids), Requests)
  PROVE  /\ BufferSound(Extended(b, ids, mark, b.generation_versions \o v))
         /\ \A x, y \in Seq(Messages) :
              Says(b, x) /\ Selects(y, Mapped(TextOf, ids), Messages)
                => Says(Extended(b, ids, mark, b.generation_versions \o v), x \o y)
<1> DEFINE new == Extended(b, ids, mark, b.generation_versions \o v)
<1>1. /\ b.response_ids \in Seq(Token) /\ b.response_mask \in Seq({0, 1})
      /\ b.generation_versions \in Seq(Requests) /\ Ids(b) \in Seq(Token)
  BY BufferFields
<1>2. /\ new.response_ids = b.response_ids \o ids
      /\ new.response_mask = b.response_mask \o Repeat(mark, Len(ids))
      /\ new.response_logprobs = IF Logprobs
                                 THEN b.response_logprobs \o Repeat(mark, Len(ids))
                                 ELSE b.response_logprobs
      /\ new.generation_versions = b.generation_versions \o v
  BY DEF Extended
<1>3. Ids(new) = Ids(b) \o ids
  BY IdsExtended
<1> HIDE DEF new
<1>4. Marks(new.response_ids, new.response_mask)
  BY <1>1, <1>2, MarksConcat DEF BufferSound
<1>5. new.response_logprobs = IF Logprobs THEN new.response_mask ELSE << >>
  BY <1>2 DEF BufferSound
<1>6. Answers(Ids(new))
  BY <1>1, <1>3, AnswersConcat DEF BufferSound, Follows
<1>7. Selects(new.generation_versions, Mapped(AuthorOf, new.response_ids), Requests)
  <2> DEFINE s == Mapped(AuthorOf, b.response_ids)
             u == Mapped(AuthorOf, ids)
             X == AuthorValue
             g == b.generation_versions
  <2>1. s \in Seq(X) /\ u \in Seq(X) /\ Mapped(AuthorOf, b.response_ids \o ids) = s \o u
    BY <1>1, AuthorsOf
  <2>2. Selects(g, s, Requests) /\ Selects(v, u, Requests) /\ g \in Seq(Requests)
    BY <1>1 DEF BufferSound
  <2> HIDE DEF s, u, X, g
  <2>3. Selects(g \o v, s \o u, Requests)
    BY <2>1, <2>2, SelectsConcat
  <2> QED
    BY <1>2, <2>1, <2>3 DEF g
<1>8. ASSUME NEW x \in Seq(Messages), NEW y \in Seq(Messages), Says(b, x),
             Selects(y, Mapped(TextOf, ids), Messages)
      PROVE  Says(new, x \o y)
  <2> DEFINE s == Mapped(TextOf, Ids(b))
             u == Mapped(TextOf, ids)
             X == TextValue
  <2>1. s \in Seq(X) /\ u \in Seq(X) /\ Mapped(TextOf, Ids(b) \o ids) = s \o u
    BY <1>1, TextsOf
  <2>2. Selects(x, s, Messages) /\ Selects(y, u, Messages)
    BY <1>8 DEF Says
  <2> HIDE DEF s, u, X
  <2>3. Selects(x \o y, s \o u, Messages)
    BY <2>1, <2>2, SelectsConcat
  <2> QED
    BY <1>3, <2>1, <2>3 DEF Says
<1>9. BufferSound(new)
  BY <1>4, <1>5, <1>6, <1>7 DEF BufferSound
<1> QED
  BY <1>8, <1>9 DEF new

-----------------------------------------------------------------------------
(* What the codec returns.                                                 *)

\* The tokens of a rendering for inference.
LEMMA encode_fullTokens ==
  ASSUME NEW messages \in Seq(Messages)
  PROVE  LET ids == encode_full(messages)
         IN  /\ ids \in Seq(Token) /\ Len(ids) = Len(messages) + 1
             /\ \A i \in 1..Len(ids) : ids[i].src = Nobody
             /\ \A i \in 1..Len(messages) : ids[i].text = messages[i]
             /\ ids[Len(messages) + 1].text = GenPrompt
             /\ Answers(ids)
             /\ Selects(messages, Mapped(TextOf, ids), Messages)
             /\ Selects(<< >>, Mapped(AuthorOf, ids), Requests)
<1> DEFINE ids == encode_full(messages)
           n == Len(messages)
<1>1. n \in Nat /\ DOMAIN messages = 1..n /\ \A i \in 1..n : messages[i] \in Messages
  BY LenProperties, ElementOfSeq
<1>2. ids \in Seq(Token) /\ Len(ids) = n + 1
  BY encode_fullType
<1>3. /\ \A i \in 1..n : ids[i] = Context(messages[i])
      /\ ids[n + 1] = Context(GenPrompt)
  <2> DEFINE rendered == Render(messages)
  <2>1. \A i \in 1..n : Context(messages[i]) \in Token
    BY <1>1 DEF Context, Token
  <2>2. /\ rendered \in Seq(Token) /\ Len(rendered) = n
        /\ \A i \in 1..n : rendered[i] = Context(messages[i])
    BY <1>1, <2>1 DEF Render
  <2>3. Context(GenPrompt) \in Token
    BY DEF Context, Token
  <2>4. ids = Append(rendered, Context(GenPrompt))
    BY DEF encode_full
  <2> HIDE DEF rendered, ids
  <2> QED
    BY <2>2, <2>3, <2>4, AppendProperties
<1> HIDE DEF ids
<1>4. /\ \A i \in 1..n : ids[i].text = messages[i] /\ ids[i].src = Nobody
      /\ ids[n + 1].text = GenPrompt /\ ids[n + 1].src = Nobody
  <2>1. \A x : Context(x).text = x /\ Context(x).src = Nobody
    BY DEF Context
  <2> QED
    BY <1>3, <2>1
<1>5. \A i \in 1..Len(ids) : ids[i].src = Nobody
  <2>1. \A i \in 1..Len(ids) : i \in 1..n \/ i = n + 1
    BY <1>1, <1>2
  <2> QED
    BY <1>4, <2>1
<1>6. Answers(ids)
  <2>1. \A i \in 1..(Len(ids) - 1) : i \in 1..n
    BY <1>1, <1>2
  <2>2. \A i \in 1..n : ids[i].text # GenPrompt
    BY <1>1, <1>4 DEF SessionAssumption
  <2> QED
    BY <1>5, <2>1, <2>2 DEF Answers
<1>7. Selects(<< >>, Mapped(AuthorOf, ids), Requests)
  <2> DEFINE s == Mapped(AuthorOf, ids)
  <2>1. /\ s \in Seq(AuthorValue) /\ Len(s) = Len(ids)
        /\ \A i \in 1..Len(ids) : s[i] = IF ids[i].text = Pad THEN Nobody ELSE ids[i].src
    BY <1>2, AuthorsOf
  <2> HIDE DEF s
  <2>2. \A i \in 1..Len(s) : s[i] \notin Requests
    BY <1>5, <2>1 DEF SessionAssumption
  <2>3. Selects(<< >>, s, Requests)
    BY <2>1, <2>2, SelectsNone
  <2> QED
    BY <2>3 DEF s
<1>8. Selects(messages, Mapped(TextOf, ids), Messages)
  <2> DEFINE s == Mapped(TextOf, ids)
             u == <<GenPrompt>>
  <2>1. /\ s \in Seq(TextValue) /\ Len(s) = Len(ids)
        /\ \A i \in 1..Len(ids) : s[i] = ids[i].text
    BY <1>2, TextsOf
  <2>2. u \in Seq(TextValue) /\ Len(u) = 1 /\ u[1] = GenPrompt
    BY DEF TextValue
  <2>3. messages \in Seq(TextValue)
    <3>1. Messages \subseteq TextValue
      BY DEF TextValue
    <3> QED
      BY <3>1, SeqMonotonic
  <2> HIDE DEF s, u
  <2>4. s = messages \o u
    <3> DEFINE t == messages \o u
    <3>0. u \in Seq(TextValue)
      BY <2>2
    <3>1. /\ t \in Seq(TextValue) /\ Len(t) = n + Len(u)
          /\ \A i \in 1..(n + Len(u)) : t[i] = IF i <= n THEN messages[i] ELSE u[i - n]
      BY <3>0, <2>3, ConcatProperties
    <3> HIDE DEF t, n
    <3>2. Len(s) = Len(t)
      BY <1>2, <2>1, <2>2, <3>1
    <3>3. ASSUME NEW i \in 1..Len(s) PROVE s[i] = t[i]
      <4>1. i \in 1..n \/ i = n + 1
        BY <1>1, <1>2, <2>1
      <4>2. CASE i \in 1..n
        <5>1. i \in 1..(n + Len(u)) /\ i <= n /\ i \in 1..Len(ids)
          BY <1>1, <1>2, <2>2, <4>2
        <5>2. t[i] = messages[i] /\ s[i] = ids[i].text
          BY <2>1, <3>1, <5>1
        <5> QED
          BY <1>4, <4>2, <5>2
      <4>3. CASE i = n + 1
        <5>1. i \in 1..(n + Len(u)) /\ ~(i <= n) /\ i - n = 1 /\ i \in 1..Len(ids)
          BY <1>1, <1>2, <2>2, <4>3
        <5> QED
          BY <1>4, <2>1, <2>2, <3>1, <4>3, <5>1
      <4> QED
        BY <4>1, <4>2, <4>3
    <3>4. s = t
      BY <2>1, <3>1, <3>2, <3>3, SeqEqual
    <3> QED
      BY <3>4 DEF t
  <2>5. Selects(messages, messages, Messages)
    BY <1>1, SelectsAll
  <2>6. Selects(<< >>, u, Messages)
    <3>1. \A i \in 1..Len(u) : u[i] \notin Messages
      BY <2>2 DEF SessionAssumption
    <3> QED
      BY <2>2, <3>1, SelectsNone
  <2>7. Selects(messages \o << >>, messages \o u, Messages)
    BY <2>2, <2>3, <2>5, <2>6, EmptySeq, SelectsConcat
  <2>8. messages \o << >> = messages
    BY ConcatEmptySeq
  <2> QED
    BY <2>4, <2>7, <2>8 DEF s
<1> QED
  BY <1>2, <1>4, <1>5, <1>6, <1>7, <1>8 DEF ids

\* The tokens of an answer.
LEMMA GeneratedTokens ==
  ASSUME NEW r \in Requests, NEW o \in Outputs
  PROVE  LET ids == Generated(r, o)
         IN  /\ ids \in Seq(Token) /\ Len(ids) = OutLen[o] /\ OutLen[o] \in Nat \ {0}
             /\ \A i \in 1..Len(ids) : ids[i].src = r
             /\ ids[1].text = o
             /\ \A i \in 2..Len(ids) : ids[i].text = Pad
             /\ Answers(ids)
             /\ Selects(<<o>>, Mapped(TextOf, ids), Messages)
             /\ Selects(<<r>>, Mapped(AuthorOf, ids), Requests)
<1> DEFINE ids == Generated(r, o)
           n == OutLen[o]
<1>1. ids \in Seq(Token) /\ Len(ids) = n /\ n \in Nat \ {0}
  BY GeneratedType
<1>2. \A i \in 1..n : ids[i] = [text |-> IF i = 1 THEN o ELSE Pad, src |-> r]
  BY DEF Generated
<1> HIDE DEF ids, n
<1>3. /\ \A i \in 1..Len(ids) : ids[i].src = r /\ (ids[i].text = o \/ ids[i].text = Pad)
      /\ ids[1].text = o /\ \A i \in 2..Len(ids) : ids[i].text = Pad
  BY <1>1, <1>2
<1>4. o \in Messages /\ o # GenPrompt /\ o # Pad /\ r # Nobody /\ Nobody \notin Requests
  BY DEF SessionAssumption
<1>5. Answers(ids)
  <2>1. \A i \in 1..Len(ids) : ids[i].text # GenPrompt
    BY <1>3, <1>4 DEF SessionAssumption
  <2>2. \A i \in 1..(Len(ids) - 1) : i \in 1..Len(ids)
    BY <1>1
  <2> QED
    BY <2>1, <2>2 DEF Answers
<1>6. Selects(<<o>>, Mapped(TextOf, ids), Messages)
  <2> DEFINE s == Mapped(TextOf, ids)
  <2>1. /\ s \in Seq(TextValue) /\ Len(s) = Len(ids)
        /\ \A i \in 1..Len(ids) : s[i] = ids[i].text
    BY <1>1, TextsOf
  <2> HIDE DEF s
  <2>2. s # << >> /\ s[1] = o /\ \A i \in 2..Len(s) : s[i] \notin Messages
    <3>1. 1 \in 1..Len(ids) /\ \A i \in 2..Len(ids) : i \in 1..Len(ids)
      BY <1>1
    <3>2. Len(s) # 0
      BY <1>1, <2>1
    <3> QED
      BY <1>3, <2>1, <3>1, <3>2, EmptySeq DEF SessionAssumption
  <2>3. Selects(<<s[1]>>, s, Messages)
    BY <1>4, <2>1, <2>2, SelectsFirst
  <2> QED
    BY <2>2, <2>3 DEF s
<1>7. Selects(<<r>>, Mapped(AuthorOf, ids), Requests)
  <2> DEFINE s == Mapped(AuthorOf, ids)
  <2>1. /\ s \in Seq(AuthorValue) /\ Len(s) = Len(ids)
        /\ \A i \in 1..Len(ids) : s[i] = IF ids[i].text = Pad THEN Nobody ELSE ids[i].src
    BY <1>1, AuthorsOf
  <2> HIDE DEF s
  <2>2. s # << >> /\ s[1] = r /\ \A i \in 2..Len(s) : s[i] \notin Requests
    <3>1. 1 \in 1..Len(ids) /\ \A i \in 2..Len(ids) : i \in 1..Len(ids)
      BY <1>1
    <3>2. Len(s) # 0
      BY <1>1, <2>1
    <3> QED
      BY <1>3, <1>4, <2>1, <3>1, <3>2, EmptySeq
  <2>3. Selects(<<s[1]>>, s, Requests)
    BY <1>4, <2>1, <2>2, SelectsFirst
  <2> QED
    BY <2>2, <2>3 DEF s
<1> QED
  BY <1>1, <1>3, <1>5, <1>6, <1>7 DEF ids, n

-----------------------------------------------------------------------------
(* What a buffer gains.                                                    *)

\* No generation prompt is waiting for its answer.
Settled(b) == Ids(b) = << >> \/ Ids(b)[Len(Ids(b))].text # GenPrompt

\* A backend answer.
LEMMA AddGenerationSound ==
  ASSUME NEW b \in TrajectoryBuffer, BufferSound(b), NEW r \in Requests, NEW o \in Outputs
  PROVE  /\ BufferSound(AddGeneration(b, r, Generated(r, o)))
         /\ \A x \in Seq(Messages) :
              Says(b, x) => Says(AddGeneration(b, r, Generated(r, o)), Append(x, o))
<1> DEFINE ids == Generated(r, o)
           v   == <<r>>
           g   == b.generation_versions
           new == AddGeneration(b, r, ids)
<1>1. /\ ids \in Seq(Token) /\ Answers(ids)
      /\ Len(ids) \in Nat \ {0} /\ \A i \in 1..Len(ids) : ids[i].src = r
      /\ Selects(<<o>>, Mapped(TextOf, ids), Messages)
      /\ Selects(v, Mapped(AuthorOf, ids), Requests)
  BY GeneratedTokens
<1>2. new = Extended(b, ids, 1, g \o v)
  <2>1. g \in Seq(Requests)
    BY BufferFields
  <2> HIDE DEF g, ids
  <2>2. Append(g, r) = g \o v
    BY <2>1, AppendIsConcat
  <2> QED
    BY <2>2 DEF AddGeneration, g
<1>3. v \in Seq(Requests) /\ o \in Messages /\ r # Nobody
  BY DEF SessionAssumption
<1> HIDE DEF ids, v
<1>4. Follows(b, ids)
  BY <1>1, <1>3 DEF Follows
<1>5. \A i \in 1..Len(ids) : 1 = IF ids[i].src = Nobody THEN 0 ELSE 1
  BY <1>1, <1>3
<1> DEFINE X == Extended(b, ids, 1, g \o v)
<1>6. /\ BufferSound(X)
      /\ \A x, y \in Seq(Messages) :
           Says(b, x) /\ Selects(y, Mapped(TextOf, ids), Messages) => Says(X, x \o y)
  BY <1>1, <1>3, <1>4, <1>5, ExtendedSound
<1> HIDE DEF X
<1>7. ASSUME NEW x \in Seq(Messages), Says(b, x) PROVE Says(X, Append(x, o))
  <2>1. <<o>> \in Seq(Messages) /\ Append(x, o) = x \o <<o>>
    BY <1>3, AppendIsConcat
  <2> QED
    BY <1>1, <1>6, <1>7, <2>1
<1>8. new = X
  BY <1>2 DEF X
<1> HIDE DEF new
<1>9. BufferSound(new) /\ \A x \in Seq(Messages) : Says(b, x) => Says(new, Append(x, o))
  BY <1>6, <1>7, <1>8
<1> QED
  BY <1>9 DEF new, ids

\* Continuation context.
LEMMA AddContextSound ==
  ASSUME NEW b \in TrajectoryBuffer, BufferSound(b), Settled(b),
         NEW messages \in Seq(Messages)
  PROVE  /\ BufferSound(AddContext(b, encode_incremental(messages)))
         /\ \A x \in Seq(Messages) :
              Says(b, x) => Says(AddContext(b, encode_incremental(messages)), x \o messages)
<1> DEFINE ids == encode_incremental(messages)
           g   == b.generation_versions
           X   == Extended(b, ids, 0, g \o << >>)
<1>1. /\ ids \in Seq(Token) /\ Answers(ids)
      /\ \A i \in 1..Len(ids) : ids[i].src = Nobody
      /\ Selects(messages, Mapped(TextOf, ids), Messages)
      /\ Selects(<< >>, Mapped(AuthorOf, ids), Requests)
  <2>1. CASE messages = << >>
    <3>1. ids = << >>
      BY <2>1 DEF encode_incremental
    <3> DEFINE s == << >>
    <3>2. s \in Seq(Token) /\ Len(s) = 0 /\ \A S : s \in Seq(S)
      BY EmptySeq
    <3>3. Mapped(TextOf, s) = << >> /\ Mapped(AuthorOf, s) = << >>
      <4>1. /\ Mapped(TextOf, s) \in Seq(TextValue) /\ Len(Mapped(TextOf, s)) = 0
            /\ Mapped(AuthorOf, s) \in Seq(AuthorValue) /\ Len(Mapped(AuthorOf, s)) = 0
        BY <3>2, TextsOf, AuthorsOf
      <4> QED
        BY <4>1, EmptySeq
    <3> HIDE DEF s
    <3>4. Answers(s)
      BY <3>2 DEF Answers
    <3>5. Selects(s, s, Messages) /\ Selects(s, s, Requests)
      <4>1. \A i \in 1..Len(s) : FALSE
        BY <3>2
      <4>2. \A K : Selects(s, s, K)
        BY <3>2, <4>1, SelectsAll
      <4> QED
        BY <4>2
    <3>6. \A i \in 1..Len(s) : s[i].src = Nobody
      BY <3>2
    <3> QED
      BY <2>1, <3>1, <3>2, <3>3, <3>4, <3>5, <3>6 DEF s
  <2>2. CASE messages # << >>
    <3>1. ids = encode_full(messages)
      BY <2>2 DEF encode_incremental
    <3> QED
      BY <3>1, encode_fullTokens
  <2> QED
    BY <2>1, <2>2
<1>2. << >> \in Seq(Requests)
  BY EmptySeq
<1>3. AddContext(b, ids) = X
  <2>1. g \in Seq(Requests)
    BY BufferFields
  <2> HIDE DEF ids, g
  <2>2. g \o << >> = g
    BY <2>1, ConcatEmptySeq
  <2> QED
    BY <2>2 DEF AddContext, g
<1> HIDE DEF ids
<1>4. Follows(b, ids)
  BY DEF Follows, Settled
<1>5. \A i \in 1..Len(ids) : 0 = IF ids[i].src = Nobody THEN 0 ELSE 1
  BY <1>1
<1>6. /\ BufferSound(X)
      /\ \A x, y \in Seq(Messages) :
           Says(b, x) /\ Selects(y, Mapped(TextOf, ids), Messages) => Says(X, x \o y)
  BY <1>1, <1>2, <1>4, <1>5, ExtendedSound
<1> HIDE DEF X
<1>7. \A x \in Seq(Messages) : Says(b, x) => Says(X, x \o messages)
  BY <1>1, <1>6
<1>8. BufferSound(AddContext(b, ids)) /\
      \A x \in Seq(Messages) : Says(b, x) => Says(AddContext(b, ids), x \o messages)
  BY <1>3, <1>6, <1>7
<1> QED
  BY <1>8 DEF ids

\* The prompt of a new chain.
LEMMA PromptSound ==
  ASSUME NEW messages \in Seq(Messages)
  PROVE  LET b == [EmptyBuffer EXCEPT !.prompt_ids = encode_full(messages)]
         IN  BufferSound(b) /\ Says(b, messages) /\ b.response_ids = << >>
<1> DEFINE b   == [EmptyBuffer EXCEPT !.prompt_ids = encode_full(messages)]
           ids == encode_full(messages)
<1>1. b.prompt_ids = ids /\ b.response_ids = << >> /\ b.response_mask = << >>
      /\ b.response_logprobs = << >> /\ b.generation_versions = << >>
  BY DEF EmptyBuffer
<1>2. ids \in Seq(Token) /\ Answers(ids) /\ Selects(messages, Mapped(TextOf, ids), Messages)
  BY encode_fullTokens
<1> HIDE DEF b, ids
<1>3. Ids(b) = ids
  BY <1>1, <1>2, ConcatEmptySeq DEF Ids
<1> DEFINE s == << >>
<1>4. s \in Seq(Token) /\ Len(s) = 0 /\ \A S : s \in Seq(S)
  BY EmptySeq
<1>5. Mapped(AuthorOf, s) = s
  <2>1. Mapped(AuthorOf, s) \in Seq(AuthorValue) /\ Len(Mapped(AuthorOf, s)) = 0
    BY <1>4, AuthorsOf
  <2> QED
    BY <2>1, EmptySeq
<1>6. b.response_ids = s /\ b.response_mask = s /\ b.response_logprobs = s /\ b.generation_versions = s
  BY <1>1
<1> HIDE DEF s
<1>7. Selects(s, s, Requests)
  <2>1. \A i \in 1..Len(s) : FALSE
    BY <1>4
  <2> QED
    BY <1>4, <2>1, SelectsAll
<1>8. Marks(s, s)
  BY <1>4 DEF Marks
<1>9. BufferSound(b)
  <2>1. s = << >>
    BY DEF s
  <2> QED
    BY <1>2, <1>3, <1>5, <1>6, <1>7, <1>8, <2>1 DEF BufferSound
<1> QED
  BY <1>1, <1>2, <1>3, <1>9 DEF Says, b

-----------------------------------------------------------------------------
(* What a rollback cuts.                                                   *)

\* The tokens left after the latest assistant and its prefix are cut.
LEMMA IdsCut ==
  ASSUME NEW b \in TrajectoryBuffer, NEW n \in 0..Len(b.response_ids), EndsWithPrefix(b, n)
  PROVE  LET k == Len(b.prompt_ids) + n - 1
         IN  /\ k \in 0..Len(Ids(b)) /\ k + 1 \in 1..Len(Ids(b))
             /\ Ids(b)[k + 1].text = GenPrompt
             /\ Ids(CutLastAssistant(b, n)) = Take(Ids(b), k)
<1> DEFINE p   == b.prompt_ids
           q   == b.response_ids
           all == Ids(b)
           k   == Len(p) + n - 1
<1>1. /\ p \in Seq(Token) /\ q \in Seq(Token) /\ all \in Seq(Token) /\ all = p \o q
      /\ Len(all) = Len(p) + Len(q) /\ Len(p) \in Nat /\ Len(q) \in Nat
      /\ \A i \in 1..Len(p) : all[i] = p[i]
      /\ \A i \in 1..Len(q) : all[Len(p) + i] = q[i]
  BY BufferFields DEF Ids
<1>2. n \in Nat /\ n <= Len(q)
  BY <1>1
<1>3. CASE n = 0
  <2>1. p # << >> /\ p[Len(p)].text = GenPrompt
    BY <1>3 DEF EndsWithPrefix
  <2>2. Ids(CutLastAssistant(b, n)) = Take(p, k) \o << >>
    <3>1. CutLastAssistant(b, n).prompt_ids = Take(p, k)
      BY <1>3, <1>1 DEF CutLastAssistant
    <3>2. CutLastAssistant(b, n).response_ids = Take(q, 0)
      BY <1>3 DEF CutLastAssistant
    <3>3. Take(q, 0) = << >>
      BY SubSeqEmpty DEF Take
    <3> QED
      BY <3>1, <3>2, <3>3 DEF Ids
  <2> HIDE DEF p, q, all
  <2>3. Len(p) # 0
    BY <1>1, <2>1, EmptySeq
  <2>4. /\ k \in 0..Len(p) /\ k \in 0..Len(all) /\ k + 1 \in 1..Len(all)
        /\ k + 1 = Len(p) /\ Len(p) \in 1..Len(p)
    BY <1>1, <1>3, <2>3
  <2> HIDE DEF k
  <2>5. all[k + 1].text = GenPrompt
    BY <1>1, <2>1, <2>4
  <2>6. /\ Take(p, k) \in Seq(Token) /\ Len(Take(p, k)) = k
        /\ \A i \in 1..k : Take(p, k)[i] = p[i]
    BY <1>1, <2>4, TakeElements
  <2>7. /\ Take(all, k) \in Seq(Token) /\ Len(Take(all, k)) = k
        /\ \A i \in 1..k : Take(all, k)[i] = all[i]
    <3>1. all \in Seq(Token) /\ k \in 0..Len(all)
      BY <1>1, <2>4
    <3> QED
      BY <3>1, TakeElements
  <2>8. \A i \in 1..k : i \in 1..Len(p)
    BY <1>1, <2>4
  <2>9. Take(p, k) = Take(all, k)
    BY <1>1, <2>6, <2>7, <2>8, SeqEqual
  <2>10. Take(p, k) \o << >> = Take(p, k)
    BY <2>6, ConcatEmptySeq
  <2> QED
    BY <2>2, <2>4, <2>5, <2>9, <2>10 DEF p, q, all, k
<1>4. CASE n # 0
  <2> DEFINE m == n - 1
  <2>1. m \in 0..Len(q) /\ n \in 1..Len(q) /\ n \in 0..Len(q)
    BY <1>1, <1>2, <1>4
  <2>2. q[n].text = GenPrompt
    <3>1. Take(q, n)[Len(Take(q, n))].text = GenPrompt
      BY <1>4 DEF EndsWithPrefix
    <3> HIDE DEF q
    <3>2. Len(Take(q, n)) = n /\ Take(q, n)[n] = q[n]
      BY <1>1, <2>1, TakeElements
    <3> QED
      BY <3>1, <3>2
  <2>3. Ids(CutLastAssistant(b, n)) = p \o Take(q, m)
    BY <1>4 DEF CutLastAssistant, Ids
  <2> HIDE DEF p, q, all
  <2>4. /\ k \in 0..Len(all) /\ k + 1 \in 1..Len(all) /\ k + 1 = Len(p) + n
        /\ k = Len(p) + m
    BY <1>1, <2>1
  <2>5. all[k + 1].text = GenPrompt
    BY <1>1, <2>1, <2>2, <2>4
  <2> HIDE DEF k, m
  <2>6. /\ Take(q, m) \in Seq(Token) /\ Len(Take(q, m)) = m
        /\ \A i \in 1..m : Take(q, m)[i] = q[i]
    BY <1>1, <2>1, TakeElements
  <2>7. /\ Take(all, k) \in Seq(Token) /\ Len(Take(all, k)) = k
        /\ \A i \in 1..k : Take(all, k)[i] = all[i]
    <3>1. all \in Seq(Token) /\ k \in 0..Len(all)
      BY <1>1, <2>4
    <3> QED
      BY <3>1, TakeElements
  <2> DEFINE u == Take(q, m)
             l == p \o u
  <2>8. /\ l \in Seq(Token) /\ Len(l) = Len(p) + Len(u)
        /\ \A i \in 1..(Len(p) + Len(u)) : l[i] = IF i <= Len(p) THEN p[i] ELSE u[i - Len(p)]
    <3>1. u \in Seq(Token) /\ p \in Seq(Token)
      BY <1>1, <2>6
    <3> HIDE DEF u
    <3> QED
      BY <3>1, ConcatProperties
  <2>9. ASSUME NEW i \in 1..k PROVE l[i] = Take(all, k)[i]
    <3>1. i \in 1..(Len(p) + Len(u))
      BY <2>4, <2>6
    <3> HIDE DEF l, u
    <3>2. CASE i <= Len(p)
      <4>1. i \in 1..Len(p)
        BY <1>1, <3>2
      <4> QED
        BY <1>1, <2>7, <2>8, <3>1, <3>2, <4>1
    <3>3. CASE ~(i <= Len(p))
      <4>1. i - Len(p) \in 1..m /\ i - Len(p) \in 1..Len(q) /\ Len(p) + (i - Len(p)) = i
        BY <1>1, <2>1, <2>4, <3>3
      <4>2. l[i] = u[i - Len(p)]
        BY <2>8, <3>1, <3>3
      <4>3. u[i - Len(p)] = q[i - Len(p)]
        BY <2>6, <4>1 DEF u
      <4>4. q[i - Len(p)] = all[i]
        BY <1>1, <4>1
      <4> QED
        BY <2>7, <4>2, <4>3, <4>4
    <3> QED
      BY <3>2, <3>3
  <2>10. Len(l) = k
    BY <2>4, <2>6, <2>8
  <2> HIDE DEF l
  <2>11. l = Take(all, k)
    BY <2>7, <2>8, <2>9, <2>10, SeqEqual
  <2> QED
    BY <2>3, <2>4, <2>5, <2>11 DEF p, q, all, k, l, u
<1> QED
  BY <1>3, <1>4

\* What a chain's boundary says of its tokens: the latest assistant message o
\* begins after the first n response tokens and the rest of them are its own.
Delimits(b, n, o) ==
  /\ n \in 0..(Len(b.response_ids) - 1)
  /\ b.response_ids[n + 1].text = o
  /\ \A i \in (n + 1)..Len(b.response_ids) : b.response_ids[i].src # Nobody
  /\ \A i \in (n + 2)..Len(b.response_ids) : b.response_ids[i].text = Pad

\* The token before a cut belongs to the prefix rendered for the answer.
LEMMA PrefixIsContext ==
  ASSUME NEW b \in TrajectoryBuffer, BufferSound(b), NEW n \in 1..Len(b.response_ids),
         EndsWithPrefix(b, n)
  PROVE  b.response_ids[n].src = Nobody
<1> DEFINE q == b.response_ids
<1>1. q \in Seq(Token) /\ Len(q) \in Nat /\ n \in 0..Len(q) /\ n # 0
  <2>1. q \in Seq(Token) /\ Len(q) \in Nat /\ n \in 1..Len(q)
    BY BufferFields
  <2> HIDE DEF q
  <2> QED
    BY <2>1
<1>2. q[n].text = GenPrompt
  <2>0. n # 0
    BY <1>1
  <2>1. Take(q, n)[Len(Take(q, n))].text = GenPrompt
    BY <2>0 DEF EndsWithPrefix
  <2>2. q \in Seq(Token) /\ n \in 0..Len(q) /\ n \in 1..n
    BY <1>1
  <2> HIDE DEF q
  <2>3. Len(Take(q, n)) = n /\ Take(q, n)[n] = q[n]
    BY <2>2, TakeElements
  <2> QED
    BY <2>1, <2>3
<1> DEFINE x == Len(b.prompt_ids) + n
<1>3. Ids(b)[x] = q[n] /\ x \in 1..Len(Ids(b))
  <2>1. /\ Len(Ids(b)) = Len(b.prompt_ids) + Len(q) /\ Len(b.prompt_ids) \in Nat
        /\ \A i \in 1..Len(q) : Ids(b)[Len(b.prompt_ids) + i] = q[i]
    BY BufferFields
  <2>2. n \in 1..Len(q)
    OBVIOUS
  <2> HIDE DEF q
  <2> QED
    BY <1>1, <2>1, <2>2
<1>4. Answers(Ids(b))
  BY DEF BufferSound
<1> HIDE DEF x
<1> QED
  BY <1>2, <1>3, <1>4 DEF Answers, q

\* A rollback drops the latest generation version with its tokens (session.py
\* 416-445).
LEMMA CutVersions ==
  ASSUME NEW b \in TrajectoryBuffer, BufferSound(b), NEW o \in Messages, NEW n,
         Delimits(b, n, o), EndsWithPrefix(b, n)
  PROVE  LET m == IF n = 0 THEN 0 ELSE n - 1
             g == b.generation_versions
         IN  /\ Len(g) \in Nat \ {0}
             /\ Selects(Take(g, Len(g) - 1), Mapped(AuthorOf, Take(b.response_ids, m)), Requests)
             /\ g[Len(g)] = b.response_ids[n + 1].src
<1> DEFINE m == IF n = 0 THEN 0 ELSE n - 1
           g == b.generation_versions
           q == b.response_ids
           s == Mapped(AuthorOf, q)
           j == n + 1
<1>1. /\ q \in Seq(Token) /\ g \in Seq(Requests) /\ Len(q) \in Nat
      /\ \A i \in 1..Len(q) : q[i] \in Token
  BY BufferFields, ElementOfSeq
<1>2. /\ n \in 0..(Len(q) - 1) /\ q[n + 1].text = o /\ q[n + 1].src # Nobody
      /\ \A i \in (n + 2)..Len(q) : q[i].text = Pad
  <2>1. n + 1 \in (n + 1)..Len(q)
    BY <1>1 DEF Delimits
  <2> QED
    BY <2>1 DEF Delimits
<1>3. Selects(g, s, Requests) /\ Answers(Ids(b))
  BY DEF BufferSound
<1>4. n # 0 => q[n].src = Nobody
  <2>1. n # 0 => n \in 1..Len(q)
    BY <1>1, <1>2
  <2> QED
    BY <2>1, PrefixIsContext
<1>5. /\ s \in Seq(AuthorValue) /\ Len(s) = Len(q)
      /\ \A i \in 1..Len(q) : s[i] = IF q[i].text = Pad THEN Nobody ELSE q[i].src
      /\ \A k \in 0..Len(q) : Mapped(AuthorOf, Take(q, k)) = Take(s, k)
  BY <1>1, AuthorsOf
<1>6. m \in 0..(j - 1) /\ m \in 0..Len(q) /\ j \in 1..Len(q)
  BY <1>1, <1>2
<1>7. s[j] = q[j].src /\ s[j] \in Requests
  <2>1. o # Pad
    BY DEF SessionAssumption
  <2>2. s[j] = q[j].src
    BY <1>2, <1>5, <1>6, <2>1
  <2>3. q[j].src \in Requests \cup {Nobody}
    BY <1>1, <1>6 DEF Token
  <2> QED
    BY <1>2, <2>2, <2>3
<1>8. ASSUME NEW i \in (m + 1)..Len(s), i # j PROVE s[i] \notin Requests
  <2>1. i \in 1..Len(q) /\ ((i = n /\ n # 0) \/ i \in (n + 2)..Len(q))
    BY <1>1, <1>2, <1>5, <1>8
  <2>2. s[i] = Nobody
    BY <1>2, <1>4, <1>5, <2>1
  <2> QED
    BY <2>2 DEF SessionAssumption
<1> HIDE DEF m, g, q, s, j
<1>9. /\ Len(g) \in Nat \ {0}
      /\ Selects(Take(g, Len(g) - 1), Take(s, m), Requests)
      /\ g[Len(g)] = s[j]
  <2>1. j \in 1..Len(s)
    BY <1>5, <1>6
  <2> QED
    BY <1>1, <1>3, <1>5, <1>6, <1>7, <1>8, <2>1, SelectsFront
<1>10. Take(s, m) = Mapped(AuthorOf, Take(q, m))
  BY <1>5, <1>6
<1> QED
  BY <1>7, <1>9, <1>10 DEF m, g, q, j

\* What is left after a rollback says the messages before the assistant that
\* was cut (session.py 416-445).
LEMMA CutMessages ==
  ASSUME NEW b \in TrajectoryBuffer, BufferSound(b), NEW o \in Messages, NEW n,
         Delimits(b, n, o), EndsWithPrefix(b, n), NEW tip \in Seq(Messages),
         Says(b, Append(tip, o))
  PROVE  Says(CutLastAssistant(b, n), tip)
<1> DEFINE all == Ids(b)
           p == Len(b.prompt_ids)
           k == p + n - 1
           j == p + n + 1
           s == Mapped(TextOf, all)
           h == Append(tip, o)
           cut == CutLastAssistant(b, n)
<1>1. /\ all \in Seq(Token) /\ p \in Nat /\ Len(b.response_ids) \in Nat
      /\ Len(all) = p + Len(b.response_ids)
      /\ \A i \in 1..Len(b.response_ids) : all[p + i] = b.response_ids[i]
  BY BufferFields
<1> HIDE DEF all, p
<1>2. /\ n \in 0..(Len(b.response_ids) - 1) /\ b.response_ids[n + 1].text = o
      /\ \A i \in (n + 2)..Len(b.response_ids) : b.response_ids[i].text = Pad
  BY DEF Delimits
<1>3. /\ k \in 0..Len(all) /\ k + 1 \in 1..Len(all) /\ all[k + 1].text = GenPrompt
      /\ Ids(cut) = Take(all, k)
  <2>1. n \in 0..Len(b.response_ids)
    BY <1>1, <1>2
  <2> QED
    BY <2>1, IdsCut DEF all, p
<1>4. /\ s \in Seq(TextValue) /\ Len(s) = Len(all)
      /\ \A i \in 1..Len(all) : s[i] = all[i].text
      /\ \A x \in 0..Len(all) : Mapped(TextOf, Take(all, x)) = Take(s, x)
  <2>1. all \in Seq(Token)
    BY <1>1
  <2> QED
    BY <2>1, TextsOf
<1> HIDE DEF s
<1>5. j \in 1..Len(all) /\ k \in 0..(j - 1) /\ k + 2 = j
  BY <1>1, <1>2, <1>3
<1>k. k = p + n - 1 /\ j = p + n + 1
  OBVIOUS
<1> HIDE DEF k, j
<1> DEFINE q == b.response_ids
           l == Len(q)
<1>len. p \in Nat /\ l \in Nat /\ n \in Nat /\ Len(all) = p + l /\ n \in 0..(l - 1)
  BY <1>1, <1>2
<1> HIDE DEF l
<1>6. s[j] = o
  <2>1. n + 1 \in 1..l /\ p + (n + 1) = j
    BY <1>1, <1>k, <1>len
  <2>2. all[j] = q[n + 1]
    BY <1>1, <2>1 DEF l
  <2> QED
    BY <1>2, <1>4, <1>5, <2>2
<1>7. ASSUME NEW i \in (k + 1)..Len(s), i # j PROVE s[i] \notin Messages
  <2>0. Len(s) = p + l /\ k + 2 = j
    BY <1>4, <1>5, <1>len
  <2>1. i = k + 1 \/ i \in (j + 1)..(p + l)
    BY <1>1, <1>3, <1>7, <1>k, <1>len, <2>0
  <2>2. CASE i = k + 1
    BY <1>3, <1>4, <2>2 DEF SessionAssumption
  <2>3. CASE i \in (j + 1)..(p + l)
    <3>1. i - p \in (n + 2)..l /\ i - p \in 1..l /\ p + (i - p) = i /\ i \in 1..(p + l)
      BY <1>k, <1>len, <2>3
    <3>2. all[i] = q[i - p] /\ q[i - p].text = Pad
      BY <1>1, <1>2, <3>1 DEF l
    <3> QED
      BY <1>4, <1>len, <3>1, <3>2 DEF SessionAssumption
  <2> QED
    BY <2>1, <2>2, <2>3
<1>8. /\ h \in Seq(Messages) /\ Len(h) - 1 = Len(tip) /\ Take(h, Len(tip)) = tip
  <2>1. Len(tip) \in Nat /\ Len(h) = Len(tip) + 1 /\ h \in Seq(Messages)
    BY LenProperties, AppendProperties
  <2> QED
    BY <2>1, TakeAppend
<1>9. Selects(h, s, Messages)
  BY DEF Says, s, all
<1> HIDE DEF h, cut
<1>10. Selects(Take(h, Len(h) - 1), Take(s, k), Messages)
  <2>1. j \in 1..Len(s) /\ s[j] \in Messages
    BY <1>4, <1>5, <1>6
  <2> QED
    BY <1>4, <1>5, <1>7, <1>8, <1>9, <2>1, SelectsFront
<1>11. Mapped(TextOf, Ids(cut)) = Take(s, k)
  BY <1>3, <1>4
<1> QED
  BY <1>8, <1>10, <1>11 DEF Says, cut

\* A rollback leaves a sound buffer that says what came before the cut.
LEMMA CutSound ==
  ASSUME NEW b \in TrajectoryBuffer, BufferSound(b), NEW o \in Messages, NEW n,
         Delimits(b, n, o), EndsWithPrefix(b, n)
  PROVE  BufferSound(CutLastAssistant(b, n)) /\ Settled(CutLastAssistant(b, n))
<1> DEFINE cut == CutLastAssistant(b, n)
           m == IF n = 0 THEN 0 ELSE n - 1
           all == Ids(b)
           k == Len(b.prompt_ids) + n - 1
<1>1. /\ b.response_ids \in Seq(Token) /\ b.response_mask \in Seq({0, 1})
      /\ Len(b.response_ids) \in Nat /\ all \in Seq(Token)
  BY BufferFields
<1>2. n \in 0..(Len(b.response_ids) - 1) /\ n \in 0..Len(b.response_ids)
      /\ m \in 0..Len(b.response_ids)
  BY <1>1 DEF Delimits
<1>3. /\ k \in 0..Len(all) /\ k + 1 \in 1..Len(all) /\ all[k + 1].text = GenPrompt
      /\ Ids(cut) = Take(all, k)
  BY <1>2, IdsCut
<1>4. /\ cut.response_ids = Take(b.response_ids, m)
      /\ cut.response_mask = Take(b.response_mask, m)
      /\ cut.response_logprobs = IF Logprobs THEN Take(b.response_logprobs, m) ELSE << >>
      /\ cut.generation_versions = Take(b.generation_versions, Len(b.generation_versions) - 1)
  BY DEF CutLastAssistant
<1>5. Marks(cut.response_ids, cut.response_mask)
  <2> HIDE DEF cut, m, k
  <2> QED
    BY <1>1, <1>2, <1>4, MarksTake DEF BufferSound
<1>6. cut.response_logprobs = IF Logprobs THEN cut.response_mask ELSE << >>
  <2> HIDE DEF cut, m, k
  <2> QED
    BY <1>4 DEF BufferSound
<1>7. Selects(cut.generation_versions, Mapped(AuthorOf, cut.response_ids), Requests)
  BY <1>4, CutVersions
<1>8. Answers(all)
  BY DEF BufferSound
<1> HIDE DEF cut, m, k, all
<1>9. Answers(Ids(cut))
  BY <1>1, <1>3, <1>8, AnswersTake
<1>10. BufferSound(cut)
  BY <1>5, <1>6, <1>7, <1>9 DEF BufferSound
<1>11. Settled(cut)
  <2>1. all[k + 1].src = Nobody
    BY <1>3, <1>8 DEF Answers
  <2>2. /\ Take(all, k) \in Seq(Token) /\ Len(Take(all, k)) = k
        /\ \A i \in 1..k : Take(all, k)[i] = all[i]
    BY <1>1, <1>3, TakeElements
  <2>3. CASE k = 0
    BY <1>3, <2>2, <2>3, EmptySeq DEF Settled
  <2>4. CASE k # 0
    <3>1. k \in 1..k /\ k \in 1..(Len(all) - 1) /\ Len(all) \in Nat
      BY <1>1, <1>3, <2>4, LenProperties
    <3>2. all[k].text # GenPrompt
      BY <1>8, <2>1, <3>1 DEF Answers
    <3> QED
      BY <1>3, <2>2, <3>1, <3>2 DEF Settled
  <2> QED
    BY <2>3, <2>4
<1> QED
  BY <1>10, <1>11 DEF cut
=============================================================================

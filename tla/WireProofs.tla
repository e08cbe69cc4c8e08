----------------------------- MODULE WireProofs -----------------------------
(***************************************************************************)
(* Proofs about the codecs of module Wire, for the messages of one depth:  *)
(* if those of the messages inside keep what they are given, so do these,  *)
(* whatever the fields and the values.                                     *)
(***************************************************************************)
EXTENDS Wire, SequenceTheorems, WellFoundedInduction, TLAPS

\* The induction of the natural numbers, from the least element of a set.
LEMMA Induction ==
    ASSUME NEW T \in SUBSET Nat, 0 \in T, \A k \in T : k + 1 \in T
    PROVE  T = Nat
<1> DEFINE rest == Nat \ T
<1> SUFFICES ASSUME rest # {} PROVE FALSE
  OBVIOUS
<1>1. PICK m \in rest : \A k \in rest : <<k, m>> \notin OpToRel(<, Nat)
  BY NatLessThanWellFounded, WFMin
<1>2. m # 0 /\ m - 1 \in Nat
  OBVIOUS
<1>3. <<m - 1, m>> \in OpToRel(<, Nat)
  BY <1>2 DEF OpToRel
<1>4. m - 1 \in T
  BY <1>1, <1>2, <1>3
<1> QED
  BY <1>2, <1>4

\* The induction of the sequences, from the front.
LEMMA SeqInduction ==
    ASSUME NEW S, NEW P \in SUBSET Seq(S), <<>> \in P,
           \A s \in P : \A e \in S : Append(s, e) \in P
    PROVE  P = Seq(S)
<1> DEFINE T == {n \in Nat : \A u \in Seq(S) : Len(u) = n => u \in P}
<1>1. 0 \in T
  <2>1. ASSUME NEW u \in Seq(S), Len(u) = 0 PROVE u = <<>>
    BY <2>1, EmptySeq
  <2> QED
    BY <2>1
<1>2. ASSUME NEW n \in T PROVE n + 1 \in T
  <2> SUFFICES ASSUME NEW u \in Seq(S), Len(u) = n + 1 PROVE u \in P
    OBVIOUS
  <2>1. u # <<>>
    BY EmptySeq
  <2>2. PICK s \in Seq(S), e \in S : u = Append(s, e)
    BY <2>1, SequenceEmptyOrAppend
  <2>3. Len(s) = n
    BY <2>2, AppendProperties, LenProperties
  <2> QED
    BY <2>2, <2>3
<1>3. T = Nat
  <2>1. T \in SUBSET Nat
    OBVIOUS
  <2> HIDE DEF T
  <2> QED
    BY <1>1, <1>2, <2>1, Induction
<1>4. ASSUME NEW u \in Seq(S) PROVE u \in P
  <2>1. Len(u) \in T
    <3> HIDE DEF T
    <3> QED
      BY <1>3
  <2> QED
    BY <2>1
<1> QED
  BY <1>4

-----------------------------------------------------------------------------
(***************************************************************************)
(* The loop of decode takes one token after the other.                     *)
(***************************************************************************)
IsLoop(f, fields, start, tokens, len) ==
    f = [k \in 0 .. len |-> IF k = 0 THEN start ELSE Turn(fields, f[k - 1], tokens[k])]

LEMMA LoopExists ==
    ASSUME NEW fields, NEW start, NEW tokens, NEW len \in Nat
    PROVE  \E f : IsLoop(f, fields, start, tokens, len)
<1> DEFINE T == {k \in Nat : \E f : IsLoop(f, fields, start, tokens, k)}
<1>1. 0 \in T
  <2>1. IsLoop([k \in 0 .. 0 |-> start], fields, start, tokens, 0)
    BY DEF IsLoop
  <2> QED
    BY <2>1
<1>2. ASSUME NEW k \in T PROVE k + 1 \in T
  <2>1. PICK f : IsLoop(f, fields, start, tokens, k)
    OBVIOUS
  <2> DEFINE g == [j \in 0 .. k + 1 |->
                      IF j = k + 1 THEN Turn(fields, f[k], tokens[k + 1]) ELSE f[j]]
  <2>2. \A j \in 0 .. k :
            f[j] = IF j = 0 THEN start ELSE Turn(fields, f[j - 1], tokens[j])
    BY <2>1, Zenon DEF IsLoop
  <2>3. ASSUME NEW j \in 0 .. k + 1
        PROVE  g[j] = IF j = 0 THEN start ELSE Turn(fields, g[j - 1], tokens[j])
    <3>1. CASE j = k + 1
      BY <3>1
    <3>2. CASE j # k + 1
      <4>1. j \in 0 .. k /\ (j # 0 => j - 1 \in 0 .. k + 1 /\ j - 1 # k + 1)
        BY <3>2
      <4> QED
        BY <2>2, <4>1
    <3> QED
      BY <3>1, <3>2
  <2>4. IsLoop(g, fields, start, tokens, k + 1)
    <3> HIDE DEF T
    <3> SUFFICES g = [j \in 0 .. k + 1 |->
                         IF j = 0 THEN start ELSE Turn(fields, g[j - 1], tokens[j])]
      BY DEF IsLoop
    <3> QED
      BY <2>3
  <2> HIDE DEF g
  <2> QED
    BY <2>4
<1> HIDE DEF T
<1>3. T = Nat
  <2>1. T \in SUBSET Nat
    BY DEF T
  <2> QED
    BY <1>1, <1>2, <2>1, Induction
<1> QED
  BY <1>3 DEF T

LEMMA LoopUnique ==
    ASSUME NEW fields, NEW start, NEW tokens, NEW more,
           NEW m \in Nat, NEW len \in Nat, m <= len,
           \A k \in 1 .. m : tokens[k] = more[k],
           NEW f, NEW g,
           IsLoop(f, fields, start, tokens, m), IsLoop(g, fields, start, more, len)
    PROVE  f[m] = g[m]
<1> DEFINE T == {k \in Nat : k <= m => f[k] = g[k]}
<1>1. /\ \A k \in 0 .. m :
             f[k] = IF k = 0 THEN start ELSE Turn(fields, f[k - 1], tokens[k])
      /\ \A k \in 0 .. len :
             g[k] = IF k = 0 THEN start ELSE Turn(fields, g[k - 1], more[k])
  BY Zenon DEF IsLoop
<1>2. 0 \in T
  BY <1>1
<1>3. ASSUME NEW k \in T PROVE k + 1 \in T
  <2> SUFFICES ASSUME k + 1 <= m PROVE f[k + 1] = g[k + 1]
    OBVIOUS
  <2>1. k + 1 \in 1 .. m /\ k + 1 \in 0 .. len /\ (k + 1) - 1 = k /\ k + 1 # 0
    OBVIOUS
  <2>2. f[k + 1] = Turn(fields, f[k], tokens[k + 1]) /\ g[k + 1] = Turn(fields, g[k], more[k + 1])
    BY <1>1, <2>1
  <2>3. f[k] = g[k] /\ tokens[k + 1] = more[k + 1]
    BY <2>1
  <2> QED
    BY <2>2, <2>3
<1>4. T = Nat
  <2> HIDE DEF T
  <2>1. T \in SUBSET Nat
    BY DEF T
  <2> QED
    BY <1>2, <1>3, <2>1, Induction
<1> QED
  BY <1>4

LEMMA LoopIs ==
    ASSUME NEW fields, NEW start, NEW S, NEW tokens \in Seq(S)
    PROVE  \E f : /\ IsLoop(f, fields, start, tokens, Len(tokens))
                  /\ Loop(fields, start, tokens) = f[Len(tokens)]
<1> DEFINE f == CHOOSE f : IsLoop(f, fields, start, tokens, Len(tokens))
<1>1. IsLoop(f, fields, start, tokens, Len(tokens))
  BY LoopExists
<1>2. Loop(fields, start, tokens) = f[Len(tokens)]
  BY DEF Loop, IsLoop
<1> QED
  BY <1>1, <1>2

LEMMA LoopEmpty ==
    ASSUME NEW fields, NEW start
    PROVE  Loop(fields, start, <<>>) = start
<1>1. <<>> \in Seq({}) /\ Len(<<>>) = 0
  OBVIOUS
<1>2. PICK f : IsLoop(f, fields, start, <<>>, 0) /\ Loop(fields, start, <<>>) = f[0]
  BY <1>1, LoopIs
<1>3. \A k \in 0 .. 0 : f[k] = IF k = 0 THEN start ELSE Turn(fields, f[k - 1], <<>>[k])
  BY <1>2, Zenon DEF IsLoop
<1> QED
  BY <1>2, <1>3

LEMMA LoopAppend ==
    ASSUME NEW fields, NEW start, NEW S, NEW tokens \in Seq(S), NEW token \in S
    PROVE  Loop(fields, start, Append(tokens, token)) =
               Turn(fields, Loop(fields, start, tokens), token)
<1> DEFINE more == Append(tokens, token)
           m == Len(tokens)
<1>1. /\ more \in Seq(S) /\ Len(more) = m + 1 /\ m \in Nat
      /\ more[m + 1] = token
      /\ \A k \in 1 .. m : tokens[k] = more[k]
  OBVIOUS
<1>2. PICK f : IsLoop(f, fields, start, tokens, m) /\ Loop(fields, start, tokens) = f[m]
  BY LoopIs
<1>3. PICK g : IsLoop(g, fields, start, more, m + 1) /\ Loop(fields, start, more) = g[m + 1]
  BY <1>1, LoopIs
<1> HIDE DEF more, m
<1>4. f[m] = g[m]
  <2>1. m + 1 \in Nat /\ m <= m + 1
    BY <1>1
  <2> QED
    BY <1>1, <1>2, <1>3, <2>1, LoopUnique
<1>5. g[m + 1] = Turn(fields, g[m], more[m + 1])
  <2>1. m + 1 \in Nat /\ m + 1 \in 0 .. m + 1 /\ m + 1 # 0 /\ (m + 1) - 1 = m
    BY <1>1
  <2>2. \A k \in 0 .. m + 1 :
            g[k] = IF k = 0 THEN start ELSE Turn(fields, g[k - 1], more[k])
    BY <1>3, Zenon DEF IsLoop
  <2> QED
    BY <1>3, <2>1, <2>2
<1> QED
  BY <1>1, <1>2, <1>3, <1>4, <1>5 DEF more

LEMMA ConcatAppend ==
    ASSUME NEW S, NEW s \in Seq(S), NEW t \in Seq(S), NEW e \in S
    PROVE  s \o Append(t, e) = Append(s \o t, e)
<1>1. <<e>> \in Seq(S) /\ s \o t \in Seq(S)
  BY ConcatProperties
<1>2. Append(t, e) = t \o <<e>> /\ Append(s \o t, e) = (s \o t) \o <<e>>
  BY <1>1, AppendIsConcat
<1>3. (s \o t) \o <<e>> = s \o (t \o <<e>>)
  BY <1>1, ConcatAssociative
<1> QED
  BY <1>2, <1>3

LEMMA LoopConcat ==
    ASSUME NEW fields, NEW start, NEW S, NEW s \in Seq(S), NEW t \in Seq(S)
    PROVE  Loop(fields, start, s \o t) = Loop(fields, Loop(fields, start, s), t)
<1> DEFINE P == {u \in Seq(S) :
                    Loop(fields, start, s \o u) = Loop(fields, Loop(fields, start, s), u)}
<1>1. <<>> \in P
  BY EmptySeq, ConcatEmptySeq, LoopEmpty
<1>2. ASSUME NEW u \in P, NEW e \in S PROVE Append(u, e) \in P
  <2>1. u \in Seq(S) /\ s \o u \in Seq(S) /\ Append(u, e) \in Seq(S)
    BY ConcatProperties, AppendProperties
  <2>2. \A w \in Seq(S) : Loop(fields, start, Append(w, e)) = Turn(fields, Loop(fields, start, w), e)
    BY LoopAppend
  <2>3. Loop(fields, Loop(fields, start, s), Append(u, e)) =
            Turn(fields, Loop(fields, Loop(fields, start, s), u), e)
    BY <2>1, LoopAppend
  <2>4. s \o Append(u, e) = Append(s \o u, e)
    BY <2>1, ConcatAppend
  <2> QED
    BY <2>1, <2>2, <2>3, <2>4
<1>3. P = Seq(S)
  <2>1. P \in SUBSET Seq(S)
    OBVIOUS
  <2> HIDE DEF P
  <2> QED
    BY <1>1, <1>2, <2>1, SeqInduction
<1> QED
  BY <1>3

\* Tokens that change nothing change nothing together.
LEMMA LoopIdle ==
    ASSUME NEW fields, NEW so, NEW S, NEW tokens \in Seq(S),
           \A t \in S : Turn(fields, so, t) = so
    PROVE  Loop(fields, so, tokens) = so
<1> DEFINE P == {u \in Seq(S) : Loop(fields, so, u) = so}
<1>1. <<>> \in P
  BY EmptySeq, LoopEmpty
<1>2. ASSUME NEW u \in P, NEW e \in S PROVE Append(u, e) \in P
  BY LoopAppend, AppendProperties
<1>3. P = Seq(S)
  <2>1. P \in SUBSET Seq(S)
    OBVIOUS
  <2> HIDE DEF P
  <2> QED
    BY <1>1, <1>2, <2>1, SeqInduction
<1> QED
  BY <1>3

-----------------------------------------------------------------------------
(***************************************************************************)
(* encode writes one field after the other.                                *)
(***************************************************************************)
IsFlat(f, seqs, len) ==
    f = [k \in 1 .. len |-> IF k = 1 THEN seqs[k] ELSE f[k - 1] \o seqs[k]]

LEMMA FlatExists ==
    ASSUME NEW seqs, NEW len \in Nat
    PROVE  \E f : IsFlat(f, seqs, len)
<1> DEFINE T == {k \in Nat : \E f : IsFlat(f, seqs, k)}
<1>1. 0 \in T
  <2>1. IsFlat([k \in 1 .. 0 |-> <<>>], seqs, 0)
    BY DEF IsFlat
  <2> QED
    BY <2>1
<1>2. ASSUME NEW k \in T PROVE k + 1 \in T
  <2>1. PICK f : IsFlat(f, seqs, k)
    OBVIOUS
  <2> DEFINE next == IF k = 0 THEN seqs[1] ELSE f[k] \o seqs[k + 1]
             g == [j \in 1 .. k + 1 |-> IF j = k + 1 THEN next ELSE f[j]]
  <2>2. \A j \in 1 .. k : f[j] = IF j = 1 THEN seqs[j] ELSE f[j - 1] \o seqs[j]
    BY <2>1, Zenon DEF IsFlat
  <2>3. ASSUME NEW j \in 1 .. k + 1
        PROVE  g[j] = IF j = 1 THEN seqs[j] ELSE g[j - 1] \o seqs[j]
    <3>1. CASE j = k + 1
      <4>1. g[j] = next
        BY <3>1
      <4>2. CASE k = 0
        BY <3>1, <4>1, <4>2
      <4>3. CASE k # 0
        <5>1. j # 1 /\ j - 1 = k /\ k \in 1 .. k + 1 /\ k # k + 1
          BY <3>1, <4>3
        <5>2. g[k] = f[k]
          BY <5>1
        <5> QED
          BY <3>1, <4>1, <4>3, <5>1, <5>2
      <4> QED
        BY <4>2, <4>3
    <3>2. CASE j # k + 1
      <4>1. j \in 1 .. k /\ (j # 1 => j - 1 \in 1 .. k + 1 /\ j - 1 # k + 1)
        BY <3>2
      <4> QED
        BY <2>2, <4>1
    <3> QED
      BY <3>1, <3>2
  <2>4. IsFlat(g, seqs, k + 1)
    <3> HIDE DEF T
    <3> SUFFICES g = [j \in 1 .. k + 1 |->
                         IF j = 1 THEN seqs[j] ELSE g[j - 1] \o seqs[j]]
      BY DEF IsFlat
    <3> QED
      BY <2>3
  <2> HIDE DEF g
  <2> QED
    BY <2>4
<1> HIDE DEF T
<1>3. T = Nat
  <2>1. T \in SUBSET Nat
    BY DEF T
  <2> QED
    BY <1>1, <1>2, <2>1, Induction
<1> QED
  BY <1>3 DEF T

LEMMA FlatUnique ==
    ASSUME NEW seqs, NEW more, NEW m \in Nat, NEW len \in Nat, m <= len,
           \A k \in 1 .. m : seqs[k] = more[k],
           NEW f, NEW g, IsFlat(f, seqs, m), IsFlat(g, more, len)
    PROVE  m # 0 => f[m] = g[m]
<1> DEFINE T == {k \in Nat : k \in 1 .. m => f[k] = g[k]}
<1>1. /\ \A k \in 1 .. m : f[k] = IF k = 1 THEN seqs[k] ELSE f[k - 1] \o seqs[k]
      /\ \A k \in 1 .. len : g[k] = IF k = 1 THEN more[k] ELSE g[k - 1] \o more[k]
  BY Zenon DEF IsFlat
<1>2. 0 \in T
  OBVIOUS
<1>3. ASSUME NEW k \in T PROVE k + 1 \in T
  <2> SUFFICES ASSUME k + 1 \in 1 .. m PROVE f[k + 1] = g[k + 1]
    OBVIOUS
  <2>1. k + 1 \in 1 .. len /\ (k + 1) - 1 = k /\ seqs[k + 1] = more[k + 1]
    OBVIOUS
  <2>2. CASE k = 0
    BY <1>1, <2>1, <2>2
  <2>3. CASE k # 0
    <3>1. k \in 1 .. m /\ k + 1 # 1
      BY <2>3
    <3>2. f[k + 1] = f[k] \o seqs[k + 1] /\ g[k + 1] = g[k] \o more[k + 1]
      BY <1>1, <2>1, <3>1
    <3> QED
      BY <2>1, <3>1, <3>2
  <2> QED
    BY <2>2, <2>3
<1>4. T = Nat
  <2> HIDE DEF T
  <2>1. T \in SUBSET Nat
    BY DEF T
  <2> QED
    BY <1>2, <1>3, <2>1, Induction
<1> QED
  BY <1>4

LEMMA FlatIs ==
    ASSUME NEW S, NEW seqs \in Seq(S), seqs # <<>>
    PROVE  \E f : /\ IsFlat(f, seqs, Len(seqs))
                  /\ FlattenSeq(seqs) = f[Len(seqs)]
<1> DEFINE f == CHOOSE f : IsFlat(f, seqs, Len(seqs))
<1>1. IsFlat(f, seqs, Len(seqs)) /\ Len(seqs) # 0
  BY FlatExists, EmptySeq
<1>2. FlattenSeq(seqs) = f[Len(seqs)]
  BY <1>1 DEF FlattenSeq, IsFlat
<1> QED
  BY <1>1, <1>2

LEMMA FlattenEmpty == FlattenSeq(<<>>) = <<>>
  BY EmptySeq DEF FlattenSeq

LEMMA FlattenAppend ==
    ASSUME NEW S, NEW seqs \in Seq(Seq(S)), NEW s \in Seq(S)
    PROVE  FlattenSeq(Append(seqs, s)) = FlattenSeq(seqs) \o s
<1> DEFINE more == Append(seqs, s)
           m == Len(seqs)
<1>1. /\ more \in Seq(Seq(S)) /\ more # <<>> /\ Len(more) = m + 1 /\ m \in Nat
      /\ more[m + 1] = s
      /\ \A k \in 1 .. m : seqs[k] = more[k]
  BY AppendProperties
<1> HIDE DEF more
<1>2. PICK g : IsFlat(g, more, m + 1) /\ FlattenSeq(more) = g[m + 1]
  BY <1>1, FlatIs
<1>3. \A k \in 1 .. m + 1 : g[k] = IF k = 1 THEN more[k] ELSE g[k - 1] \o more[k]
  BY <1>2, Zenon DEF IsFlat
<1>4. CASE seqs = <<>>
  <2>1. m = 0 /\ FlattenSeq(seqs) = <<>>
    BY <1>4, EmptySeq, FlattenEmpty
  <2>2. g[1] = s
    BY <1>1, <1>3, <2>1
  <2>3. <<>> \o s = s
    BY ConcatEmptySeq
  <2> QED
    BY <1>2, <2>1, <2>2, <2>3 DEF more
<1>5. CASE seqs # <<>>
  <2>1. m \in 1 .. m /\ m + 1 \in Nat /\ m <= m + 1 /\ m + 1 # 1 /\ (m + 1) - 1 = m
    BY <1>1, <1>5, EmptySeq
  <2>2. PICK f : IsFlat(f, seqs, m) /\ FlattenSeq(seqs) = f[m]
    BY <1>5, FlatIs
  <2> HIDE DEF m
  <2>3. f[m] = g[m]
    <3>1. m \in Nat /\ m # 0 /\ m + 1 \in Nat /\ m <= m + 1 /\ \A k \in 1 .. m : seqs[k] = more[k]
      BY <1>1, <2>1
    <3>2. IsFlat(f, seqs, m) /\ IsFlat(g, more, m + 1)
      BY <1>2, <2>2
    <3>3. \A q : (\A k \in 1 .. m : q[k] = more[k]) /\ IsFlat(f, q, m) => f[m] = g[m]
      BY <3>1, <3>2, FlatUnique
    <3> QED
      BY <3>1, <3>2, <3>3
  <2>4. g[m + 1] = g[m] \o s
    <3>1. m + 1 \in 1 .. m + 1
      BY <1>1
    <3>2. g[m + 1] = g[(m + 1) - 1] \o more[m + 1]
      BY <1>3, <2>1, <3>1, Zenon
    <3> QED
      BY <1>1, <2>1, <3>2, Zenon
  <2> QED
    BY <1>2, <2>1, <2>2, <2>3, <2>4, Zenon DEF more
<1> QED
  BY <1>4, <1>5

LEMMA FlattenTypes ==
    ASSUME NEW S, NEW seqs \in Seq(Seq(S))
    PROVE  FlattenSeq(seqs) \in Seq(S)
<1> DEFINE P == {u \in Seq(Seq(S)) : FlattenSeq(u) \in Seq(S)}
<1>1. <<>> \in P
  BY EmptySeq, FlattenEmpty
<1>2. ASSUME NEW u \in P, NEW e \in Seq(S) PROVE Append(u, e) \in P
  BY FlattenAppend, AppendProperties, ConcatProperties
<1>3. P = Seq(Seq(S))
  <2>1. P \in SUBSET Seq(Seq(S))
    OBVIOUS
  <2> HIDE DEF P
  <2> QED
    BY <1>1, <1>2, <2>1, SeqInduction
<1> QED
  BY <1>3

LEMMA EncodeAppend ==
    ASSUME NEW S, NEW all, NEW fields \in Seq(all), NEW f \in all, NEW m,
           \A g \in all : EncodeField(g, m[g.name]) \in Seq(S)
    PROVE  /\ Encode(<<>>, m) = <<>>
           /\ Encode(fields, m) \in Seq(S)
           /\ Encode(Append(fields, f), m) =
                  Encode(fields, m) \o EncodeField(f, m[f.name])
<1> DEFINE written(fs) == [k \in DOMAIN fs |-> EncodeField(fs[k], m[fs[k].name])]
           one == EncodeField(f, m[f.name])
<1>1. written(<<>>) = <<>>
  OBVIOUS
<1>2. written(fields) \in Seq(Seq(S))
  <2>1. DOMAIN fields = 1 .. Len(fields) /\ Len(fields) \in Nat
    OBVIOUS
  <2>2. \A k \in DOMAIN fields : fields[k] \in all
    OBVIOUS
  <2>3. written(fields) \in [1 .. Len(fields) -> Seq(S)]
    BY <2>1, <2>2
  <2> QED
    BY <2>1, <2>3
<1>3. written(Append(fields, f)) = Append(written(fields), one)
  <2> DEFINE more == Append(fields, f)
             n == Len(fields)
  <2>1. /\ n \in Nat /\ DOMAIN fields = 1 .. n /\ DOMAIN more = 1 .. n + 1
        /\ more[n + 1] = f /\ \A k \in 1 .. n : more[k] = fields[k]
    OBVIOUS
  <2>2. one \in Seq(S) /\ Len(written(fields)) = n
    BY <1>2, <2>1
  <2>3. /\ DOMAIN Append(written(fields), one) = 1 .. n + 1
        /\ Append(written(fields), one)[n + 1] = one
        /\ \A k \in 1 .. n : Append(written(fields), one)[k] = written(fields)[k]
    BY <1>2, <2>2, AppendProperties, LenProperties
  <2>4. Append(written(fields), one) = [k \in 1 .. n + 1 |-> Append(written(fields), one)[k]]
    BY <1>2, <2>2, <2>3, AppendProperties, LenProperties
  <2> QED
    BY <2>1, <2>2, <2>3, <2>4
<1> HIDE DEF written, one
<1>4. one \in Seq(S)
  BY DEF one
<1>5. FlattenSeq(Append(written(fields), one)) = FlattenSeq(written(fields)) \o one
  BY <1>2, <1>4, FlattenAppend
<1>6. Encode(<<>>, m) = FlattenSeq(written(<<>>)) /\ Encode(fields, m) = FlattenSeq(written(fields))
      /\ Encode(Append(fields, f), m) = FlattenSeq(written(Append(fields, f)))
  BY DEF Encode, written
<1> QED
  BY <1>1, <1>2, <1>3, <1>5, <1>6, FlattenEmpty, FlattenTypes DEF one

-----------------------------------------------------------------------------
(***************************************************************************)
(* The fields of a message have a number and a name of their own.  The     *)
(* messages of some types are kept by the codecs of the messages inside.   *)
(***************************************************************************)
Distinct(all) ==
    \A f, g \in all : f.number = g.number \/ f.name = g.name => f = g

InnerKept(some) ==
    \A t \in some : \A x : InnerProper(Schema[t], x) =>
        /\ InnerDecode(Schema[t], InnerEncode(Schema[t], x)) =
               IF InnerHasUnsafe(ToSet(Schema[t]), x) THEN Threw ELSE Returned(x)
        /\ InnerFromJSON(Schema[t], InnerToJSON(Schema[t], x)) = x

NestsIn(f, some) == f.kind \in Nested => f.of \in some

Repeats(f) == f.kind \in Nested \cup {"strings"}

\* One element of what a field holds is not safe.
ElementUnsafe(f, x) == f.kind \in Nested /\ InnerHasUnsafe(ToSet(Schema[f.of]), x)

\* The token of one element.
ElementToken(f, x) ==
    TokenOf(f, IF f.kind \in Nested THEN InnerEncode(Schema[f.of], x) ELSE x)

LEMMA SuitsSequence ==
    ASSUME NEW f, NEW v, Suits(f, v), Repeats(f)
    PROVE  /\ v \in Seq(ToSet(v))
           /\ f.kind = "message" => Len(v) <= 1
           /\ f.kind \in Nested => \A k \in DOMAIN v : InnerProper(Schema[f.of], v[k])
           /\ EncodeField(f, v) = [k \in DOMAIN v |-> ElementToken(f, v[k])]
           /\ Default(f) = <<>>
<1>1. CASE f.kind = "strings"
  <2>1. v \in Seq(Strings)
    BY <1>1 DEF Suits, Nested
  <2>2. v \in Seq(ToSet(v))
    BY <2>1 DEF ToSet
  <2> QED
    BY <1>1, <2>2 DEF EncodeField, ElementToken, Default, Nested
<1>2. CASE f.kind \in Nested
  <2>1. f.kind \notin {"string", "int32", "int64", "bool", "strings"}
    BY <1>2 DEF Nested
  <2>2. v \in Seq(ToSet(v)) /\ (f.kind = "message" => Len(v) <= 1)
        /\ \A k \in DOMAIN v : InnerProper(Schema[f.of], v[k])
    BY <1>2, <2>1 DEF Suits
  <2> QED
    BY <1>2, <2>1, <2>2 DEF EncodeField, ElementToken, Default
<1> QED
  BY <1>1, <1>2 DEF Repeats

LEMMA FieldTokens ==
    ASSUME NEW f, NEW v, Suits(f, v)
    PROVE  EncodeField(f, v) \in Seq(ToSet(EncodeField(f, v)))
<1>1. CASE Repeats(f)
  <2>1. v \in Seq(ToSet(v)) /\ EncodeField(f, v) = [k \in DOMAIN v |-> ElementToken(f, v[k])]
    BY <1>1, SuitsSequence
  <2> DEFINE e == EncodeField(f, v)
  <2>2. DOMAIN v = 1 .. Len(v) /\ Len(v) \in Nat
    BY <2>1, LenProperties
  <2>3. e \in [1 .. Len(v) -> ToSet(e)]
    BY <2>1, <2>2 DEF ToSet
  <2> HIDE DEF e
  <2>4. e \in Seq(ToSet(e))
    BY <2>2, <2>3
  <2> QED
    BY <2>4 DEF e
<1>2. CASE ~Repeats(f)
  <2>1. EncodeField(f, v) = <<TokenOf(f, v)>> \/ EncodeField(f, v) = <<>>
    BY <1>2 DEF Repeats, EncodeField
  <2>2. \A x : <<x>> \in Seq(ToSet(<<x>>))
    BY DEF ToSet
  <2>3. <<>> \in Seq(ToSet(<<>>))
    OBVIOUS
  <2> QED
    BY <2>1, <2>2, <2>3, Zenon
<1> QED
  BY <1>1, <1>2

LEMMA PrefixAppend ==
    ASSUME NEW S, NEW s \in Seq(S), NEW n \in Nat, n + 1 <= Len(s)
    PROVE  /\ SubSeq(s, 1, n) \in Seq(S) /\ s[n + 1] \in S
           /\ SubSeq(s, 1, n + 1) = Append(SubSeq(s, 1, n), s[n + 1])
<1>1. n + 1 \in 1 .. Len(s) /\ 1 \in 1 .. Len(s)
  OBVIOUS
<1>2. SubSeq(s, 1, n) \in Seq(S) /\ s[n + 1] \in S
  OBVIOUS
<1>3. SubSeq(s, 1, n + 1) = Append(SubSeq(s, 1, n), s[n + 1])
  OBVIOUS
<1> QED
  BY <1>2, <1>3

-----------------------------------------------------------------------------
(***************************************************************************)
(* What one turn of decode's loop makes of the token of a field.           *)
(***************************************************************************)
LEMMA KnownField ==
    ASSUME NEW all, Distinct(all), NEW reader, ToSet(reader) \subseteq all,
           NEW f \in all, NEW payload
    PROVE  Known(reader, TokenOf(f, payload)) = IF f \in ToSet(reader) THEN {f} ELSE {}
  BY DEF Known, TokenOf, Distinct

LEMMA TurnThrew ==
    ASSUME NEW reader, NEW token
    PROVE  Turn(reader, Threw, token) = Threw
  BY DEF Turn, Threw

LEMMA TurnUnknown ==
    ASSUME NEW all, Distinct(all), NEW reader, ToSet(reader) \subseteq all,
           NEW f \in all, f \notin ToSet(reader), NEW payload, NEW so
    PROVE  Turn(reader, so, TokenOf(f, payload)) = so
  BY KnownField DEF Turn

LEMMA TurnKnown ==
    ASSUME NEW all, Distinct(all), NEW reader, ToSet(reader) \subseteq all,
           NEW f \in ToSet(reader), NEW payload, NEW m
    PROVE  Turn(reader, Returned(m), TokenOf(f, payload)) = DecodeField(f, payload, m)
<1>1. Known(reader, TokenOf(f, payload)) = {f}
  BY KnownField
<1>2. (CHOOSE g \in {f} : TRUE) = f
  OBVIOUS
<1>3. TokenOf(f, payload).payload = payload
  BY DEF TokenOf
<1> QED
  BY <1>1, <1>2, <1>3 DEF Turn, Returned

\* A field is set to a value.
Set(m, f, v) == [m EXCEPT ![f.name] = v]

LEMMA ScalarRead ==
    ASSUME NEW all, Distinct(all), NEW reader, ToSet(reader) \subseteq all,
           NEW f \in ToSet(reader), ~Repeats(f), NEW v, Suits(f, v), MaxSafe \in Nat,
           NEW m, f.name \in DOMAIN m, m = [name \in DOMAIN m |-> m[name]],
           m[f.name] = Default(f)
    PROVE  Loop(reader, Returned(m), EncodeField(f, v)) =
               IF HoldsUnsafe(f, v) THEN Threw ELSE Returned(Set(m, f, v))
<1>1. f.kind \notin Nested /\ f.kind # "strings"
  BY DEF Repeats
<1>2. f.kind = "int64" => v \in Int /\ Default(f) = 0
  BY DEF Suits, Default, Nested
<1>3. HoldsUnsafe(f, v) <=> f.kind = "int64" /\ Unsafe(v)
  BY <1>1, <1>2 DEF HoldsUnsafe, Unsafe
<1>4. CASE v = Default(f)
  <2>1. EncodeField(f, v) = <<>>
    BY <1>1, <1>4 DEF EncodeField, Written
  <2>2. ~HoldsUnsafe(f, v)
    BY <1>2, <1>3, <1>4 DEF Unsafe
  <2>3. Set(m, f, v) = m
    BY <1>4 DEF Set
  <2> QED
    BY <2>1, <2>2, <2>3, LoopEmpty
<1>5. CASE v # Default(f)
  <2> DEFINE token == TokenOf(f, v)
  <2>1. EncodeField(f, v) = <<token>>
    BY <1>1, <1>5 DEF EncodeField, Written
  <2>2. Turn(reader, Returned(m), token) = DecodeField(f, v, m)
    BY TurnKnown
  <2>3. DecodeField(f, v, m) =
            IF HoldsUnsafe(f, v) THEN Threw ELSE Returned(Set(m, f, v))
    BY <1>1, <1>3 DEF DecodeField, Set
  <2> HIDE DEF token
  <2>4. <<>> \in Seq({token}) /\ <<token>> = Append(<<>>, token)
    OBVIOUS
  <2>5. \A u \in Seq({token}) : Loop(reader, Returned(m), Append(u, token)) =
                                    Turn(reader, Loop(reader, Returned(m), u), token)
    BY LoopAppend
  <2> QED
    BY <2>1, <2>2, <2>3, <2>4, <2>5, LoopEmpty
<1> QED
  BY <1>4, <1>5

\* A repeated field is read: what the lemmas below suppose.
Reads(all, some, reader, f, v, m) ==
    /\ Distinct(all) /\ ToSet(reader) \subseteq all
    /\ f \in ToSet(reader) /\ Repeats(f) /\ Suits(f, v)
    /\ InnerKept(some) /\ NestsIn(f, some)
    /\ f.name \in DOMAIN m /\ m = [name \in DOMAIN m |-> m[name]]

LEMMA ElementTurn ==
    ASSUME NEW all, NEW some, NEW reader, NEW f, NEW v, NEW m,
           Reads(all, some, reader, f, v, m), NEW n \in Nat, n + 1 <= Len(v)
    PROVE  Turn(reader, Returned(Set(m, f, SubSeq(v, 1, n))),
                ElementToken(f, v[n + 1])) =
               IF ElementUnsafe(f, v[n + 1]) THEN Threw
               ELSE Returned(Set(m, f, SubSeq(v, 1, n + 1)))
<1> USE DEF Reads
<1> DEFINE now == Set(m, f, SubSeq(v, 1, n))
           x == v[n + 1]
           payload == IF f.kind \in Nested THEN InnerEncode(Schema[f.of], x) ELSE x
<1>1. v \in Seq(ToSet(v)) /\ n + 1 \in DOMAIN v
  BY SuitsSequence, LenProperties
<1>2. SubSeq(v, 1, n + 1) = Append(SubSeq(v, 1, n), x)
  BY <1>1, PrefixAppend
<1>3. Turn(reader, Returned(now), ElementToken(f, x)) = DecodeField(f, payload, now)
  <2>1. ElementToken(f, x) = TokenOf(f, payload)
    BY DEF ElementToken
  <2> HIDE DEF now, payload
  <2>2. Turn(reader, Returned(now), TokenOf(f, payload)) = DecodeField(f, payload, now)
    BY TurnKnown
  <2> QED
    BY <2>1, <2>2
<1>4. now[f.name] = SubSeq(v, 1, n)
  BY DEF Set
<1>5. \A w : Set(now, f, w) = Set(m, f, w)
  BY DEF Set
<1> HIDE DEF now
<1>6. CASE f.kind = "strings"
  <2>1. f.kind \notin Nested
    BY <1>6 DEF Nested
  <2>2. DecodeField(f, payload, now) = Returned(Set(now, f, Append(now[f.name], x)))
    BY <1>6, <2>1 DEF DecodeField, Set
  <2> QED
    BY <1>2, <1>3, <1>4, <1>5, <2>1, <2>2 DEF now, ElementUnsafe
<1>7. CASE f.kind \in Nested
  <2>1. InnerProper(Schema[f.of], x) /\ f.of \in some
    BY <1>1, <1>7, SuitsSequence DEF NestsIn
  <2>2. InnerDecode(Schema[f.of], payload) =
            IF InnerHasUnsafe(ToSet(Schema[f.of]), x) THEN Threw ELSE Returned(x)
    BY <1>7, <2>1 DEF InnerKept
  <2>3. CASE ElementUnsafe(f, x)
    <3>1. InnerDecode(Schema[f.of], payload).thrown
      BY <2>2, <2>3 DEF ElementUnsafe, Threw
    <3> HIDE DEF payload
    <3>2. DecodeField(f, payload, now) = Threw
      BY <1>7, <3>1 DEF DecodeField, Nested
    <3> QED
      BY <1>3, <2>3, <3>2 DEF now
  <2>4. CASE ~ElementUnsafe(f, x)
    <3>1. /\ ~InnerDecode(Schema[f.of], payload).thrown
          /\ InnerDecode(Schema[f.of], payload).message = x
      BY <1>7, <2>2, <2>4 DEF ElementUnsafe, Returned
    <3> HIDE DEF payload
    <3>2. DecodeField(f, payload, now) =
              Returned(Set(now, f, IF f.kind = "message" THEN <<x>>
                                   ELSE Append(now[f.name], x)))
      BY <1>7, <3>1 DEF DecodeField, Nested, Set
    <3>3. f.kind = "message" => <<x>> = Append(SubSeq(v, 1, n), x)
      <4>1. f.kind = "message" => Len(v) <= 1
        BY SuitsSequence
      <4>2. f.kind = "message" => n = 0
        BY <1>1, <4>1
      <4> QED
        BY <4>2, <1>1
    <3>4. SubSeq(v, 1, n + 1) = IF f.kind = "message" THEN <<x>> ELSE Append(now[f.name], x)
      BY <1>2, <1>4, <3>3
    <3>5. DecodeField(f, payload, now) = Returned(Set(now, f, SubSeq(v, 1, n + 1)))
      BY <3>2, <3>4
    <3>6. DecodeField(f, payload, now) = Returned(Set(m, f, SubSeq(v, 1, n + 1)))
      BY <1>5, <3>5
    <3> QED
      BY <1>3, <2>4, <3>6 DEF now
  <2> QED
    BY <2>3, <2>4
<1> QED
  BY <1>6, <1>7 DEF Repeats

-----------------------------------------------------------------------------
(***************************************************************************)
(* What decode makes of the tokens of one field: all of it, or nothing of  *)
(* a field it does not know, or the exception.                             *)
(***************************************************************************)
LEMMA RepeatedRead ==
    ASSUME NEW all, NEW some, NEW reader, NEW f, NEW v, NEW m,
           Reads(all, some, reader, f, v, m), m[f.name] = Default(f)
    PROVE  Loop(reader, Returned(m), EncodeField(f, v)) =
               IF HoldsUnsafe(f, v) THEN Threw ELSE Returned(Set(m, f, v))
<1>0. ASSUME NEW n \in Nat, n + 1 <= Len(v)
      PROVE  Turn(reader, Returned(Set(m, f, SubSeq(v, 1, n))), ElementToken(f, v[n + 1])) =
                 IF ElementUnsafe(f, v[n + 1]) THEN Threw
                 ELSE Returned(Set(m, f, SubSeq(v, 1, n + 1)))
  BY <1>0, ElementTurn
<1> DEFINE e == EncodeField(f, v)
           now(n) == IF \E k \in 1 .. n : ElementUnsafe(f, v[k]) THEN Threw
                     ELSE Returned(Set(m, f, SubSeq(v, 1, n)))
           T == {n \in Nat : n <= Len(v) =>
                    Loop(reader, Returned(m), SubSeq(e, 1, n)) = now(n)}
<1>1. /\ v \in Seq(ToSet(v)) /\ e \in Seq(ToSet(e)) /\ DOMAIN v = 1 .. Len(v)
      /\ Len(v) \in Nat /\ Len(e) = Len(v)
      /\ \A k \in 1 .. Len(v) : e[k] = ElementToken(f, v[k])
  <2>1. v \in Seq(ToSet(v)) /\ e \in Seq(ToSet(e)) /\ e = [k \in DOMAIN v |-> ElementToken(f, v[k])]
    BY SuitsSequence, FieldTokens DEF Reads
  <2> HIDE DEF e
  <2>2. DOMAIN v = 1 .. Len(v) /\ DOMAIN e = 1 .. Len(e) /\ Len(v) \in Nat /\ Len(e) \in Nat
    BY <2>1, LenProperties
  <2> QED
    BY <2>1, <2>2
<1> HIDE DEF e
<1>2. 0 \in T
  <2>1. SubSeq(e, 1, 0) = <<>> /\ SubSeq(v, 1, 0) = <<>>
    BY <1>1
  <2>2. Set(m, f, <<>>) = m
    BY SuitsSequence DEF Reads, Set
  <2>3. now(0) = Returned(Set(m, f, SubSeq(v, 1, 0)))
    OBVIOUS
  <2> HIDE DEF now
  <2> QED
    BY <2>1, <2>2, <2>3, LoopEmpty
<1>3. ASSUME NEW n \in T PROVE n + 1 \in T
  <2> SUFFICES ASSUME n + 1 <= Len(v)
               PROVE  Loop(reader, Returned(m), SubSeq(e, 1, n + 1)) = now(n + 1)
    OBVIOUS
  <2> DEFINE token == ElementToken(f, v[n + 1])
  <2>1. Loop(reader, Returned(m), SubSeq(e, 1, n)) = now(n)
    BY <1>1
  <2> HIDE DEF T
  <2>2. n \in Nat
    BY DEF T
  <2>3. e[n + 1] = token
    BY <1>1, <2>2
  <2>4. SubSeq(e, 1, n) \in Seq(ToSet(e)) /\ token \in ToSet(e)
        /\ SubSeq(e, 1, n + 1) = Append(SubSeq(e, 1, n), token)
    BY <1>1, <2>2, <2>3, PrefixAppend
  <2> HIDE DEF now, token
  <2>5. \A u \in Seq(ToSet(e)) : Loop(reader, Returned(m), Append(u, token)) =
                                    Turn(reader, Loop(reader, Returned(m), u), token)
    BY <2>4, LoopAppend
  <2>6. Loop(reader, Returned(m), SubSeq(e, 1, n + 1)) = Turn(reader, now(n), token)
    BY <2>1, <2>4, <2>5
  <2>7. 1 .. n + 1 = (1 .. n) \cup {n + 1}
    BY <2>2
  <2>8. CASE \E k \in 1 .. n : ElementUnsafe(f, v[k])
    <3>1. now(n) = Threw /\ now(n + 1) = Threw
      BY <2>7, <2>8 DEF now
    <3> QED
      BY <2>6, <3>1, TurnThrew
  <2>9. CASE ~\E k \in 1 .. n : ElementUnsafe(f, v[k])
    <3>1. now(n) = Returned(Set(m, f, SubSeq(v, 1, n)))
      BY <2>9 DEF now
    <3>2. now(n + 1) = IF ElementUnsafe(f, v[n + 1]) THEN Threw
                       ELSE Returned(Set(m, f, SubSeq(v, 1, n + 1)))
      BY <2>7, <2>9 DEF now
    <3>3. Turn(reader, Returned(Set(m, f, SubSeq(v, 1, n))),
               ElementToken(f, v[n + 1])) =
              IF ElementUnsafe(f, v[n + 1]) THEN Threw
              ELSE Returned(Set(m, f, SubSeq(v, 1, n + 1)))
      BY <1>0, <2>2
    <3>4. Turn(reader, now(n), token) = now(n + 1)
      BY <3>1, <3>2, <3>3, Zenon DEF token
    <3> QED
      BY <2>6, <3>4
  <2> QED
    BY <2>8, <2>9
<1>4. T = Nat
  <2>1. T \in SUBSET Nat
    OBVIOUS
  <2> HIDE DEF T
  <2> QED
    BY <1>2, <1>3, <2>1, Induction
<1>5. Len(v) \in T
  <2> HIDE DEF T
  <2> QED
    BY <1>1, <1>4
<1>6. SubSeq(e, 1, Len(v)) = e /\ SubSeq(v, 1, Len(v)) = v
  <2> HIDE DEF T
  <2> QED
    BY <1>1, SubSeqFull
<1>7. HoldsUnsafe(f, v) <=> \E k \in 1 .. Len(v) : ElementUnsafe(f, v[k])
  <2>1. f.kind # "int64"
    BY DEF Reads, Repeats, Nested
  <2> QED
    BY <1>1, <2>1 DEF HoldsUnsafe, ElementUnsafe
<1>8. now(Len(v)) = IF HoldsUnsafe(f, v) THEN Threw ELSE Returned(Set(m, f, v))
  BY <1>6, <1>7, Zenon
<1>9. Loop(reader, Returned(m), e) = now(Len(v))
  <2>1. Len(v) <= Len(v)
    BY <1>1
  <2>2. Loop(reader, Returned(m), SubSeq(e, 1, Len(v))) = now(Len(v))
    BY <1>5, <2>1
  <2> HIDE DEF now, T
  <2>3. SubSeq(e, 1, Len(v)) = e
    BY <1>6
  <2> QED
    BY <2>2, <2>3, Zenon
<1> QED
  BY <1>8, <1>9, Zenon DEF e

LEMMA FieldRead ==
    ASSUME NEW all, Distinct(all), NEW reader, ToSet(reader) \subseteq all,
           NEW f \in all, NEW v, Suits(f, v), MaxSafe \in Nat,
           NEW some, InnerKept(some), NestsIn(f, some),
           NEW m, m = [name \in FieldNames(reader) |-> m[name]],
           f \in ToSet(reader) => m[f.name] = Default(f)
    PROVE  Loop(reader, Returned(m), EncodeField(f, v)) =
               IF f \notin ToSet(reader) THEN Returned(m)
               ELSE IF HoldsUnsafe(f, v) THEN Threw
               ELSE Returned(Set(m, f, v))
<1>1. CASE f \in ToSet(reader)
  <2>1. f.name \in FieldNames(reader)
    BY <1>1 DEF FieldNames, ToSet
  <2>2. f.name \in DOMAIN m /\ m = [name \in DOMAIN m |-> m[name]]
    BY <2>1
  <2>3. CASE Repeats(f)
    BY <1>1, <2>2, <2>3, RepeatedRead DEF Reads
  <2>4. CASE ~Repeats(f)
    BY <1>1, <2>2, <2>4, ScalarRead
  <2> QED
    BY <1>1, <2>3, <2>4
<1>2. CASE f \notin ToSet(reader)
  <2> DEFINE e == EncodeField(f, v)
  <2>1. e \in Seq(ToSet(e))
    BY FieldTokens
  <2>2. ASSUME NEW t \in ToSet(e) PROVE Turn(reader, Returned(m), t) = Returned(m)
    <3>1. \E payload : t = TokenOf(f, payload)
      <4>1. CASE Repeats(f)
        <5>1. e = [k \in DOMAIN v |-> ElementToken(f, v[k])]
          BY <4>1, SuitsSequence
        <5> HIDE DEF e
        <5>2. PICK k \in DOMAIN v : t = ElementToken(f, v[k])
          BY <5>1 DEF ToSet
        <5> QED
          BY <5>2 DEF ElementToken
      <4>2. CASE ~Repeats(f)
        <5>1. e = <<TokenOf(f, v)>> \/ e = <<>>
          BY <4>2 DEF Repeats, EncodeField
        <5> HIDE DEF e
        <5>2. t = TokenOf(f, v)
          BY <5>1 DEF ToSet
        <5> QED
          BY <5>2
      <4> QED
        BY <4>1, <4>2
    <3> QED
      BY <1>2, <3>1, TurnUnknown
  <2> HIDE DEF e
  <2>3. Loop(reader, Returned(m), e) = Returned(m)
    BY <2>1, <2>2, LoopIdle
  <2> QED
    BY <1>2, <2>3 DEF e
<1> QED
  BY <1>1, <1>2

\* Once thrown, nothing more is read.
LEMMA ThrewRead ==
    ASSUME NEW reader, NEW S, NEW tokens \in Seq(S)
    PROVE  Loop(reader, Threw, tokens) = Threw
  BY TurnThrew, LoopIdle

-----------------------------------------------------------------------------
(***************************************************************************)
(* What decode makes of a message: a reader has of the fields written so   *)
(* far those it knows, and the default of the others.                      *)
(***************************************************************************)
Shared(reader, names) == {f \in ToSet(reader) : f.name \in names}

Partly(reader, names, m) ==
    [name \in FieldNames(reader) |->
        IF name \in names THEN m[name] ELSE Default(FieldNamed(reader, name))]

So(reader, names, m) ==
    IF HasUnsafe(Shared(reader, names), m) THEN Threw
    ELSE Returned(Partly(reader, names, m))

LEMMA NamedField ==
    ASSUME NEW all, Distinct(all), NEW reader, ToSet(reader) \subseteq all
    PROVE  /\ FieldNames(reader) = {f.name : f \in ToSet(reader)}
           /\ \A f \in ToSet(reader) : FieldNamed(reader, f.name) = f
<1>1. FieldNames(reader) = {f.name : f \in ToSet(reader)}
  BY DEF FieldNames, ToSet
<1>2. ASSUME NEW f \in ToSet(reader) PROVE FieldNamed(reader, f.name) = f
  <2>1. \A g \in ToSet(reader) : g.name = f.name => g = f
    BY DEF Distinct
  <2> QED
    BY <2>1 DEF FieldNamed
<1> QED
  BY <1>1, <1>2

\* A field is read after others of other names.
LEMMA NextField ==
    ASSUME NEW all, Distinct(all), NEW reader, ToSet(reader) \subseteq all,
           NEW f \in all, NEW names, f.name \notin names, NEW m,
           Suits(f, m[f.name]), MaxSafe \in Nat,
           NEW some, InnerKept(some), NestsIn(f, some),
           NEW S, EncodeField(f, m[f.name]) \in Seq(S)
    PROVE  Loop(reader, So(reader, names, m), EncodeField(f, m[f.name])) =
               So(reader, names \cup {f.name}, m)
<1> DEFINE e == EncodeField(f, m[f.name])
           before == Partly(reader, names, m)
           after == Partly(reader, names \cup {f.name}, m)
<1>1. FieldNames(reader) = {g.name : g \in ToSet(reader)}
      /\ \A g \in ToSet(reader) : FieldNamed(reader, g.name) = g
  BY NamedField
<1>2. /\ f \in ToSet(reader) => Shared(reader, names \cup {f.name}) = Shared(reader, names) \cup {f}
      /\ f \notin ToSet(reader) => Shared(reader, names \cup {f.name}) = Shared(reader, names)
  BY DEF Shared, Distinct
<1>3. f \in ToSet(reader) => before[f.name] = Default(f) /\ after = Set(before, f, m[f.name])
  BY <1>1 DEF Partly, Set
<1>4. f \notin ToSet(reader) => after = before
  <2>1. f \notin ToSet(reader) => f.name \notin FieldNames(reader)
    BY <1>1 DEF Distinct
  <2> QED
    BY <2>1 DEF Partly
<1>5. before = [name \in FieldNames(reader) |-> before[name]]
  BY DEF Partly
<1> HIDE DEF before, after, e
<1>6. CASE HasUnsafe(Shared(reader, names), m)
  <2>1. HasUnsafe(Shared(reader, names \cup {f.name}), m)
    BY <1>2, <1>6 DEF HasUnsafe
  <2>2. Loop(reader, Threw, e) = Threw
    BY ThrewRead DEF e
  <2> QED
    BY <1>6, <2>1, <2>2 DEF So, e
<1>7. CASE ~HasUnsafe(Shared(reader, names), m)
  <2>1. So(reader, names, m) = Returned(before)
    BY <1>7 DEF So, before
  <2>2. Loop(reader, Returned(before), e) =
            IF f \notin ToSet(reader) THEN Returned(before)
            ELSE IF HoldsUnsafe(f, m[f.name]) THEN Threw
            ELSE Returned(Set(before, f, m[f.name]))
    BY <1>3, <1>5, FieldRead DEF e
  <2>3. HasUnsafe(Shared(reader, names \cup {f.name}), m) <=>
            f \in ToSet(reader) /\ HoldsUnsafe(f, m[f.name])
    BY <1>2, <1>7 DEF HasUnsafe
  <2> QED
    BY <1>3, <1>4, <2>1, <2>2, <2>3 DEF So, after, e
<1> QED
  BY <1>6, <1>7

Injective(fields) == \A j, k \in DOMAIN fields : fields[j] = fields[k] => j = k

LEMMA InjectivePrefix ==
    ASSUME NEW all, NEW fields \in Seq(all), NEW f \in all, Injective(Append(fields, f))
    PROVE  /\ Injective(fields) /\ f \notin ToSet(fields)
           /\ ToSet(Append(fields, f)) = ToSet(fields) \cup {f}
           /\ ToSet(fields) \subseteq all
<1> DEFINE more == Append(fields, f)
           n == Len(fields)
<1>1. /\ n \in Nat /\ DOMAIN fields = 1 .. n /\ DOMAIN more = 1 .. n + 1
      /\ more[n + 1] = f /\ \A k \in 1 .. n : more[k] = fields[k] /\ fields[k] \in all
  OBVIOUS
<1>2. Injective(more)
  OBVIOUS
<1> HIDE DEF more, n
<1>3. Injective(fields)
  BY <1>1, <1>2 DEF Injective
<1>4. f \notin ToSet(fields)
  BY <1>1, <1>2 DEF Injective, ToSet
<1>5. ToSet(more) = ToSet(fields) \cup {f}
  BY <1>1 DEF ToSet
<1>6. ToSet(fields) \subseteq all
  BY <1>1 DEF ToSet
<1> QED
  BY <1>3, <1>4, <1>5, <1>6 DEF more

LEMMA MessageRead ==
    ASSUME NEW all, Distinct(all), MaxSafe \in Nat, NEW m, \A f \in all : Suits(f, m[f.name]),
           NEW some, InnerKept(some), \A f \in all : NestsIn(f, some),
           NEW reader, ToSet(reader) \subseteq all,
           NEW writer \in Seq(all), Injective(writer)
    PROVE  Decode(reader, Encode(writer, m)) = So(reader, FieldNames(writer), m)
<1> DEFINE S == UNION {ToSet(EncodeField(f, m[f.name])) : f \in all}
           start == Returned(CreateBase(reader))
           P == {fields \in Seq(all) : Injective(fields) =>
                    Loop(reader, start, Encode(fields, m)) = So(reader, FieldNames(fields), m)}
<1>1. \A f \in all : EncodeField(f, m[f.name]) \in Seq(S)
  <2> SUFFICES ASSUME NEW f \in all PROVE EncodeField(f, m[f.name]) \in Seq(S)
    OBVIOUS
  <2> DEFINE one == EncodeField(f, m[f.name])
  <2>1. one \in Seq(ToSet(one))
    BY FieldTokens
  <2>2. ToSet(one) \subseteq S
    OBVIOUS
  <2> HIDE DEF one, S
  <2>3. one \in Seq(S)
    BY <2>1, <2>2, SeqMonotonic
  <2> QED
    BY <2>3 DEF one
<1> HIDE DEF S
<1>2. <<>> \in P
  <2>1. Encode(<<>>, m) = <<>>
    BY FlattenEmpty DEF Encode
  <2>2. FieldNames(<<>>) = {} /\ Shared(reader, {}) = {}
    BY DEF FieldNames, Shared
  <2>3. So(reader, {}, m) = start
    BY <2>2 DEF So, HasUnsafe, Partly, CreateBase
  <2>4. Loop(reader, start, <<>>) = start
    BY LoopEmpty
  <2> HIDE DEF start
  <2>5. Loop(reader, start, Encode(<<>>, m)) = So(reader, FieldNames(<<>>), m)
    BY <2>1, <2>2, <2>3, <2>4, Zenon
  <2>6. <<>> \in Seq(all)
    BY EmptySeq
  <2> QED
    BY <2>5, <2>6
<1> HIDE DEF start
<1>3. ASSUME NEW fields \in P, NEW f \in all PROVE Append(fields, f) \in P
  <2>1. fields \in Seq(all) /\ Append(fields, f) \in Seq(all)
    OBVIOUS
  <2> SUFFICES ASSUME Injective(Append(fields, f))
               PROVE  Loop(reader, start, Encode(Append(fields, f), m)) =
                          So(reader, FieldNames(Append(fields, f)), m)
    BY <2>1
  <2>2. /\ Injective(fields) /\ f \notin ToSet(fields)
        /\ ToSet(Append(fields, f)) = ToSet(fields) \cup {f}
        /\ ToSet(fields) \subseteq all
    BY <2>1, InjectivePrefix
  <2>3. Loop(reader, start, Encode(fields, m)) = So(reader, FieldNames(fields), m)
    BY <2>2
  <2>4. FieldNames(Append(fields, f)) = FieldNames(fields) \cup {f.name}
        /\ f.name \notin FieldNames(fields)
    <3>1. \A fs : FieldNames(fs) = {g.name : g \in ToSet(fs)}
      BY DEF FieldNames, ToSet
    <3> HIDE DEF P
    <3> QED
      BY <2>2, <3>1 DEF Distinct
  <2> HIDE DEF P
  <2>5. /\ Encode(fields, m) \in Seq(S)
        /\ Encode(Append(fields, f), m) = Encode(fields, m) \o EncodeField(f, m[f.name])
    BY <1>1, <2>1, EncodeAppend
  <2>6. Loop(reader, start, Encode(Append(fields, f), m)) =
            Loop(reader, So(reader, FieldNames(fields), m), EncodeField(f, m[f.name]))
    BY <1>1, <2>3, <2>5, LoopConcat
  <2>7. Suits(f, m[f.name]) /\ NestsIn(f, some) /\ EncodeField(f, m[f.name]) \in Seq(S)
    BY <1>1
  <2>8. \A names : f.name \notin names =>
            Loop(reader, So(reader, names, m), EncodeField(f, m[f.name])) =
                So(reader, names \cup {f.name}, m)
    BY <2>7, NextField
  <2> QED
    BY <2>4, <2>6, <2>8, Zenon
<1>4. P = Seq(all)
  <2>1. P \in SUBSET Seq(all)
    OBVIOUS
  <2> HIDE DEF P
  <2> QED
    BY <1>2, <1>3, <2>1, SeqInduction
<1>5. Loop(reader, start, Encode(writer, m)) = So(reader, FieldNames(writer), m)
  BY <1>4
<1> QED
  BY <1>5 DEF Decode, start

-----------------------------------------------------------------------------
(***************************************************************************)
(* JSON, and the messages as the two sides know them.                      *)
(***************************************************************************)
LEMMA JSONRead ==
    ASSUME NEW all, Distinct(all), NEW m, \A f \in all : Suits(f, m[f.name]),
           NEW some, InnerKept(some), \A f \in all : NestsIn(f, some),
           NEW reader, ToSet(reader) \subseteq all,
           NEW writer, ToSet(writer) \subseteq all
    PROVE  FromJSON(reader, ToJSON(writer, m)) = Partly(reader, FieldNames(writer), m)
<1> DEFINE object == ToJSON(writer, m)
           set == {x \in FieldNames(writer) : m[x] # Default(FieldNamed(writer, x))}
           inner(f, v) == [k \in DOMAIN v |-> InnerToJSON(Schema[f.of], v[k])]
           outer(f, v) == [k \in DOMAIN v |-> InnerFromJSON(Schema[f.of], v[k])]
           read(f) == IF f.name \notin set THEN Default(f)
                      ELSE IF f.kind \in Nested THEN outer(f, object[f.name])
                      ELSE object[f.name]
<1>1. /\ FieldNames(reader) = {g.name : g \in ToSet(reader)}
      /\ FieldNames(writer) = {g.name : g \in ToSet(writer)}
      /\ \A g \in ToSet(reader) : FieldNamed(reader, g.name) = g
      /\ \A g \in ToSet(writer) : FieldNamed(writer, g.name) = g
  BY NamedField
<1>2. DOMAIN object = set
  BY DEF ToJSON
<1>3. \A f \in ToSet(writer) : f.name \in set =>
          object[f.name] = IF f.kind \in Nested THEN inner(f, m[f.name]) ELSE m[f.name]
  BY <1>1 DEF ToJSON
<1>4. \A f \in ToSet(reader) : FromJSON(reader, object)[f.name] = read(f)
  <2> HIDE DEF object, set
  <2> QED
    BY <1>1, <1>2 DEF FromJSON
<1>5. ASSUME NEW f \in ToSet(reader)
      PROVE  read(f) = IF f.name \in FieldNames(writer) THEN m[f.name] ELSE Default(f)
  <2>1. CASE f.name \notin FieldNames(writer)
    BY <2>1
  <2>2. CASE f.name \in FieldNames(writer)
    <3>1. f \in ToSet(writer) /\ f \in all
      BY <1>1, <2>2 DEF Distinct
    <3>2. f.name \in set <=> m[f.name] # Default(f)
      BY <1>1, <2>2, <3>1
    <3>3. ASSUME f.kind \in Nested PROVE outer(f, inner(f, m[f.name])) = m[f.name]
      <4> DEFINE v == m[f.name]
      <4>1. v \in Seq(ToSet(v)) /\ \A k \in DOMAIN v : InnerProper(Schema[f.of], v[k])
        BY <3>1, <3>3, SuitsSequence DEF Repeats
      <4>2. f.of \in some
        BY <3>1, <3>3 DEF NestsIn
      <4> HIDE DEF v
      <4>3. \A k \in DOMAIN v : InnerFromJSON(Schema[f.of], InnerToJSON(Schema[f.of], v[k])) = v[k]
        BY <4>1, <4>2 DEF InnerKept
      <4>4. outer(f, inner(f, v)) = [k \in DOMAIN v |-> v[k]]
        BY <4>3
      <4>5. [k \in DOMAIN v |-> v[k]] = v
        BY <4>1
      <4> QED
        BY <4>4, <4>5 DEF v
    <3> HIDE DEF object, set, inner, outer
    <3> QED
      BY <1>3, <2>2, <3>1, <3>2, <3>3
  <2> QED
    BY <2>1, <2>2
<1> HIDE DEF read, object
<1>6. \A f \in ToSet(reader) : Partly(reader, FieldNames(writer), m)[f.name] = read(f)
  BY <1>1, <1>5 DEF Partly
<1>7. FromJSON(reader, object) = [name \in FieldNames(reader) |-> FromJSON(reader, object)[name]]
      /\ Partly(reader, FieldNames(writer), m) =
             [name \in FieldNames(reader) |-> Partly(reader, FieldNames(writer), m)[name]]
  BY DEF FromJSON, Partly
<1>8. \A name \in FieldNames(reader) :
          FromJSON(reader, object)[name] = Partly(reader, FieldNames(writer), m)[name]
  BY <1>1, <1>4, <1>6
<1> QED
  BY <1>7, <1>8 DEF object

\* Only what the writer knows is written.
LEMMA SentAlone ==
    ASSUME NEW all, Distinct(all), NEW writer \in Seq(all), NEW m
    PROVE  /\ Encode(writer, AsKnownTo(writer, m)) = Encode(writer, m)
           /\ ToJSON(writer, AsKnownTo(writer, m)) = ToJSON(writer, m)
<1> DEFINE sent == AsKnownTo(writer, m)
<1>1. \A name \in FieldNames(writer) : sent[name] = m[name]
  BY DEF AsKnownTo
<1>2. \A k \in DOMAIN writer : writer[k].name \in FieldNames(writer)
  BY DEF FieldNames
<1> HIDE DEF sent
<1>3. Encode(writer, sent) = Encode(writer, m)
  <2>1. [k \in DOMAIN writer |-> EncodeField(writer[k], sent[writer[k].name])] =
        [k \in DOMAIN writer |-> EncodeField(writer[k], m[writer[k].name])]
    BY <1>1, <1>2
  <2> QED
    BY <2>1, Zenon DEF Encode
<1>4. ToJSON(writer, sent) = ToJSON(writer, m)
  BY <1>1 DEF ToJSON
<1> QED
  BY <1>3, <1>4 DEF sent

(***************************************************************************)
(* What one version of a schema sends, another receives as far as it knows *)
(* it, whatever the message.                                               *)
(***************************************************************************)
LEMMA VersionsAgree ==
    ASSUME NEW all, Distinct(all), MaxSafe \in Nat, NEW m, \A f \in all : Suits(f, m[f.name]),
           NEW some, InnerKept(some), \A f \in all : NestsIn(f, some),
           NEW reader, ToSet(reader) \subseteq all,
           NEW writer \in Seq(all), Injective(writer)
    PROVE  /\ Decode(reader, Encode(writer, AsKnownTo(writer, m))) =
                  So(reader, FieldNames(writer), m)
           /\ FromJSON(reader, ToJSON(writer, AsKnownTo(writer, m))) =
                  Partly(reader, FieldNames(writer), m)
<1>1. ToSet(writer) \subseteq all
  BY DEF ToSet
<1> QED
  BY <1>1, SentAlone, MessageRead, JSONRead

LEMMA WellFormedFacts ==
    ASSUME NEW fields, WellFormed(fields)
    PROVE  /\ fields \in Seq(ToSet(fields)) /\ Distinct(ToSet(fields)) /\ Injective(fields)
           /\ \A f \in ToSet(fields) : f.kind \in Kinds
           /\ FieldNames(fields) = {f.name : f \in ToSet(fields)}
           /\ \A f \in ToSet(fields) : FieldNamed(fields, f.name) = f
<1>1. fields \in Seq(ToSet(fields)) /\ \A f \in ToSet(fields) : f.kind \in Kinds
  BY DEF WellFormed
<1>2. Injective(fields)
  BY DEF WellFormed, Injective
<1>3. Distinct(ToSet(fields))
  BY DEF WellFormed, Distinct, ToSet
<1> QED
  BY <1>1, <1>2, <1>3, NamedField

\* A codec keeps a message if those of the messages inside do.
LEMMA Kept ==
    ASSUME NEW some, InnerKept(some), MaxSafe \in Nat,
           NEW fields, WellFormed(fields), \A f \in ToSet(fields) : NestsIn(f, some),
           NEW m, Proper(fields, m)
    PROVE  /\ Decode(fields, Encode(fields, m)) =
                  IF HasUnsafe(ToSet(fields), m) THEN Threw ELSE Returned(m)
           /\ FromJSON(fields, ToJSON(fields, m)) = m
<1>1. /\ fields \in Seq(ToSet(fields)) /\ Distinct(ToSet(fields)) /\ Injective(fields)
      /\ FieldNames(fields) = {f.name : f \in ToSet(fields)}
  BY WellFormedFacts
<1>2. m = [name \in FieldNames(fields) |-> m[name]] /\ \A f \in ToSet(fields) : Suits(f, m[f.name])
  BY DEF Proper
<1>3. /\ Decode(fields, Encode(fields, m)) = So(fields, FieldNames(fields), m)
      /\ FromJSON(fields, ToJSON(fields, m)) = Partly(fields, FieldNames(fields), m)
  <2> DEFINE all == ToSet(fields)
  <2>1. /\ fields \in Seq(all) /\ Distinct(all) /\ ToSet(fields) \subseteq all
        /\ \A f \in all : Suits(f, m[f.name]) /\ NestsIn(f, some)
    BY <1>1, <1>2
  <2> HIDE DEF all
  <2>2. Decode(fields, Encode(fields, m)) = So(fields, FieldNames(fields), m)
    BY <1>1, <2>1, MessageRead
  <2>3. \A reader, writer :
            ToSet(reader) \subseteq all /\ ToSet(writer) \subseteq all =>
                FromJSON(reader, ToJSON(writer, m)) = Partly(reader, FieldNames(writer), m)
    BY <2>1, JSONRead
  <2>4. FromJSON(fields, ToJSON(fields, m)) = Partly(fields, FieldNames(fields), m)
    BY <2>1, <2>3, Zenon
  <2> QED
    BY <2>2, <2>4
<1>4. Partly(fields, FieldNames(fields), m) = m
  <2>1. Partly(fields, FieldNames(fields), m) = [name \in FieldNames(fields) |-> m[name]]
    BY DEF Partly
  <2> QED
    BY <1>2, <2>1, Zenon
<1>5. Shared(fields, FieldNames(fields)) = ToSet(fields)
  BY <1>1 DEF Shared
<1> QED
  BY <1>3, <1>4, <1>5 DEF So

-----------------------------------------------------------------------------
(***************************************************************************)
(* What a field is set to suits it.                                        *)
(***************************************************************************)
InnerFills(some, large) ==
    \A t \in some : /\ InnerProper(Schema[t], InnerFull(Schema[t], large))
                    /\ InnerProper(Schema[t], CreateBase(Schema[t]))

\* The strings the model uses are among those of the schema.
Texts == {"", "a"} \subseteq Strings

LEMMA StringField ==
    ASSUME NEW f, f.kind = "string", NEW v \in Strings PROVE Suits(f, v)
  BY DEF Suits, Nested

LEMMA IntegerField ==
    ASSUME NEW f, f.kind \in {"int32", "int64"}, NEW v \in Int PROVE Suits(f, v)
  BY DEF Suits, Nested

LEMMA StringsField ==
    ASSUME NEW f, f.kind = "strings", NEW v \in Seq(Strings) PROVE Suits(f, v)
  BY DEF Suits, Nested

LEMMA DefaultSuits ==
    ASSUME Texts, NEW f, f.kind \in Kinds PROVE Suits(f, Default(f))
<1>1. CASE f.kind = "string"
  <2>1. Default(f) = ""
    BY <1>1 DEF Default
  <2>2. "" \in Strings
    BY Zenon DEF Texts
  <2> QED
    BY <1>1, <2>1, <2>2, StringField, Zenon
<1>2. CASE f.kind \in {"int32", "int64"}
  <2>1. Default(f) = 0
    BY <1>2, Zenon DEF Default
  <2>2. \A v \in Int : Suits(f, v)
    BY <1>2, IntegerField
  <2>3. 0 \in Int
    OBVIOUS
  <2> QED
    BY <2>1, <2>2, <2>3, Zenon
<1>3. CASE f.kind = "bool"
  BY <1>3 DEF Default, Suits, Nested
<1>4. CASE f.kind = "strings"
  BY <1>4 DEF Default, Suits, Nested
<1>5. CASE f.kind \in Nested
  <2>1. Default(f) = <<>>
    BY <1>5 DEF Default, Nested
  <2>2. \A v : v = <<>> => v \in Seq(ToSet(v)) /\ Len(v) = 0 /\ DOMAIN v = {}
    OBVIOUS
  <2>3. ASSUME NEW v, v = <<>> PROVE Suits(f, v)
    <3>1. v \in Seq(ToSet(v)) /\ Len(v) = 0 /\ DOMAIN v = {}
      BY <2>2, <2>3
    <3>2. v \in Seq(ToSet(v)) /\ Len(v) <= 1
          /\ \A k \in DOMAIN v : InnerProper(Schema[f.of], v[k])
      BY <3>1
    <3> QED
      BY <1>5, <3>2 DEF Suits, Nested
  <2> QED
    BY <2>1, <2>3
<1> QED
  BY <1>1, <1>2, <1>3, <1>4, <1>5 DEF Kinds

LEMMA FilledSuits ==
    ASSUME NEW some, NEW large \in Int, InnerFills(some, large), Texts,
           NEW f, f.kind \in Kinds, NestsIn(f, some)
    PROVE  Suits(f, Filled(f, large))
<1>1. CASE f.kind = "string"
  <2>1. Filled(f, large) = "a"
    BY <1>1 DEF Filled
  <2>2. "a" \in Strings
    BY Zenon DEF Texts
  <2> QED
    BY <1>1, <2>1, <2>2, StringField, Zenon
<1>2. CASE f.kind \in {"int32", "int64"}
  <2>1. Filled(f, large) = IF f.kind = "int32" THEN -1 ELSE large
    BY <1>2, Zenon DEF Filled
  <2>2. Filled(f, large) \in Int
    BY <2>1
  <2> QED
    BY <1>2, <2>2, IntegerField
<1>3. CASE f.kind = "bool"
  BY <1>3 DEF Filled, Suits, Nested
<1>4. CASE f.kind = "strings"
  <2>1. \A x, y \in Strings : <<x, y>> \in Seq(Strings)
    OBVIOUS
  <2>2. Filled(f, large) = <<"a", "">>
    BY <1>4 DEF Filled
  <2>3. "a" \in Strings /\ "" \in Strings
    BY Zenon DEF Texts
  <2>4. Filled(f, large) \in Seq(Strings)
    BY <2>1, <2>2, <2>3, Zenon
  <2> QED
    BY <1>4, <2>4, StringsField
<1>5. CASE f.kind \in Nested
  <2> DEFINE full == InnerFull(Schema[f.of], large)
             base == CreateBase(Schema[f.of])
             v == Filled(f, large)
  <2>1. InnerProper(Schema[f.of], full) /\ InnerProper(Schema[f.of], base)
    BY <1>5 DEF InnerFills, NestsIn
  <2>2. v = IF f.kind = "message" THEN <<full>> ELSE <<full, base>>
    BY <1>5 DEF Filled, Nested
  <2> HIDE DEF full, base
  <2>3. \A x : <<x>> \in Seq(ToSet(<<x>>)) /\ Len(<<x>>) = 1 /\ DOMAIN <<x>> = {1} /\ <<x>>[1] = x
    BY DEF ToSet
  <2>4. \A x, y : <<x, y>> \in Seq(ToSet(<<x, y>>)) /\ DOMAIN <<x, y>> = {1, 2}
                   /\ <<x, y>>[1] = x /\ <<x, y>>[2] = y
    BY DEF ToSet
  <2> HIDE DEF v
  <2>5. /\ v \in Seq(ToSet(v))
        /\ f.kind = "message" => Len(v) <= 1
        /\ \A k \in DOMAIN v : InnerProper(Schema[f.of], v[k])
    <3>1. CASE f.kind = "message"
      BY <2>1, <2>2, <2>3, <3>1
    <3>2. CASE f.kind # "message"
      BY <2>1, <2>2, <2>4, <3>2
    <3> QED
      BY <3>1, <3>2
  <2>6. Suits(f, v)
    BY <1>5, <2>5 DEF Suits, Nested
  <2> QED
    BY <2>6 DEF v
<1> QED
  BY <1>1, <1>2, <1>3, <1>4, <1>5 DEF Kinds

LEMMA BaseProper ==
    ASSUME Texts, NEW fields, WellFormed(fields)
    PROVE  Proper(fields, CreateBase(fields))
  BY WellFormedFacts, DefaultSuits DEF Proper, CreateBase

LEMMA FullProper ==
    ASSUME NEW some, NEW large \in Int, InnerFills(some, large), Texts,
           NEW fields, WellFormed(fields), \A f \in ToSet(fields) : NestsIn(f, some)
    PROVE  Proper(fields, Full(fields, large))
  BY WellFormedFacts, FilledSuits DEF Proper, Full

LEMMA SetProper ==
    ASSUME NEW some, NEW large \in Int, InnerFills(some, large), Texts,
           NEW fields, WellFormed(fields), \A f \in ToSet(fields) : NestsIn(f, some),
           NEW m, Proper(fields, m), NEW f \in ToSet(fields)
    PROVE  Proper(fields, [m EXCEPT ![f.name] = Filled(f, large)])
  BY WellFormedFacts, FilledSuits DEF Proper, Distinct

-----------------------------------------------------------------------------
(***************************************************************************)
(* A message arrives, whichever versions of its schema the two sides have. *)
(***************************************************************************)
LEMMA VersionFacts ==
    ASSUME NEW fields, WellFormed(fields), NEW version \in Versions(fields)
    PROVE  /\ version \in Seq(ToSet(fields)) /\ ToSet(version) \subseteq ToSet(fields)
           /\ Injective(version)
<1> DEFINE all == ToSet(fields)
<1>1. fields \in Seq(all) /\ Injective(fields)
  BY WellFormedFacts
<1> HIDE DEF all
<1>2. version \in Seq(all) /\ Injective(version)
  <2>1. CASE version = fields
    BY <1>1, <2>1
  <2>2. CASE \E k \in DOMAIN fields : version = RemoveAt(fields, k)
    <3>1. PICK k \in 1 .. Len(fields) : version = RemoveAt(fields, k)
      BY <1>1, <2>2
    <3>2. /\ version \in Seq(all) /\ Len(version) = Len(fields) - 1
          /\ \A j \in 1 .. Len(fields) - 1 :
                 version[j] = fields[IF j < k THEN j ELSE j + 1]
      <4> DEFINE before == SubSeq(fields, 1, k - 1)
                 after == SubSeq(fields, k + 1, Len(fields))
      <4>1. /\ before \in Seq(all) /\ Len(before) = k - 1
            /\ \A j \in 1 .. k - 1 : before[j] = fields[j]
        BY <1>1, <3>1
      <4>2. /\ after \in Seq(all) /\ Len(after) = Len(fields) - k
            /\ \A j \in 1 .. Len(fields) - k : after[j] = fields[k + j]
        BY <1>1, <3>1
      <4>3. version = before \o after
        BY <3>1 DEF RemoveAt
      <4> HIDE DEF before, after
      <4>4. version \in Seq(all) /\ Len(version) = Len(fields) - 1
        BY <1>1, <3>1, <4>1, <4>2, <4>3
      <4>5. ASSUME NEW j \in 1 .. Len(fields) - 1
            PROVE  version[j] = fields[IF j < k THEN j ELSE j + 1]
        <5>1. version[j] = IF j <= k - 1 THEN before[j] ELSE after[j - (k - 1)]
          BY <1>1, <3>1, <4>1, <4>2, <4>3
        <5>2. CASE j < k
          BY <3>1, <4>1, <5>1, <5>2
        <5>3. CASE ~(j < k)
          <6>1. after[j - (k - 1)] = fields[j + 1]
            BY <1>1, <3>1, <4>2, <5>3
          <6> QED
            BY <3>1, <5>1, <5>3, <6>1
        <5> QED
          BY <5>2, <5>3
      <4> QED
        BY <4>4, <4>5
    <3>3. \A j \in 1 .. Len(fields) - 1 : (IF j < k THEN j ELSE j + 1) \in DOMAIN fields
      BY <1>1
    <3>4. \A j, l \in 1 .. Len(fields) - 1 :
              (IF j < k THEN j ELSE j + 1) = (IF l < k THEN l ELSE l + 1) => j = l
      BY <1>1
    <3>5. \A j, l \in DOMAIN version : version[j] = version[l] => j = l
      <4>1. DOMAIN version = 1 .. Len(fields) - 1
        BY <3>2
      <4> QED
        BY <1>1, <3>2, <3>3, <3>4, <4>1 DEF Injective
    <3> QED
      BY <3>2, <3>5 DEF Injective
  <2> QED
    BY <2>1, <2>2 DEF Versions
<1>3. ToSet(version) \subseteq all
  BY <1>2 DEF ToSet
<1> QED
  BY <1>2, <1>3 DEF all

LEMMA MessageArrives ==
    ASSUME NEW some, InnerKept(some), MaxSafe \in Nat,
           NEW fields, WellFormed(fields), \A f \in ToSet(fields) : NestsIn(f, some),
           NEW m, Proper(fields, m),
           NEW writer \in Versions(fields), NEW reader \in Versions(fields)
    PROVE  Arrives(m, writer, reader)
<1> DEFINE all == ToSet(fields)
           both == FieldNames(writer) \cap FieldNames(reader)
           arrived == [name \in FieldNames(reader) |->
                          IF name \in both THEN m[name]
                          ELSE Default(FieldNamed(reader, name))]
           shared == {f \in ToSet(reader) : f.name \in both}
<1>1. Distinct(all) /\ \A f \in all : Suits(f, m[f.name]) /\ NestsIn(f, some)
  BY WellFormedFacts DEF Proper
<1>2. /\ ToSet(reader) \subseteq all
      /\ writer \in Seq(all) /\ Injective(writer)
  BY VersionFacts
<1>3. FieldNames(reader) = {f.name : f \in ToSet(reader)}
  BY <1>1, <1>2, NamedField, Zenon
<1> HIDE DEF all
<1>4. LET sent == AsKnownTo(writer, m)
      IN  /\ Decode(reader, Encode(writer, sent)) = So(reader, FieldNames(writer), m)
          /\ FromJSON(reader, ToJSON(writer, sent)) = Partly(reader, FieldNames(writer), m)
  BY <1>1, <1>2, VersionsAgree
<1>5. arrived = Partly(reader, FieldNames(writer), m)
  BY DEF Partly
<1>6. shared = Shared(reader, FieldNames(writer))
  BY <1>3 DEF Shared
<1> QED
  BY <1>4, <1>5, <1>6, Zenon DEF Arrives, So
=============================================================================

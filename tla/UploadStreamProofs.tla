--------------------------- MODULE UploadStreamProofs ---------------------------
(***************************************************************************)
(* Theorems about UploadStream, for any files, chunkings and sizes.  The   *)
(* inductive invariant is StreamInv.  What FlattenSeq, which is defined by *)
(* recursion, does to a longer sequence is shown first, by induction over  *)
(* sets of natural numbers; then what the verdict on a full window says    *)
(* about the whole file; then one lemma per action.                        *)
(***************************************************************************)
EXTENDS UploadStream, SequenceTheorems, WellFoundedInduction, TLAPS

-----------------------------------------------------------------------------
(* Induction over the natural numbers, as a fact about sets of them. *)

LEMMA Induction ==
    ASSUME NEW T, 0 \in T, \A n \in Nat : n \in T => n + 1 \in T
    PROVE  Nat \subseteq T
<1> DEFINE Rest == Nat \ T
<1>1. SUFFICES ASSUME Rest # {} PROVE FALSE
    OBVIOUS
<1>2. PICK m \in Rest : \A n \in Rest : ~ (<<n, m>> \in OpToRel(<, Nat))
    BY <1>1, WFMin, NatLessThanWellFounded
<1>3. \A n \in Rest : ~ (n < m)
    BY <1>2 DEF OpToRel
<1>4. m # 0 /\ m - 1 \in Nat
    OBVIOUS
<1>5. m - 1 \in T
    BY <1>3, <1>4
<1>6. QED BY <1>4, <1>5

-----------------------------------------------------------------------------
(* Flattening a sequence of sequences. *)

\* f is the function that FlattenSeq defines for the first n members of s.
FlattenStep(f, s, i) == IF i = 1 THEN s[i] ELSE f[i - 1] \o s[i]

Flattens(f, s, n) == f = [i \in 1 .. n |-> FlattenStep(f, s, i)]

LEMMA FlattensAt ==
    ASSUME NEW s, NEW n, NEW f, Flattens(f, s, n), NEW i \in 1 .. n
    PROVE  f[i] = FlattenStep(f, s, i)
<1> DEFINE g == [j \in 1 .. n |-> FlattenStep(f, s, j)]
<1>1. f = g
    BY Zenon DEF Flattens
<1>2. g[i] = FlattenStep(f, s, i)
    OBVIOUS
<1> HIDE DEF g
<1>3. QED BY <1>1, <1>2

LEMMA FlatteningExists ==
    ASSUME NEW S, NEW s \in Seq(Seq(S)), NEW n \in 0 .. Len(s)
    PROVE  \E f \in [1 .. n -> Seq(S)] : Flattens(f, s, n)
<1> DEFINE T == {k \in Nat : k <= Len(s) => \E f \in [1 .. k -> Seq(S)] : Flattens(f, s, k)}
<1>1. 0 \in T
  <2>1. Flattens([i \in 1 .. 0 |-> <<>>], s, 0)
      BY DEF Flattens
  <2>2. [i \in 1 .. 0 |-> <<>>] \in [1 .. 0 -> Seq(S)]
      OBVIOUS
  <2>3. QED BY <2>1, <2>2
<1>2. ASSUME NEW k \in Nat, k \in T PROVE k + 1 \in T
  <2>1. SUFFICES ASSUME k + 1 <= Len(s)
                 PROVE  \E f \in [1 .. k + 1 -> Seq(S)] : Flattens(f, s, k + 1)
      OBVIOUS
  <2>2. PICK f \in [1 .. k -> Seq(S)] : Flattens(f, s, k)
      BY <1>2, <2>1
  <2> DEFINE g == [i \in 1 .. k + 1 |->
                      IF i <= k THEN f[i]
                      ELSE IF k = 0 THEN s[1] ELSE f[k] \o s[k + 1]]
  <2>3. s[k + 1] \in Seq(S) /\ s[1] \in Seq(S)
      BY <2>1
  <2>4. g \in [1 .. k + 1 -> Seq(S)]
      BY <2>3, ConcatProperties
  <2>5. ASSUME NEW i \in 1 .. k + 1
        PROVE  g[i] = FlattenStep(g, s, i)
    <3>1. CASE i <= k
      <4>1. i \in 1 .. k /\ g[i] = f[i] /\ (i # 1 => g[i - 1] = f[i - 1])
          BY <3>1
      <4>2. i \in 1 .. k
          BY <3>1
      <4>3. f[i] = FlattenStep(f, s, i)
          BY <2>2, <4>2, FlattensAt, Zenon
      <4>4. QED BY <4>1, <4>3 DEF FlattenStep
    <3>2. CASE i = k + 1
        BY <3>2 DEF FlattenStep
    <3>3. i <= k \/ i = k + 1
        OBVIOUS
    <3> HIDE DEF g
    <3>4. QED BY <3>1, <3>2, <3>3
  <2>6. Flattens(g, s, k + 1)
      BY <2>5 DEF Flattens
  <2>7. QED BY <2>4, <2>6
<1>3. Nat \subseteq T
  <2> HIDE DEF T
  <2>1. QED BY <1>1, <1>2, Induction
<1>4. QED BY <1>3

LEMMA FlatteningUnique ==
    ASSUME NEW s, NEW n \in Nat, NEW f, NEW g, Flattens(f, s, n), Flattens(g, s, n),
           NEW j \in 1 .. n
    PROVE  f[j] = g[j]
<1> DEFINE T == {k \in Nat : k \in 1 .. n => f[k] = g[k]}
<1>1. 0 \in T
    OBVIOUS
<1>2. ASSUME NEW k \in Nat, k \in T PROVE k + 1 \in T
  <2>1. SUFFICES ASSUME k + 1 <= n PROVE f[k + 1] = g[k + 1]
      OBVIOUS
  <2>2. f[k + 1] = IF k = 0 THEN s[k + 1] ELSE f[k] \o s[k + 1]
      BY <2>1, FlattensAt DEF FlattenStep
  <2>3. g[k + 1] = IF k = 0 THEN s[k + 1] ELSE g[k] \o s[k + 1]
      BY <2>1, FlattensAt DEF FlattenStep
  <2>4. QED BY <1>2, <2>1, <2>2, <2>3
<1>3. Nat \subseteq T
  <2> HIDE DEF T
  <2>1. QED BY <1>1, <1>2, Induction
<1>4. QED BY <1>3

\* FlattenSeq is the last value of that function.
LEMMA FlattenSeqIs ==
    ASSUME NEW S, NEW s \in Seq(Seq(S)), s # <<>>
    PROVE  \E f \in [1 .. Len(s) -> Seq(S)] :
               Flattens(f, s, Len(s)) /\ FlattenSeq(s) = f[Len(s)]
<1> DEFINE n == Len(s)
           h == CHOOSE f : Flattens(f, s, n)
<1>1. PICK f \in [1 .. n -> Seq(S)] : Flattens(f, s, n)
    BY FlatteningExists
<1>2. Flattens(h, s, n)
    BY <1>1
<1>3. FlattenSeq(s) = h[n]
    BY DEF FlattenSeq, Flattens, FlattenStep
<1>4. n \in 1 .. n
    BY EmptySeq
<1> HIDE DEF h
<1>5. h[n] = f[n]
    BY <1>1, <1>2, <1>4, FlatteningUnique
<1>6. QED BY <1>1, <1>3, <1>5

\* An empty sequence flattens to the empty sequence.
LEMMA FlattenEmpty == FlattenSeq(<<>>) = <<>>
BY DEF FlattenSeq

\* A sequence of sequences over S flattens to a sequence over S.
LEMMA FlattenType ==
    ASSUME NEW S, NEW s \in Seq(Seq(S))
    PROVE  FlattenSeq(s) \in Seq(S)
<1>1. CASE s = <<>>
  <2>1. FlattenSeq(s) = <<>>
      BY <1>1, FlattenEmpty, Zenon
  <2>2. QED BY <2>1
<1>2. CASE s # <<>>
  <2>1. Len(s) \in 1 .. Len(s)
      BY <1>2, EmptySeq
  <2>2. PICK f \in [1 .. Len(s) -> Seq(S)] : FlattenSeq(s) = f[Len(s)]
      BY <1>2, FlattenSeqIs
  <2>3. f[Len(s)] \in Seq(S)
      BY <2>1
  <2>4. QED BY <2>2, <2>3
<1>3. QED BY <1>1, <1>2

\* What is appended comes last.
LEMMA FlattenAppend ==
    ASSUME NEW S, NEW s \in Seq(Seq(S)), NEW c \in Seq(S)
    PROVE  FlattenSeq(Append(s, c)) = FlattenSeq(s) \o c
<1> DEFINE t == Append(s, c)
           n == Len(s)
<1>1. /\ t \in Seq(Seq(S)) /\ t # <<>> /\ Len(t) = n + 1 /\ t[n + 1] = c
      /\ \A i \in 1 .. n : s[i] = t[i]
    BY AppendProperties
<1>2. PICK g \in [1 .. n + 1 -> Seq(S)] :
               Flattens(g, t, n + 1) /\ FlattenSeq(t) = g[n + 1]
    BY <1>1, FlattenSeqIs
<1>3. CASE s = <<>>
  <2>1. g[1] = c
      BY <1>1, <1>2, <1>3 DEF Flattens, FlattenStep
  <2>2. FlattenSeq(s) \o c = c
      BY <1>3, FlattenEmpty, ConcatEmptySeq
  <2>3. QED BY <1>2, <1>3, <2>1, <2>2
<1>4. CASE s # <<>>
  <2>1. PICK f \in [1 .. n -> Seq(S)] :
                 Flattens(f, s, n) /\ FlattenSeq(s) = f[n]
      BY <1>4, FlattenSeqIs
  <2>2. n \in Nat \ {0}
      BY <1>4, EmptySeq
  <2> DEFINE h == [i \in 1 .. n |-> g[i]]
  <2>3. ASSUME NEW i \in 1 .. n
        PROVE  g[i] = FlattenStep(h, s, i)
    <3>1. i \in 1 .. n + 1 /\ (i # 1 => i - 1 \in 1 .. n)
        OBVIOUS
    <3>2. Flattens(g, t, n + 1)
        BY <1>2
    <3>3. t[i] = s[i]
        BY <1>1
    <3> HIDE DEF t, n
    <3>4. g[i] = FlattenStep(g, t, i)
        BY <3>1, <3>2, FlattensAt, Zenon
    <3>5. QED BY <3>1, <3>3, <3>4 DEF FlattenStep
  <2>4. Flattens(h, s, n)
      BY <2>3 DEF Flattens
  <2>5. n \in 1 .. n
      BY <2>2
  <2>6. f[n] = g[n]
    <3>1. h[n] = g[n]
        BY <2>5
    <3> HIDE DEF h
    <3>2. f[n] = h[n]
        BY <2>1, <2>4, <2>5, FlatteningUnique
    <3>3. QED BY <3>1, <3>2
  <2>7. g[n + 1] = g[n] \o c
    <3>1. n + 1 \in 1 .. n + 1 /\ n + 1 # 1 /\ (n + 1) - 1 = n
        BY <2>2
    <3>2. Flattens(g, t, n + 1)
        BY <1>2
    <3> HIDE DEF t, n
    <3>3. g[n + 1] = FlattenStep(g, t, n + 1)
        BY <3>1, <3>2, FlattensAt, Zenon
    <3>4. QED BY <1>1, <3>1, <3>3 DEF FlattenStep
  <2>8. QED BY <1>2, <2>1, <2>6, <2>7
<1>5. QED BY <1>3, <1>4

\* One or two sequences.
LEMMA FlattenShort ==
    ASSUME NEW S, NEW a \in Seq(S), NEW b \in Seq(S)
    PROVE  FlattenSeq(<<a>>) = a /\ FlattenSeq(<<a, b>>) = a \o b
<1>1. <<a>> = Append(<<>>, a) /\ <<a, b>> = Append(<<a>>, b)
    OBVIOUS
<1>2. <<>> \in Seq(Seq(S)) /\ <<a>> \in Seq(Seq(S))
    OBVIOUS
<1>3. FlattenSeq(<<a>>) = a
  <2>1. FlattenSeq(Append(<<>>, a)) = FlattenSeq(<<>>) \o a
      BY <1>2, FlattenAppend
  <2>2. <<>> \o a = a
      BY ConcatEmptySeq
  <2>3. QED BY <1>1, <2>1, <2>2, FlattenEmpty
<1>4. QED BY <1>1, <1>2, <1>3, FlattenAppend

-----------------------------------------------------------------------------
(* Bytes in order. *)

LEMMA Regroup == \A S : \A a, b, c \in Seq(S) : (a \o b) \o c = a \o (b \o c)
BY ConcatAssociative

LEMMA FirstBytesSeq ==
    ASSUME NEW n \in Nat, NEW m \in Nat, n <= m
    PROVE  /\ FirstBytes(n) \in Seq(1 .. m) /\ Len(FirstBytes(n)) = n
           /\ \A i \in 1 .. n : FirstBytes(n)[i] = i
<1>1. FirstBytes(n) \in [1 .. n -> 1 .. m]
    BY DEF FirstBytes
<1>2. FirstBytes(n) \in Seq(1 .. m)
    BY <1>1, SeqDef
<1>3. Len(FirstBytes(n)) = n
    BY DEF FirstBytes
<1>4. QED BY <1>2, <1>3 DEF FirstBytes

\* A chunk continues what was taken.
LEMMA ChunkFollows ==
    ASSUME NEW n \in Nat, NEW k \in Nat, NEW m \in Nat, n + k <= m
    PROVE  LET chunk == [i \in 1 .. k |-> n + i]
           IN  /\ chunk \in Seq(1 .. m) /\ Len(chunk) = k
               /\ FirstBytes(n) \o chunk = FirstBytes(n + k)
<1> DEFINE chunk == [i \in 1 .. k |-> n + i]
<1>1. chunk \in [1 .. k -> 1 .. m]
    OBVIOUS
<1>2. chunk \in Seq(1 .. m) /\ Len(chunk) = k /\ \A i \in 1 .. k : chunk[i] = n + i
    BY <1>1, SeqDef
<1>3. /\ FirstBytes(n) \in Seq(1 .. m) /\ Len(FirstBytes(n)) = n
      /\ \A i \in 1 .. n : FirstBytes(n)[i] = i
    BY FirstBytesSeq
<1>4. /\ FirstBytes(n + k) \in Seq(1 .. m) /\ Len(FirstBytes(n + k)) = n + k
      /\ \A i \in 1 .. n + k : FirstBytes(n + k)[i] = i
  <2>1. n + k \in Nat
      OBVIOUS
  <2>2. QED BY <2>1, FirstBytesSeq
<1> HIDE DEF chunk
<1>5. /\ FirstBytes(n) \o chunk \in Seq(1 .. m)
      /\ Len(FirstBytes(n) \o chunk) = n + k
      /\ \A i \in 1 .. n + k : (FirstBytes(n) \o chunk)[i] =
             IF i <= n THEN FirstBytes(n)[i] ELSE chunk[i - n]
  <2> DEFINE a == FirstBytes(n)
  <2>1. a \in Seq(1 .. m) /\ chunk \in Seq(1 .. m)
      BY <1>2, <1>3
  <2>2. Len(a) = n /\ Len(chunk) = k
      BY <1>2, <1>3
  <2> HIDE DEF a
  <2>3. /\ a \o chunk \in Seq(1 .. m)
        /\ Len(a \o chunk) = Len(a) + Len(chunk)
        /\ \A i \in 1 .. Len(a) + Len(chunk) : (a \o chunk)[i] =
               IF i <= Len(a) THEN a[i] ELSE chunk[i - Len(a)]
      BY <2>1, ConcatProperties
  <2>4. QED BY <2>2, <2>3 DEF a
<1>6. ASSUME NEW i \in 1 .. n + k PROVE (FirstBytes(n) \o chunk)[i] = FirstBytes(n + k)[i]
  <2>1. FirstBytes(n + k)[i] = i
      BY <1>4
  <2>2. CASE i <= n
      BY <1>3, <1>5, <2>1, <2>2
  <2>3. CASE ~ (i <= n)
    <3>1. i - n \in 1 .. k
        BY <2>3
    <3>2. chunk[i - n] = n + (i - n)
        BY <1>2, <3>1
    <3>3. (FirstBytes(n) \o chunk)[i] = chunk[i - n]
        BY <1>5, <2>3
    <3>4. QED BY <2>1, <3>2, <3>3
  <2>4. QED BY <2>2, <2>3
<1>7. FirstBytes(n) \o chunk = FirstBytes(n + k)
    BY <1>4, <1>5, <1>6, SeqEqual
<1>8. QED BY <1>2, <1>7 DEF chunk

-----------------------------------------------------------------------------
(* What the validation says of the window, and what it should say of the file. *)

LEMMA FileIsSequence ==
    ASSUME StreamTypeOK
    PROVE  file \in Seq(Symbols) /\ Len(file) \in Nat
BY StreamAssumption DEF StreamTypeOK

\* Of what passes, the size alone decides.
LEMMA ExpectedBySize ==
    ASSUME Expected \in {"stored", "too_large"}
    PROVE  (Expected = "too_large") <=> (Len(file) > MaxFileSize)
BY DEF Expected

\* The first bytes of the file, as the window shows them.
LEMMA SymbolicFirst ==
    ASSUME StreamTypeOK, NEW n \in 0 .. Len(file)
    PROVE  Symbolic(FirstBytes(n)) = SubSeq(file, 1, n)
<1>1. Len(file) \in Nat /\ file \in Seq(Symbols)
    BY FileIsSequence
<1>2. Len(FirstBytes(n)) = n /\ \A i \in 1 .. n : FirstBytes(n)[i] = i
    BY <1>1, FirstBytesSeq
<1>3. Symbolic(FirstBytes(n)) = [i \in 1 .. n |-> file[i]]
    BY <1>2 DEF Symbolic
<1>4. SubSeq(file, 1, n) = [i \in 1 .. n |-> file[i]]
    BY <1>1
<1>5. QED BY <1>3, <1>4

LEMMA SniffedEnough ==
    ASSUME NEW type \in DOMAIN Signatures
    PROVE  /\ Required(type) \in Nat
           /\ \A p \in Signatures[type] : p.offset + 1 <= Required(type) /\ p.offset \in Nat
<1> DEFINE offsets == {p.offset + 1 : p \in Signatures[type]}
<1>1. offsets = {1} \/ offsets = {1, 2}
  <2>1. CASE type = "webp"
    <3>1. Signatures[type] = {At("riff", 0), At("webp", 1)}
        BY <2>1 DEF Signatures
    <3>2. At("riff", 0).offset + 1 = 1 /\ At("webp", 1).offset + 1 = 2
        BY DEF At
    <3>3. offsets = {1, 2}
        BY <3>1, <3>2
    <3>4. QED BY <3>3
  <2>2. CASE type # "webp"
    <3>1. /\ Signatures[type] # {}
          /\ \A p \in Signatures[type] : p.offset = 0
      <4>1. Signatures[type] \in {{At("pdf", 0)}, {At("zip", 0), At("empty", 0)}, {At("zip", 0)}}
          BY <2>2 DEF Signatures
      <4>2. \A symbol : At(symbol, 0).offset = 0
          BY DEF At
      <4>3. QED BY <4>1, <4>2
    <3>2. offsets = {1}
        BY <3>1
    <3>3. QED BY <3>2
  <2>3. QED BY <2>1, <2>2
<1>2. Max({1}) = 1 /\ Max({1, 2}) = 2
    BY DEF Max
<1>3. Required(type) = Max(offsets)
    BY DEF Required
<1>4. \A p \in Signatures[type] : p.offset \in {0, 1}
    BY DEF Signatures, At
<1>5. \A p \in Signatures[type] : p.offset + 1 \in offsets
    OBVIOUS
<1> HIDE DEF offsets
<1>6. Required(type) \in Nat /\ \A x \in offsets : x <= Required(type)
    BY <1>1, <1>2, <1>3
<1>7. QED BY <1>4, <1>5, <1>6

\* A signature lies within the bytes the type requires.
LEMMA SignatureInPrefix ==
    ASSUME StreamTypeOK, NEW type \in DOMAIN Signatures,
           NEW n \in 0 .. Len(file), n = Len(file) \/ Required(type) <= n
    PROVE  SignatureMatches(SubSeq(file, 1, n), type) <=> SignatureMatches(file, type)
<1>1. Len(file) \in Nat /\ file \in Seq(Symbols)
    BY FileIsSequence
<1>2. ASSUME NEW p \in Signatures[type]
      PROVE  Matches(p, SubSeq(file, 1, n)) <=> Matches(p, file)
  <2>1. p.offset \in Nat /\ p.offset + 1 <= Required(type) /\ Required(type) \in Nat
      BY SniffedEnough
  <2>2. Len(SubSeq(file, 1, n)) = n /\ \A i \in 1 .. n : SubSeq(file, 1, n)[i] = file[i]
      BY <1>1
  <2>3. QED BY <1>1, <2>1, <2>2 DEF Matches
<1>3. QED BY <1>2 DEF SignatureMatches

LEMMA PrefixIs ==
    ASSUME StreamTypeOK
    PROVE  Prefix = SubSeq(file, 1, IF SniffBytes <= Len(file) THEN SniffBytes ELSE Len(file))
<1>1. Len(file) \in Nat /\ SniffBytes \in Nat
    BY FileIsSequence, StreamAssumption
<1>2. Min({SniffBytes, Len(file)}) = IF SniffBytes <= Len(file) THEN SniffBytes ELSE Len(file)
    BY <1>1 DEF Min
<1>3. QED BY <1>2 DEF Prefix

\* The verdict on the window is the verdict on the file: on the first SniffBytes of a
\* file that has them, on the whole of a shorter one.
LEMMA VerdictIsExpected ==
    ASSUME StreamTypeOK, declared \in AllowedTypes, NEW n \in 0 .. Len(file),
           NEW exhausted \in BOOLEAN,
           \/ ~exhausted /\ n = SniffBytes
           \/ exhausted /\ n = Len(file) /\ n < SniffBytes
    PROVE  LET verdict == Verdict(declared, SubSeq(file, 1, n), exhausted)
           IN  IF verdict = "valid" THEN Expected \in {"stored", "too_large"}
               ELSE verdict = Expected /\ verdict \in Answers
<1>1. Len(file) \in Nat /\ file \in Seq(Symbols) /\ SniffBytes \in Nat
    BY FileIsSequence, StreamAssumption
<1>2. Prefix = SubSeq(file, 1, n)
    BY <1>1, PrefixIs
<1>3. Len(SubSeq(file, 1, n)) = n
    BY <1>1
<1>4. CASE declared \in TextTypes
  <2>1. declared \in TextTypes \union DOMAIN Signatures /\ declared \notin DOMAIN Signatures
      BY <1>4 DEF TextTypes, Signatures
  <2>2. Verdict(declared, SubSeq(file, 1, n), exhausted) =
            IF Decodable(Prefix) THEN "valid" ELSE "undecodable"
      BY <1>2, <1>4, <2>1 DEF Verdict
  <2>3. QED BY <1>4, <2>1, <2>2 DEF Expected, Answers
<1>5. CASE declared \notin TextTypes \union DOMAIN Signatures
    BY <1>5 DEF Verdict, Expected, Answers
<1>6. CASE declared \in DOMAIN Signatures
  <2>1. declared \notin TextTypes
      BY <1>6 DEF TextTypes, Signatures
  <2>2. Required(declared) \in Nat /\ Required(declared) <= SniffBytes
      BY <1>6, SniffedEnough, SniffAssumption
  <2>3. SignatureMatches(SubSeq(file, 1, n), declared) <=> SignatureMatches(file, declared)
      BY <1>1, <1>6, <2>2, SignatureInPrefix
  <2>4. Verdict(declared, SubSeq(file, 1, n), exhausted) =
            IF exhausted /\ n < Required(declared) THEN "truncated"
            ELSE IF SignatureMatches(file, declared) THEN "valid" ELSE "mismatch"
      BY <1>3, <1>6, <2>1, <2>3 DEF Verdict
  <2>5. Len(file) < Required(declared) <=> exhausted /\ n < Required(declared)
      BY <1>1, <2>2
  <2>6. QED BY <1>6, <2>1, <2>4, <2>5 DEF Expected, Answers
<1>7. QED BY <1>4, <1>5, <1>6

-----------------------------------------------------------------------------
(* The steps. *)

LEMMA Constants ==
    /\ SniffBytes \in Nat \ {0} /\ ReadChunk \in Nat \ {0}
    /\ PartSize \in Nat \ {0} /\ MaxFileSize \in Nat \ {0}
BY StreamAssumption

\* What the file should meet with does not change.
LEMMA ExpectedFixed ==
    ASSUME UNCHANGED fixed
    PROVE  Expected' = Expected
BY DEF fixed, Expected, Prefix

\* Lengths and types of what the sequences hold.
LEMMA Lengths ==
    ASSUME StreamInv
    PROVE  /\ Len(file) \in Nat /\ taken \in Nat /\ taken <= Len(file)
           /\ FlattenSeq(held) \in Positions /\ FlattenSeq(parts) \in Positions
           /\ Len(hashed) \in Nat /\ Len(buffer) \in Nat /\ Len(FlattenSeq(parts)) \in Nat
           /\ Len(FlattenSeq(held)) \in Nat
           /\ Len(hashed) + Len(FlattenSeq(held)) = taken
           /\ Running /\ pc # "complete" =>
                 Len(FlattenSeq(parts)) + Len(buffer) = Len(hashed)
<1> DEFINE S == 1 .. Len(file)
<1>1. /\ Len(file) \in Nat /\ taken \in 0 .. Len(file)
      /\ held \in Seq(Seq(S)) /\ parts \in Seq(Seq(S))
      /\ hashed \in Seq(S) /\ buffer \in Seq(S)
    BY FileIsSequence DEF StreamInv, StreamTypeOK, Positions
<1> HIDE DEF S
<1>2. FlattenSeq(held) \in Seq(S) /\ FlattenSeq(parts) \in Seq(S)
    BY <1>1, FlattenType
<1>3. hashed \o FlattenSeq(held) = FirstBytes(taken)
    BY DEF StreamInv, TakenInOrder
<1>4. Len(FirstBytes(taken)) = taken
    BY <1>1, FirstBytesSeq
<1>5. Len(hashed \o FlattenSeq(held)) = Len(hashed) + Len(FlattenSeq(held))
    BY <1>1, <1>2, ConcatProperties
<1>6. Len(FlattenSeq(parts) \o buffer) = Len(FlattenSeq(parts)) + Len(buffer)
    BY <1>1, <1>2, ConcatProperties
<1>7. Running /\ pc # "complete" => FlattenSeq(parts) \o buffer = hashed
    BY DEF StreamInv, PartsInv
<1>8. /\ Len(hashed) \in Nat /\ Len(buffer) \in Nat
      /\ Len(FlattenSeq(parts)) \in Nat /\ Len(FlattenSeq(held)) \in Nat
    BY <1>1, <1>2, LenProperties
<1>9. /\ Len(hashed) + Len(FlattenSeq(held)) = taken
      /\ Running /\ pc # "complete" =>
            Len(FlattenSeq(parts)) + Len(buffer) = Len(hashed)
    BY <1>3, <1>4, <1>5, <1>6, <1>7
<1>10. taken \in Nat /\ taken <= Len(file)
    BY <1>1
<1>11. QED BY <1>1, <1>2, <1>8, <1>9, <1>10 DEF Positions, S

\* A step that leaves the bytes alone keeps what is said of them.
LEMMA BytesUntouched ==
    ASSUME StreamInv, UNCHANGED <<fixed, taken, held, downstream>>, pc' \in Steps, answer' \in Answers
    PROVE  /\ StreamTypeOK' /\ TakenInOrder' /\ BoundedMemory' /\ StoredIsFile'
           /\ Expected' = Expected
<1>1. Expected' = Expected
    BY ExpectedFixed
<1>2. StreamTypeOK'
    BY DEF StreamInv, StreamTypeOK, fixed, downstream, Positions
<1>3. TakenInOrder'
    BY DEF StreamInv, TakenInOrder, fixed, downstream
<1>4. BoundedMemory'
    BY DEF StreamInv, BoundedMemory, fixed, downstream
<1>5. StoredIsFile'
    BY <1>1 DEF StreamInv, StoredIsFile, fixed, downstream
<1>6. QED BY <1>1, <1>2, <1>3, <1>4, <1>5

LEMMA GateInv ==
    ASSUME StreamInv, Gate
    PROVE  StreamInv'
<1>1. pc' \in {"sniff", "done"} /\ answer' \in Answers
    BY DEF Gate, Goto, Refuse, Answers, StreamInv, StreamTypeOK
<1>2. UNCHANGED <<fixed, taken, held, downstream>> /\ pc = "gate"
    BY DEF Gate
<1>3. /\ StreamTypeOK' /\ TakenInOrder' /\ BoundedMemory' /\ StoredIsFile'
      /\ Expected' = Expected
    BY <1>1, <1>2, BytesUntouched DEF Steps
<1>4. pc' = "done" => answer' = Expected
    BY DEF Gate, Goto, Refuse, Expected
<1>5. WindowInv'
    BY <1>1, <1>2, Constants
       DEF Gate, Goto, Refuse, StreamInv, WindowInv, Untouched, fixed, downstream
<1>6. PartsInv'
  <2>1. Running /\ pc # "complete"
      BY <1>2 DEF Running
  <2>2. QED BY <1>1, <1>2, <2>1 DEF StreamInv, PartsInv, Running, fixed, downstream
<1>7. JudgedInv' /\ UploadInv' /\ FateOfContent'
    BY <1>1, <1>2, <1>3, <1>4
       DEF Gate, Goto, Refuse, StreamInv, WindowInv, JudgedInv, UploadInv, FateOfContent,
           EndedIsClosed, PartsCared, Running, downstream
<1>8. QED BY <1>3, <1>5, <1>6, <1>7 DEF StreamInv

\* What the judgement of a window of n bytes does.
LEMMA JudgeStep ==
    ASSUME StreamTypeOK, declared \in AllowedTypes, NEW n \in 0 .. Len(file),
           NEW exhausted \in BOOLEAN,
           \/ ~exhausted /\ n = SniffBytes
           \/ exhausted /\ n = Len(file) /\ n < SniffBytes,
           Judge(FirstBytes(n), exhausted)
    PROVE  \/ pc' = "open" /\ answer' = answer /\ Expected \in {"stored", "too_large"}
           \/ pc' = "done" /\ answer' = Expected /\ answer' \in Answers
<1> DEFINE verdict == Verdict(declared, SubSeq(file, 1, n), exhausted)
<1>1. IF verdict = "valid" THEN Expected \in {"stored", "too_large"}
      ELSE verdict = Expected /\ verdict \in Answers
    BY VerdictIsExpected
<1>2. IF verdict = "valid" THEN Goto("open") ELSE Refuse(verdict)
    BY SymbolicFirst DEF Judge
<1> HIDE DEF verdict
<1>3. QED BY <1>1, <1>2 DEF Goto, Refuse

LEMMA SniffEndInv ==
    ASSUME StreamInv, SniffEnd
    PROVE  StreamInv'
<1>1. /\ UNCHANGED <<fixed, taken, held, downstream>> /\ pc = "sniff"
      /\ taken = Len(file) /\ Judge(Window, TRUE)
    BY DEF SniffEnd
<1>2. /\ declared \in AllowedTypes /\ taken < SniffBytes /\ Untouched /\ multipart = "none"
      /\ StreamTypeOK /\ answer = "none"
    BY <1>1 DEF StreamInv, WindowInv, JudgedInv, Running
<1>3. Window = FirstBytes(taken)
  <2>1. FlattenSeq(held) \in Seq(1 .. Len(file))
      BY Lengths DEF Positions
  <2>2. hashed = <<>>
      BY <1>2 DEF Untouched
  <2>3. <<>> \o FlattenSeq(held) = FlattenSeq(held)
      BY <2>1, ConcatEmptySeq
  <2>4. hashed \o FlattenSeq(held) = FirstBytes(taken)
      BY DEF StreamInv, TakenInOrder
  <2>5. QED BY <2>2, <2>3, <2>4 DEF Window
<1>4. \/ pc' = "open" /\ answer' = answer /\ Expected \in {"stored", "too_large"}
      \/ pc' = "done" /\ answer' = Expected /\ answer' \in Answers
  <2>1. Judge(FirstBytes(taken), TRUE)
      BY <1>1, <1>3 DEF Judge
  <2>2. taken \in 0 .. Len(file)
      BY <1>2 DEF StreamTypeOK
  <2>3. QED BY <1>1, <1>2, <2>1, <2>2, JudgeStep
<1>5. /\ StreamTypeOK' /\ TakenInOrder' /\ BoundedMemory' /\ StoredIsFile'
      /\ Expected' = Expected
    BY <1>1, <1>2, <1>4, BytesUntouched DEF Steps, Answers
<1>6. WindowInv'
    BY <1>1, <1>2, <1>4 DEF StreamInv, WindowInv, Untouched, fixed, downstream
<1>7. PartsInv'
  <2>1. Len(buffer') = 0
      BY <1>1, <1>2, EmptySeq DEF Untouched, downstream
  <2>2. Running /\ pc # "complete"
      BY <1>1 DEF Running
  <2>3. QED BY <1>1, <1>4, <2>1, <2>2, Constants DEF StreamInv, PartsInv, Running, downstream
<1>8. JudgedInv' /\ UploadInv' /\ FateOfContent'
  <2>1. Len(hashed') = 0
      BY <1>1, <1>2, EmptySeq DEF Untouched, downstream
  <2>2. QED BY <1>1, <1>2, <1>4, <1>5, <2>1, Constants
               DEF JudgedInv, UploadInv, FateOfContent, EndedIsClosed,
                   PartsCared, Running, downstream
<1>9. QED BY <1>5, <1>6, <1>7, <1>8 DEF StreamInv

\* While nothing was hashed, what is held is all that was taken.
LEMMA HeldIsTaken ==
    ASSUME StreamInv, hashed = <<>>
    PROVE  Window = FirstBytes(taken)
<1>1. FlattenSeq(held) \in Seq(1 .. Len(file))
    BY Lengths DEF Positions
<1>2. <<>> \o FlattenSeq(held) = FlattenSeq(held)
    BY <1>1, ConcatEmptySeq
<1>3. hashed \o FlattenSeq(held) = FirstBytes(taken)
    BY DEF StreamInv, TakenInOrder
<1>4. QED BY <1>2, <1>3 DEF Window

LEMMA FirstOfFirstBytes ==
    ASSUME NEW n \in Nat, NEW m \in 0 .. n
    PROVE  SubSeq(FirstBytes(n), 1, m) = FirstBytes(m)
<1>1. /\ FirstBytes(n) \in Seq(1 .. n) /\ Len(FirstBytes(n)) = n
      /\ \A i \in 1 .. n : FirstBytes(n)[i] = i
    BY FirstBytesSeq
<1>2. SubSeq(FirstBytes(n), 1, m) = [i \in 1 .. m |-> FirstBytes(n)[i]]
    BY <1>1
<1>3. QED BY <1>1, <1>2 DEF FirstBytes

\* The replay gives back what the window held, in at most two pieces.
LEMMA ReplayIsWindow ==
    ASSUME NEW S, NEW w \in Seq(S), SniffBytes <= Len(w)
    PROVE  /\ Replay(w) \in Seq(Seq(S)) /\ Len(Replay(w)) \in Nat /\ Len(Replay(w)) <= 2
           /\ FlattenSeq(Replay(w)) = w
<1>1. CASE Len(w) = SniffBytes
  <2>1. Replay(w) = <<w>>
      BY <1>1 DEF Replay
  <2>2. FlattenSeq(<<w>>) = w
      BY FlattenShort
  <2>3. <<w>> \in Seq(Seq(S)) /\ Len(<<w>>) = 1
      OBVIOUS
  <2>4. QED BY <2>1, <2>2, <2>3
<1>2. CASE Len(w) # SniffBytes
  <2> DEFINE a == SubSeq(w, 1, SniffBytes)
             b == SubSeq(w, SniffBytes + 1, Len(w))
  <2>1. Replay(w) = <<a, b>>
      BY <1>2 DEF Replay
  <2>2. a \in Seq(S) /\ b \in Seq(S)
      BY Constants
  <2>3. a \o b = w
    <3>1. a \o b = SubSeq(w, 1, Len(w))
      <4>1. /\ 1 \in 1 .. Len(w) + 1 /\ SniffBytes \in 1 - 1 .. Len(w)
            /\ Len(w) \in SniffBytes .. Len(w)
          BY Constants
      <4>2. QED BY <4>1, ConcatAdjacentSubSeq
    <3>2. QED BY <3>1, SubSeqFull
  <2> HIDE DEF a, b
  <2>4. FlattenSeq(<<a, b>>) = a \o b
      BY <2>2, FlattenShort
  <2>5. <<a, b>> \in Seq(Seq(S)) /\ Len(<<a, b>>) = 2
      BY <2>2
  <2>6. QED BY <2>1, <2>3, <2>4, <2>5
<1>3. QED BY <1>1, <1>2

\* The longer of a part and the window.
LEMMA MaxIs ==
    /\ Max({PartSize, SniffBytes}) \in Nat
    /\ PartSize <= Max({PartSize, SniffBytes}) /\ SniffBytes <= Max({PartSize, SniffBytes})
<1>1. Max({PartSize, SniffBytes}) = IF PartSize <= SniffBytes THEN SniffBytes ELSE PartSize
    BY Constants DEF Max
<1>2. QED BY <1>1, Constants

LEMMA SniffInv ==
    ASSUME StreamInv, Sniff
    PROVE  StreamInv'
<1> DEFINE S == 1 .. Len(file)
<1>1. PICK k \in 1 .. ReadChunk :
          LET chunk  == [i \in 1 .. k |-> taken + i]
              window == Window \o chunk
          IN /\ taken + k <= Len(file)
             /\ taken' = taken + Len(chunk)
             /\ IF Len(window) >= SniffBytes
                THEN /\ Judge(SubSeq(window, 1, SniffBytes), FALSE)
                     /\ held' = Replay(window)
                ELSE /\ Goto("sniff")
                     /\ held' = <<window>>
    BY DEF Sniff, Chunks
<1>2. UNCHANGED <<fixed, downstream>> /\ pc = "sniff"
    BY DEF Sniff
<1>3. /\ declared \in AllowedTypes /\ taken < SniffBytes /\ multipart = "none"
      /\ StreamTypeOK /\ answer = "none"
      /\ hashed = <<>> /\ buffer = <<>> /\ parts = <<>> /\ object = {}
    BY <1>2 DEF StreamInv, WindowInv, JudgedInv, Running, Untouched
<1>4. Len(file) \in Nat /\ taken \in Nat /\ k \in Nat /\ k <= ReadChunk
    BY Lengths, Constants
<1> DEFINE chunk  == [i \in 1 .. k |-> taken + i]
           n      == taken + k
<1>5. Len(chunk) = k /\ Window \o chunk = FirstBytes(n)
  <2>1. Window = FirstBytes(taken)
      BY <1>3, HeldIsTaken
  <2>2. QED BY <1>1, <1>4, <2>1, ChunkFollows
<1>6. /\ n \in 0 .. Len(file) /\ taken' = n
      /\ FirstBytes(n) \in Seq(S) /\ Len(FirstBytes(n)) = n
    BY <1>1, <1>4, <1>5, FirstBytesSeq
<1> DEFINE w == FirstBytes(n)
<1>7. /\ held' \in Seq(Seq(S)) /\ Len(held') <= 2 /\ FlattenSeq(held') = w
      /\ \/ n < SniffBytes /\ pc' = "sniff" /\ answer' = answer /\ Len(held') <= 1
         \/ pc' = "open" /\ answer' = answer /\ Expected \in {"stored", "too_large"}
         \/ pc' = "done" /\ answer' = Expected /\ answer' \in Answers
  <2>1. CASE n >= SniffBytes
    <3>1. Judge(SubSeq(w, 1, SniffBytes), FALSE) /\ held' = Replay(w)
        BY <1>1, <1>5, <1>6, <2>1
    <3>2. SubSeq(w, 1, SniffBytes) = FirstBytes(SniffBytes)
      <4>1. n \in Nat /\ SniffBytes \in 0 .. n
          BY <1>6, <2>1, Constants
      <4> HIDE DEF n
      <4>2. QED BY <4>1, FirstOfFirstBytes
    <3>3. Judge(FirstBytes(SniffBytes), FALSE)
        BY <3>1, <3>2 DEF Judge
    <3>4. SniffBytes \in 0 .. Len(file)
        BY <1>6, <2>1, Constants
    <3>5. \/ pc' = "open" /\ answer' = answer /\ Expected \in {"stored", "too_large"}
          \/ pc' = "done" /\ answer' = Expected /\ answer' \in Answers
        BY <1>3, <3>3, <3>4, JudgeStep
    <3>6. SniffBytes <= Len(w) /\ w \in Seq(S)
        BY <1>6, <2>1
    <3> HIDE DEF w, S
    <3>7. /\ Replay(w) \in Seq(Seq(S)) /\ Len(Replay(w)) <= 2
          /\ FlattenSeq(Replay(w)) = w
        BY <3>6, ReplayIsWindow
    <3>8. QED BY <3>1, <3>5, <3>7
  <2>2. CASE ~ (n >= SniffBytes)
    <3>1. Goto("sniff") /\ held' = <<w>>
        BY <1>1, <1>5, <1>6, <2>2
    <3>2. w \in Seq(S) /\ n < SniffBytes
        BY <1>6, <2>2, Constants
    <3> HIDE DEF w, S, n
    <3>3. FlattenSeq(<<w>>) = w
        BY <3>2, FlattenShort
    <3>4. <<w>> \in Seq(Seq(S)) /\ Len(<<w>>) = 1
        BY <3>2
    <3>5. QED BY <3>1, <3>2, <3>3, <3>4 DEF Goto
  <2>3. QED BY <2>1, <2>2
<1>8. Expected' = Expected
    BY <1>2, ExpectedFixed
<1>9. StreamTypeOK'
    BY <1>2, <1>3, <1>6, <1>7
       DEF StreamTypeOK, Positions, fixed, downstream, Steps, Answers
<1>10. TakenInOrder'
  <2>1. hashed' = <<>>
      BY <1>2, <1>3 DEF downstream
  <2>2. <<>> \o w = w
      BY <1>6, ConcatEmptySeq
  <2>3. QED BY <1>6, <1>7, <2>1, <2>2 DEF TakenInOrder
<1>11. WindowInv'
    BY <1>2, <1>3, <1>6, <1>7 DEF WindowInv, Untouched, fixed, downstream
<1>12. Len(buffer') = 0 /\ Len(hashed') = 0 /\ parts' = parts /\ object' = {}
    BY <1>2, <1>3, EmptySeq DEF downstream
<1>13. PartsInv'
  <2>1. Running /\ pc # "complete"
      BY <1>2 DEF Running
  <2>2. QED BY <1>2, <1>7, <1>12, <2>1, Constants DEF StreamInv, PartsInv, Running, downstream
<1>14. JudgedInv' /\ UploadInv' /\ FateOfContent'
    BY <1>2, <1>3, <1>7, <1>8, <1>12, Constants
       DEF JudgedInv, UploadInv, FateOfContent, EndedIsClosed, PartsCared, Running, downstream
<1>15. StoredIsFile'
    BY <1>12 DEF StoredIsFile
<1>16. BoundedMemory'
  <2>1. FlattenSeq(parts') = <<>> /\ Len(<<>>) = 0
      BY <1>3, <1>12, FlattenEmpty, EmptySeq
  <2>2. QED BY <1>3, <1>4, <1>6, <2>1, MaxIs, Constants DEF BoundedMemory
<1>17. QED BY <1>9, <1>10, <1>11, <1>13, <1>14, <1>15, <1>16 DEF StreamInv

LEMMA OpenInv ==
    ASSUME StreamInv, Open
    PROVE  StreamInv'
<1>1. /\ pc = "open" /\ UNCHANGED <<fixed, taken, held, hashed, buffer, parts, object>>
      /\ \/ pc' = "pull" /\ answer' = answer /\ multipart' = "open"
         \/ pc' = "done" /\ answer' = "storage" /\ multipart' \in {"none", "unknown"}
    BY DEF Open, Goto, Refuse
<1>2. Expected' = Expected
    BY <1>1, ExpectedFixed
<1>3. StreamTypeOK'
    BY <1>1 DEF StreamInv, StreamTypeOK, Positions, fixed, Steps, Answers
<1>4. TakenInOrder' /\ BoundedMemory'
    BY <1>1 DEF StreamInv, TakenInOrder, BoundedMemory
<1>5. WindowInv'
    BY <1>1 DEF StreamInv, WindowInv
<1>6. PartsInv'
    BY <1>1 DEF StreamInv, PartsInv, Running
<1>7. JudgedInv' /\ UploadInv' /\ FateOfContent' /\ StoredIsFile'
    BY <1>1, <1>2
       DEF StreamInv, JudgedInv, UploadInv, FateOfContent, StoredIsFile, EndedIsClosed,
           PartsCared,
           WindowInv, Untouched, Running
<1>8. QED BY <1>3, <1>4, <1>5, <1>6, <1>7 DEF StreamInv

LEMMA BufferGrows ==
    ASSUME StreamInv, NEW chunk \in Positions
    PROVE  (FlattenSeq(parts) \o buffer) \o chunk = FlattenSeq(parts) \o (buffer \o chunk)
<1> DEFINE S == 1 .. Len(file)
<1>1. FlattenSeq(parts) \in Seq(S) /\ buffer \in Seq(S) /\ chunk \in Seq(S)
    BY Lengths DEF Positions, StreamInv, StreamTypeOK
<1> HIDE DEF S
<1>2. \A a, b, c \in Seq(S) : (a \o b) \o c = a \o (b \o c)
    BY Regroup
<1>3. QED BY <1>1, <1>2, Zenon

\* A chunk goes through the tee, from the replay or from the request.
LEMMA TakeInv ==
    ASSUME StreamInv, pc = "pull", NEW chunk \in Positions, Take(chunk),
           taken' \in 0 .. Len(file), held' \in Seq(Positions), Len(held') <= 2,
           (hashed \o chunk) \o FlattenSeq(held') = FirstBytes(taken'),
           taken' - Len(FlattenSeq(parts)) < Max({PartSize, SniffBytes}) + ReadChunk
    PROVE  StreamInv'
<1> DEFINE S == 1 .. Len(file)
<1>1. /\ UNCHANGED <<fixed, parts, multipart, object>> /\ hashed' = hashed \o chunk
      /\ IF Len(hashed) + Len(chunk) <= MaxFileSize
         THEN /\ buffer' = buffer \o chunk /\ answer' = answer
              /\ pc' = IF Len(buffer') >= PartSize THEN "flush" ELSE "pull"
         ELSE pc' = "abort" /\ answer' = "too_large" /\ buffer' = buffer
    BY DEF Take, WithinLimit, Cut, Goto, Fail
<1>2. /\ Len(file) \in Nat /\ chunk \in Seq(S) /\ hashed \in Seq(S) /\ buffer \in Seq(S)
      /\ parts \in Seq(Seq(S)) /\ held' \in Seq(Seq(S))
    BY Lengths DEF StreamInv, StreamTypeOK, Positions
<1>3. /\ Expected' = Expected /\ Expected \in {"stored", "too_large"}
      /\ object = {} /\ multipart = "open" /\ answer = "none" /\ Running /\ pc # "complete"
    BY <1>1, ExpectedFixed DEF StreamInv, JudgedInv, UploadInv, Running
<1> HIDE DEF S
<1>4. hashed' \in Seq(S) /\ Len(hashed') = Len(hashed) + Len(chunk)
    BY <1>1, <1>2, ConcatProperties
<1>5. buffer \o chunk \in Seq(S) /\ buffer' \in Seq(S)
    BY <1>1, <1>2, ConcatProperties
<1>6. Len(hashed') <= Len(file)
  <2>1. FlattenSeq(held') \in Seq(S)
      BY <1>2, FlattenType
  <2>2. Len(hashed' \o FlattenSeq(held')) = Len(hashed') + Len(FlattenSeq(held'))
      BY <1>4, <2>1, ConcatProperties
  <2>3. Len(FirstBytes(taken')) = taken'
      BY FirstBytesSeq
  <2>4. Len(hashed') \in Nat /\ Len(FlattenSeq(held')) \in Nat
      BY <1>4, <2>1, LenProperties
  <2>5. QED BY <1>1, <1>2, <2>2, <2>3, <2>4
<1>7. Len(hashed') \in Nat /\ Len(buffer') \in Nat
    BY <1>4, <1>5, LenProperties
<1>8. StreamTypeOK'
    BY <1>1, <1>2, <1>3, <1>4, <1>5
       DEF StreamInv, StreamTypeOK, Positions, fixed, Steps, Answers, S
<1>9. TakenInOrder'
    BY <1>1 DEF TakenInOrder
<1>10. WindowInv'
    BY <1>1, <1>3 DEF WindowInv
<1>11. PartsInv'
  <2>1. FlattenSeq(parts) \o buffer = hashed
      BY <1>3 DEF StreamInv, PartsInv
  <2>2. FlattenSeq(parts) \in Seq(S)
      BY <1>2, FlattenType
  <2>3. (FlattenSeq(parts) \o buffer) \o chunk = FlattenSeq(parts) \o (buffer \o chunk)
      BY BufferGrows
  <2>4. Running' => FlattenSeq(parts') \o buffer' = hashed'
      BY <1>1, <2>1, <2>3 DEF Running
  <2>5. pc' = "pull" => Len(buffer') < PartSize
      BY <1>1, <1>7, Constants
  <2>6. pc' \in {"pull", "flush", "abort"} /\ (pc' = "flush" => Len(buffer') >= PartSize)
      BY <1>1
  <2>7. \A i \in 1 .. Len(parts') : Len(parts'[i]) = PartSize
      BY <1>1, <1>3 DEF StreamInv, PartsInv
  <2>8. QED BY <2>4, <2>5, <2>6, <2>7 DEF PartsInv
<1>12. JudgedInv'
  <2>1. CASE Len(hashed') <= MaxFileSize
      BY <1>1, <1>3, <1>4, <2>1 DEF JudgedInv, Running
  <2>2. CASE ~ (Len(hashed') <= MaxFileSize)
    <3>1. Len(file) > MaxFileSize
        BY <1>2, <1>6, <1>7, <2>2, Constants
    <3>2. Expected = "too_large"
        BY <1>3, <3>1, ExpectedBySize
    <3>3. QED BY <1>1, <1>3, <1>4, <2>2, <3>2 DEF JudgedInv, Running
  <2>3. QED BY <2>1, <2>2
<1>13. UploadInv' /\ FateOfContent' /\ StoredIsFile'
    BY <1>1, <1>3 DEF UploadInv, FateOfContent, StoredIsFile, EndedIsClosed, PartsCared
<1>14. BoundedMemory'
    BY <1>1 DEF BoundedMemory
<1>15. QED BY <1>8, <1>9, <1>10, <1>11, <1>12, <1>13, <1>14 DEF StreamInv

\* The replay is given back piece by piece.
LEMMA HeldInPieces ==
    ASSUME NEW S, NEW q \in Seq(Seq(S)), Len(q) <= 2, q # <<>>
    PROVE  /\ Head(q) \in Seq(S) /\ Tail(q) \in Seq(Seq(S)) /\ Len(Tail(q)) <= 1
           /\ FlattenSeq(q) = Head(q) \o FlattenSeq(Tail(q))
<1> DEFINE X == Seq(S)
<1>a. q \in Seq(X) /\ \A i \in 1 .. Len(q) : q[i] \in X
    OBVIOUS
<1>1. Len(q) \in {1, 2}
  <2>1. Len(q) \in Nat \ {0}
    <3> HIDE DEF X
    <3>1. QED BY <1>a, EmptySeq
  <2>2. Len(q) = 1 \/ Len(q) = 2
    <3> DEFINE l == Len(q)
    <3>1. l \in Nat \ {0} /\ l <= 2
        BY <2>1
    <3> HIDE DEF l
    <3>2. l = 1 \/ l = 2
        BY <3>1
    <3>3. QED BY <3>2 DEF l
  <2>3. QED BY <2>2
<1>2. Head(q) \in X /\ Tail(q) \in Seq(X) /\ Head(q) = q[1] /\ Tail(q) = SubSeq(q, 2, Len(q))
  <2>1. Head(q) = q[1]
      BY <1>a
  <2> HIDE DEF X
  <2>2. QED BY <1>a, <2>1, HeadTailProperties, TailIsSubSeq
<1>3. CASE Len(q) = 1
  <2>1. q[1] \in Seq(S)
      BY <1>a, <1>3
  <2>2. q = <<q[1]>>
    <3>1. <<q[1]>> \in Seq(X) /\ Len(<<q[1]>>) = 1 /\ \A i \in 1 .. 1 : <<q[1]>>[i] = q[i]
        BY <2>1
    <3> HIDE DEF X
    <3>2. QED BY <1>a, <1>3, <3>1, SeqEqual
  <2>3. Tail(q) = <<>>
      BY <1>2, <1>3, SubSeqEmpty
  <2>4. FlattenSeq(<<q[1]>>) = q[1] /\ q[1] \o <<>> = q[1]
      BY <2>1, FlattenShort, ConcatEmptySeq
  <2>5. Len(Tail(q)) <= 1
      BY <2>3, EmptySeq
  <2>6. QED BY <1>2, <2>2, <2>3, <2>4, <2>5, FlattenEmpty
<1>4. CASE Len(q) = 2
  <2>1. q[1] \in Seq(S) /\ q[2] \in Seq(S)
      BY <1>a, <1>4
  <2>2. q = <<q[1], q[2]>>
    <3> DEFINE r == <<q[1], q[2]>>
    <3>1. r \in Seq(X) /\ Len(r) = 2 /\ \A i \in 1 .. 2 : r[i] = q[i]
        BY <2>1
    <3> HIDE DEF X, r
    <3>2. q = r
        BY <1>a, <1>4, <3>1, SeqEqual
    <3>3. QED BY <3>2 DEF r
  <2>3. Tail(q) = <<q[2]>>
    <3> DEFINE r == SubSeq(q, 2, 2)
               t == <<q[2]>>
    <3>a. r \in Seq(X) /\ Len(r) = 1 /\ r[1] = q[2]
      <4>1. \A i \in 2 .. 2 : q[i] \in X
          BY <1>a, <1>4
      <4> HIDE DEF X
      <4>2. /\ r \in Seq(X) /\ Len(r) = IF 2 <= 2 THEN 2 - 2 + 1 ELSE 0
            /\ \A i \in 1 .. 2 - 2 + 1 : r[i] = q[2 + i - 1]
          BY <4>1, SubSeqProperties
      <4> HIDE DEF r
      <4>3. QED BY <4>2
    <3>b. t \in Seq(X) /\ Len(t) = 1 /\ t[1] = q[2]
        BY <2>1
    <3>1. r = t
      <4> HIDE DEF X, r, t
      <4>1. QED BY <3>a, <3>b, SeqEqual
    <3>2. QED BY <1>2, <1>4, <3>1
  <2>4. FlattenSeq(<<q[1], q[2]>>) = q[1] \o q[2] /\ FlattenSeq(<<q[2]>>) = q[2]
      BY <2>1, FlattenShort
  <2>5. Len(<<q[2]>>) = 1
      OBVIOUS
  <2>6. FlattenSeq(q) = Head(q) \o FlattenSeq(Tail(q))
      BY <1>2, <2>2, <2>3, <2>4, Zenon
  <2>7. Len(Tail(q)) <= 1
      BY <2>3, <2>5
  <2>8. QED BY <1>2, <2>6, <2>7
<1>5. QED BY <1>1, <1>3, <1>4

LEMMA PullInv ==
    ASSUME StreamInv, Pull
    PROVE  StreamInv'
<1> DEFINE S == 1 .. Len(file)
<1>1. pc = "pull" /\ Running /\ pc # "complete"
    BY DEF Pull, Running
<1>2. /\ Len(file) \in Nat /\ taken \in 0 .. Len(file) /\ hashed \in Seq(S)
      /\ held \in Seq(Seq(S)) /\ Len(held) <= 2 /\ parts \in Seq(Seq(S))
      /\ hashed \o FlattenSeq(held) = FirstBytes(taken)
    BY Lengths DEF StreamInv, StreamTypeOK, Positions, TakenInOrder, WindowInv
<1>3. CASE held # <<>> /\ held' = Tail(held) /\ Take(Head(held)) /\ UNCHANGED taken
  <2> HIDE DEF S
  <2>1. /\ Head(held) \in Seq(S) /\ Tail(held) \in Seq(Seq(S)) /\ Len(Tail(held)) <= 1
        /\ FlattenSeq(held) = Head(held) \o FlattenSeq(Tail(held))
      BY <1>2, <1>3, HeldInPieces
  <2>2. FlattenSeq(Tail(held)) \in Seq(S)
      BY <2>1, FlattenType
  <2>3. (hashed \o Head(held)) \o FlattenSeq(held') = FirstBytes(taken')
    <3>1. (hashed \o Head(held)) \o FlattenSeq(Tail(held))
              = hashed \o (Head(held) \o FlattenSeq(Tail(held)))
      <4>1. hashed \in Seq(S) /\ Head(held) \in Seq(S)
          BY <1>2, <2>1
      <4>2. \A a, b, c \in Seq(S) : (a \o b) \o c = a \o (b \o c)
          BY Regroup
      <4>3. QED BY <2>2, <4>1, <4>2, Zenon
    <3>2. QED BY <1>2, <1>3, <2>1, <3>1
  <2>4. taken' - Len(FlattenSeq(parts)) < Max({PartSize, SniffBytes}) + ReadChunk
      BY <1>3 DEF StreamInv, BoundedMemory
  <2>5. Head(held) \in Positions /\ held' \in Seq(Positions) /\ Len(held') <= 2
    <3>1. Len(Tail(held)) \in Nat
        BY <2>1, LenProperties
    <3>2. QED BY <1>3, <2>1, <3>1 DEF Positions, S
  <2>6. QED BY <1>1, <1>2, <1>3, <2>3, <2>4, <2>5, TakeInv
<1>4. ASSUME held = <<>>, UNCHANGED held,
             NEW chunk \in Chunks, taken' = taken + Len(chunk), Take(chunk)
      PROVE  StreamInv'
  <2>1. PICK k \in 1 .. ReadChunk : taken + k <= Len(file) /\ chunk = [i \in 1 .. k |-> taken + i]
      BY <1>4 DEF Chunks
  <2>2. k \in Nat /\ k <= ReadChunk /\ taken \in Nat
      BY <1>2, Constants
  <2>3. chunk \in Seq(S) /\ Len(chunk) = k /\ FirstBytes(taken) \o chunk = FirstBytes(taken + k)
      BY <1>2, <2>1, <2>2, ChunkFollows
  <2>4. taken' = taken + k /\ taken' \in 0 .. Len(file)
      BY <1>2, <1>4, <2>1, <2>2, <2>3
  <2>5. FlattenSeq(held) = <<>>
      BY <1>4, FlattenEmpty
  <2> HIDE DEF S
  <2>6. hashed = FirstBytes(taken)
      BY <1>2, <2>5, ConcatEmptySeq
  <2>7. (hashed \o chunk) \o FlattenSeq(held') = FirstBytes(taken')
    <3>1. hashed \o chunk = FirstBytes(taken')
        BY <2>3, <2>4, <2>6
    <3>2. hashed \o chunk \in Seq(S)
        BY <1>2, <2>3, ConcatProperties
    <3>3. (hashed \o chunk) \o <<>> = hashed \o chunk
        BY <3>2, ConcatEmptySeq
    <3>4. QED BY <1>4, <2>5, <3>1, <3>3
  <2>8. taken' - Len(FlattenSeq(parts)) < Max({PartSize, SniffBytes}) + ReadChunk
    <3>1. Len(FlattenSeq(held)) = 0
        BY <2>5, EmptySeq
    <3>2. Len(buffer) < PartSize
        BY <1>1 DEF StreamInv, PartsInv
    <3>3. taken = Len(FlattenSeq(parts)) + Len(buffer)
        BY <1>1, <3>1, Lengths
    <3>4. QED BY <2>2, <2>4, <3>2, <3>3, Lengths, MaxIs, Constants
  <2>9. chunk \in Positions /\ held' \in Seq(Positions) /\ Len(held') <= 2
      BY <1>2, <1>4, <2>3 DEF Positions, S
  <2>10. QED BY <1>1, <1>4, <2>4, <2>7, <2>8, <2>9, TakeInv
<1>5. QED BY <1>3, <1>4 DEF Pull

LEMMA PullEndInv ==
    ASSUME StreamInv, PullEnd
    PROVE  StreamInv'
<1>1. /\ pc = "pull" /\ pc' = "last" /\ answer' = answer /\ held = <<>> /\ taken = Len(file)
      /\ UNCHANGED <<fixed, taken, held, downstream>>
    BY DEF PullEnd, Goto
<1>2. /\ StreamTypeOK' /\ TakenInOrder' /\ BoundedMemory' /\ StoredIsFile'
      /\ Expected' = Expected
    BY <1>1, BytesUntouched DEF StreamInv, StreamTypeOK, Steps
<1>3. WindowInv'
    BY <1>1 DEF StreamInv, WindowInv
<1>4. PartsInv'
    BY <1>1 DEF StreamInv, PartsInv, Running, fixed, downstream
<1>5. JudgedInv' /\ UploadInv' /\ FateOfContent'
    BY <1>1, <1>2
       DEF StreamInv, JudgedInv, UploadInv, FateOfContent, EndedIsClosed,
           PartsCared, Running, downstream
<1>6. QED BY <1>2, <1>3, <1>4, <1>5 DEF StreamInv

\* What is appended to the parts as a part.
LEMMA PartAppended ==
    ASSUME StreamInv, NEW part \in Positions
    PROVE  /\ Append(parts, part) \in Seq(Positions)
           /\ FlattenSeq(Append(parts, part)) = FlattenSeq(parts) \o part
           /\ Len(FlattenSeq(parts)) <= Len(FlattenSeq(Append(parts, part)))
           /\ Len(FlattenSeq(Append(parts, part))) \in Nat
           /\ Len(parts) \in Nat /\ Len(Append(parts, part)) = Len(parts) + 1
           /\ \A i \in 1 .. Len(parts) : Append(parts, part)[i] = parts[i]
           /\ Append(parts, part)[Len(parts) + 1] = part
<1> DEFINE S == 1 .. Len(file)
<1>1. parts \in Seq(Seq(S)) /\ part \in Seq(S)
    BY DEF StreamInv, StreamTypeOK, Positions
<1> HIDE DEF S
<1>2. FlattenSeq(Append(parts, part)) = FlattenSeq(parts) \o part
    BY <1>1, FlattenAppend
<1>3. FlattenSeq(parts) \in Seq(S)
    BY <1>1, FlattenType
<1>4. Len(FlattenSeq(parts) \o part) = Len(FlattenSeq(parts)) + Len(part)
    BY <1>1, <1>3, ConcatProperties
<1>5. Len(FlattenSeq(parts)) \in Nat /\ Len(part) \in Nat /\ Len(parts) \in Nat
    BY <1>1, <1>3, LenProperties
<1> DEFINE X == Seq(S)
<1>6. parts \in Seq(X) /\ part \in X
    BY <1>1
<1> HIDE DEF X
<1>7. /\ Append(parts, part) \in Seq(X) /\ Len(Append(parts, part)) = Len(parts) + 1
      /\ \A i \in 1 .. Len(parts) : Append(parts, part)[i] = parts[i]
      /\ Append(parts, part)[Len(parts) + 1] = part
    BY <1>6, AppendProperties
<1>8. Append(parts, part) \in Seq(Positions)
    BY <1>7 DEF X, S, Positions
<1>9. /\ Len(FlattenSeq(parts)) <= Len(FlattenSeq(Append(parts, part)))
      /\ Len(FlattenSeq(Append(parts, part))) \in Nat
    BY <1>2, <1>4, <1>5
<1>10. QED BY <1>2, <1>5, <1>7, <1>8, <1>9

LEMMA FailInv ==
    ASSUME StreamInv, Running, UNCHANGED <<fixed, taken, held, hashed, buffer, parts, multipart, object>>,
           NEW a \in {"storage", "read"}, Fail(a), multipart = "open", object = {}
    PROVE  StreamInv'
<1>1. pc' = "abort" /\ answer' \in {"storage", "read"}
    BY DEF Fail
<1>2. /\ StreamTypeOK' /\ TakenInOrder' /\ BoundedMemory' /\ StoredIsFile'
      /\ Expected' = Expected
    BY <1>1, BytesUntouched DEF Steps, Answers, downstream
<1>3. WindowInv' /\ PartsInv' /\ JudgedInv' /\ UploadInv' /\ FateOfContent'
    BY <1>1, <1>2
       DEF StreamInv, WindowInv, PartsInv, JudgedInv, UploadInv, FateOfContent, EndedIsClosed,
           PartsCared, Running
<1>4. QED BY <1>2, <1>3 DEF StreamInv

LEMMA ReadFailsInv ==
    ASSUME StreamInv, ReadFails
    PROVE  StreamInv'
<1>1. UNCHANGED <<fixed, taken, held, downstream>>
    BY DEF ReadFails
<1>2. CASE pc = "sniff" /\ Refuse("read")
  <2>1. pc' = "done" /\ answer' = "read" /\ multipart = "none"
      BY <1>2 DEF Refuse, StreamInv, WindowInv
  <2>2. /\ StreamTypeOK' /\ TakenInOrder' /\ BoundedMemory' /\ StoredIsFile'
        /\ Expected' = Expected
      BY <1>1, <2>1, BytesUntouched DEF Steps, Answers
  <2>3. WindowInv' /\ PartsInv' /\ JudgedInv' /\ UploadInv' /\ FateOfContent'
      BY <1>1, <2>1
         DEF StreamInv, WindowInv, PartsInv, JudgedInv, UploadInv, FateOfContent, EndedIsClosed,
             PartsCared, Running, downstream
  <2>4. QED BY <2>2, <2>3 DEF StreamInv
<1>3. CASE pc = "pull" /\ Fail("read")
  <2>1. Running /\ multipart = "open" /\ object = {}
      BY <1>3 DEF Running, StreamInv, UploadInv
  <2>2. QED BY <1>1, <1>3, <2>1, FailInv DEF downstream
<1>4. QED BY <1>2, <1>3 DEF ReadFails

LEMMA FlushInv ==
    ASSUME StreamInv, Flush
    PROVE  StreamInv'
<1>1. /\ pc = "flush" /\ Running /\ pc # "complete"
      /\ UNCHANGED <<fixed, taken, held, hashed, multipart, object>>
    BY DEF Flush, Running
<1>2. multipart = "open" /\ object = {}
    BY <1>1 DEF StreamInv, UploadInv
<1>3. CASE StorageFails /\ UNCHANGED <<buffer, parts>>
    BY <1>1, <1>2, <1>3, FailInv DEF StorageFails
<1> DEFINE S    == 1 .. Len(file)
           part == SubSeq(buffer, 1, PartSize)
           rest == SubSeq(buffer, PartSize + 1, Len(buffer))
<1>4. CASE /\ parts' = Append(parts, part)
           /\ buffer' = rest
           /\ Goto(Cut(buffer'))
  <2>1. buffer \in Seq(S) /\ Len(buffer) >= PartSize /\ Len(buffer) \in Nat
      BY <1>1, Lengths DEF StreamInv, StreamTypeOK, PartsInv, Positions
  <2>2. part \in Seq(S) /\ rest \in Seq(S) /\ Len(part) = PartSize
      BY <2>1, Constants
  <2>3. part \o rest = buffer
    <3> HIDE DEF S
    <3>1. /\ 1 \in 1 .. Len(buffer) + 1 /\ PartSize \in 1 - 1 .. Len(buffer)
          /\ Len(buffer) \in PartSize .. Len(buffer)
        BY <2>1, Constants
    <3>2. part \o rest = SubSeq(buffer, 1, Len(buffer))
        BY <2>1, <3>1, ConcatAdjacentSubSeq
    <3>3. QED BY <2>1, <3>2, SubSeqFull
  <2> HIDE DEF part, rest
  <2>4. /\ parts' \in Seq(Positions)
        /\ FlattenSeq(parts') = FlattenSeq(parts) \o part
        /\ Len(FlattenSeq(parts)) <= Len(FlattenSeq(parts'))
        /\ Len(FlattenSeq(parts')) \in Nat
        /\ Len(parts) \in Nat /\ Len(parts') = Len(parts) + 1
        /\ \A i \in 1 .. Len(parts) : parts'[i] = parts[i]
        /\ parts'[Len(parts) + 1] = part
      BY <1>4, <2>2, PartAppended DEF Positions
  <2>5. pc' \in {"flush", "pull"} /\ answer' = answer /\ answer = "none"
        /\ (pc' = "flush" <=> Len(buffer') >= PartSize)
      BY <1>1, <1>4 DEF Goto, Cut, StreamInv, JudgedInv
  <2>6. Expected' = Expected
      BY <1>1, ExpectedFixed
  <2>7. StreamTypeOK'
      BY <1>1, <1>4, <2>2, <2>4, <2>5
         DEF StreamInv, StreamTypeOK, Positions, fixed, Steps
  <2>8. TakenInOrder'
      BY <1>1 DEF StreamInv, TakenInOrder
  <2>9. WindowInv'
      BY <1>1, <2>5 DEF StreamInv, WindowInv
  <2>10. FlattenSeq(parts') \o buffer' = hashed'
    <3> HIDE DEF S
    <3>1. FlattenSeq(parts) \in Seq(S)
        BY Lengths DEF Positions, S
    <3>2. \A a, b, c \in Seq(S) : (a \o b) \o c = a \o (b \o c)
        BY Regroup
    <3>3. (FlattenSeq(parts) \o part) \o rest = FlattenSeq(parts) \o (part \o rest)
        BY <2>2, <3>1, <3>2, Zenon
    <3>4. FlattenSeq(parts) \o buffer = hashed
        BY <1>1 DEF StreamInv, PartsInv
    <3>5. QED BY <1>1, <1>4, <2>3, <2>4, <3>3, <3>4
  <2>11. PartsInv'
    <3>1. \A i \in 1 .. Len(parts) : Len(parts[i]) = PartSize
        BY <1>1 DEF StreamInv, PartsInv
    <3>2. \A i \in 1 .. Len(parts') : Len(parts'[i]) = PartSize
      <4> TAKE i \in 1 .. Len(parts')
      <4>1. CASE i = Len(parts) + 1
          BY <2>2, <2>4, <4>1
      <4>2. CASE i \in 1 .. Len(parts)
          BY <2>4, <3>1, <4>2
      <4>3. QED BY <2>4, <4>1, <4>2
    <3>3. Len(buffer') \in Nat
        BY <1>4, <2>2
    <3>4. QED BY <2>5, <2>10, <3>2, <3>3, Constants DEF PartsInv
  <2>12. JudgedInv' /\ UploadInv' /\ FateOfContent' /\ StoredIsFile'
      BY <1>1, <1>2, <2>5, <2>6
         DEF StreamInv, JudgedInv, UploadInv, FateOfContent, StoredIsFile, EndedIsClosed,
             PartsCared, Running
  <2>13. BoundedMemory'
    <3>1. taken - Len(FlattenSeq(parts)) < Max({PartSize, SniffBytes}) + ReadChunk
        BY DEF StreamInv, BoundedMemory
    <3>2. taken \in Nat /\ Len(FlattenSeq(parts)) \in Nat
        BY Lengths
    <3>3. taken - Len(FlattenSeq(parts')) < Max({PartSize, SniffBytes}) + ReadChunk
        BY <2>4, <3>1, <3>2, MaxIs, Constants
    <3>4. QED BY <1>1, <3>3 DEF BoundedMemory
  <2>14. QED BY <2>7, <2>8, <2>9, <2>11, <2>12, <2>13 DEF StreamInv
<1>5. QED BY <1>3, <1>4 DEF Flush

LEMMA SendLastInv ==
    ASSUME StreamInv, SendLast
    PROVE  StreamInv'
<1>1. /\ pc = "last" /\ Running /\ pc # "complete"
      /\ UNCHANGED <<fixed, taken, held, hashed, buffer, multipart, object>>
    BY DEF SendLast, Running
<1>2. multipart = "open" /\ object = {}
    BY <1>1 DEF StreamInv, UploadInv
<1>3. CASE StorageFails /\ UNCHANGED parts
    BY <1>1, <1>2, <1>3, FailInv DEF StorageFails
<1>4. CASE /\ parts' = IF NeedsLast THEN Append(parts, buffer) ELSE parts
           /\ Goto("complete")
  <2>1. pc' = "complete" /\ answer' = answer
      BY <1>4 DEF Goto
  <2>2. /\ FlattenSeq(parts) \o buffer = hashed
        /\ \A i \in 1 .. Len(parts) : Len(parts[i]) = PartSize
      BY <1>1 DEF StreamInv, PartsInv
  <2>3. /\ parts' \in Seq(Positions) /\ FlattenSeq(parts') = hashed
        /\ Len(FlattenSeq(parts)) <= Len(FlattenSeq(parts')) /\ Len(FlattenSeq(parts')) \in Nat
        /\ \A i \in 1 .. Len(parts') - 1 : Len(parts'[i]) = PartSize
    <3>1. CASE NeedsLast
      <4>1. parts' = Append(parts, buffer) /\ buffer \in Positions
          BY <1>4, <3>1 DEF StreamInv, StreamTypeOK
      <4>2. /\ parts' \in Seq(Positions) /\ FlattenSeq(parts') = FlattenSeq(parts) \o buffer
            /\ Len(FlattenSeq(parts)) <= Len(FlattenSeq(parts')) /\ Len(FlattenSeq(parts')) \in Nat
            /\ Len(parts) \in Nat /\ Len(parts') = Len(parts) + 1
            /\ \A i \in 1 .. Len(parts) : parts'[i] = parts[i]
          BY <4>1, PartAppended
      <4>3. \A i \in 1 .. Len(parts') - 1 : Len(parts'[i]) = PartSize
          BY <2>2, <4>2
      <4>4. QED BY <2>2, <4>2, <4>3
    <3>2. CASE ~ NeedsLast
      <4>1. parts' = parts /\ buffer = <<>>
          BY <1>4, <3>2 DEF NeedsLast
      <4>2. FlattenSeq(parts) \in Seq(1 .. Len(file)) /\ Len(FlattenSeq(parts)) \in Nat
          BY Lengths DEF Positions
      <4>3. FlattenSeq(parts) \o <<>> = FlattenSeq(parts)
          BY <4>2, ConcatEmptySeq
      <4>4. Len(parts) \in Nat /\ parts \in Seq(Positions)
          BY LenProperties DEF StreamInv, StreamTypeOK
      <4>5. QED BY <2>2, <4>1, <4>2, <4>3, <4>4
    <3>3. QED BY <3>1, <3>2
  <2>4. Expected' = Expected
      BY <1>1, ExpectedFixed
  <2>5. StreamTypeOK'
      BY <1>1, <2>1, <2>3 DEF StreamInv, StreamTypeOK, Positions, fixed, Steps
  <2>6. TakenInOrder'
      BY <1>1 DEF StreamInv, TakenInOrder
  <2>7. WindowInv'
      BY <1>1, <2>1 DEF StreamInv, WindowInv
  <2>8. PartsInv'
      BY <1>1, <2>1, <2>3 DEF StreamInv, PartsInv, fixed
  <2>9. JudgedInv' /\ UploadInv' /\ FateOfContent' /\ StoredIsFile'
      BY <1>1, <1>2, <2>1, <2>4
         DEF StreamInv, JudgedInv, UploadInv, FateOfContent, StoredIsFile, EndedIsClosed,
             PartsCared, Running
  <2>10. BoundedMemory'
    <3>1. taken - Len(FlattenSeq(parts)) < Max({PartSize, SniffBytes}) + ReadChunk
        BY DEF StreamInv, BoundedMemory
    <3>2. taken \in Nat /\ Len(FlattenSeq(parts)) \in Nat
        BY Lengths
    <3>3. taken - Len(FlattenSeq(parts')) < Max({PartSize, SniffBytes}) + ReadChunk
        BY <2>3, <3>1, <3>2, MaxIs, Constants
    <3>4. QED BY <1>1, <3>3 DEF BoundedMemory
  <2>11. QED BY <2>5, <2>6, <2>7, <2>8, <2>9, <2>10 DEF StreamInv
<1>5. QED BY <1>3, <1>4 DEF SendLast

\* What a completion stores.
LEMMA CompletionIsFile ==
    ASSUME StreamInv, pc = "complete", Stored,
           UNCHANGED <<fixed, taken, held, hashed, buffer, parts>>
    PROVE  /\ StoredIsFile' /\ Expected = "stored" /\ multipart' = "completed"
           /\ object' = {hashed} /\ hashed \in Positions
<1>1. /\ FlattenSeq(parts) = hashed /\ held = <<>> /\ taken = Len(file)
      /\ \A i \in 1 .. Len(parts) - 1 : Len(parts[i]) = PartSize
      /\ Expected \in {"stored", "too_large"} /\ Len(hashed) <= MaxFileSize
    BY DEF StreamInv, PartsInv, JudgedInv
<1>2. hashed \in Seq(1 .. Len(file)) /\ hashed \in Positions
    BY DEF StreamInv, StreamTypeOK, Positions
<1>3. hashed = FirstBytes(Len(file))
  <2>1. hashed \o FlattenSeq(held) = FirstBytes(taken)
      BY DEF StreamInv, TakenInOrder
  <2>2. FlattenSeq(held) = <<>>
      BY <1>1, FlattenEmpty
  <2>3. hashed \o <<>> = hashed
      BY <1>2, ConcatEmptySeq
  <2>4. QED BY <1>1, <2>1, <2>2, <2>3
<1>4. Len(hashed) = Len(file) /\ Len(file) \in Nat
    BY <1>3, Lengths, FirstBytesSeq
<1>5. Expected = "stored"
    BY <1>1, <1>4, Constants, ExpectedBySize
<1>6. object' = {hashed} /\ multipart' = "completed"
    BY <1>1 DEF Stored
<1>7. Expected' = Expected
    BY ExpectedFixed
<1>8. hashed' = [i \in 1 .. Len(file') |-> i]
    BY <1>3 DEF FirstBytes, fixed
<1>9. StoredIsFile'
    BY <1>1, <1>5, <1>6, <1>7, <1>8 DEF StoredIsFile
<1>10. QED BY <1>2, <1>5, <1>6, <1>9

LEMMA CompleteInv ==
    ASSUME StreamInv, Complete
    PROVE  StreamInv'
<1>1. /\ pc = "complete" /\ Running
      /\ UNCHANGED <<fixed, taken, held, hashed, buffer, parts>>
    BY DEF Complete, Running
<1>2. multipart = "open" /\ object = {}
    BY <1>1 DEF StreamInv, UploadInv
<1>3. CASE StorageFails /\ UNCHANGED <<multipart, object>>
    BY <1>1, <1>2, <1>3, FailInv DEF StorageFails
<1>4. CASE Stored /\ (Refuse("stored") \/ StorageFails)
  <2>1. /\ StoredIsFile' /\ Expected = "stored" /\ multipart' = "completed"
        /\ object' = {hashed} /\ hashed \in Positions
      BY <1>1, <1>4, CompletionIsFile
  <2>2. Expected' = Expected
      BY <1>1, ExpectedFixed
  <2>3. \/ pc' = "done" /\ answer' = "stored"
        \/ pc' = "abort" /\ answer' = "storage"
      BY <1>4 DEF Refuse, StorageFails, Fail
  <2>4. StreamTypeOK'
      BY <1>1, <2>1, <2>3 DEF StreamInv, StreamTypeOK, Positions, fixed, Steps, Answers
  <2>5. TakenInOrder' /\ BoundedMemory'
      BY <1>1 DEF StreamInv, TakenInOrder, BoundedMemory
  <2>6. WindowInv' /\ PartsInv'
      BY <1>1, <2>3 DEF StreamInv, WindowInv, PartsInv, Running
  <2>7. JudgedInv' /\ UploadInv' /\ FateOfContent'
      BY <2>1, <2>2, <2>3 DEF JudgedInv, UploadInv, FateOfContent, EndedIsClosed,
                              PartsCared, Running
  <2>8. QED BY <2>1, <2>4, <2>5, <2>6, <2>7 DEF StreamInv
<1>5. QED BY <1>3, <1>4 DEF Complete

LEMMA AbortInv ==
    ASSUME StreamInv, Abort
    PROVE  StreamInv'
<1>1. /\ pc = "abort" /\ pc' = "done" /\ answer' = answer
      /\ multipart' \in {"aborted", "lingering", "completed"}
      /\ UNCHANGED <<fixed, taken, held, hashed, buffer, parts, object>>
    BY DEF Abort, Goto
<1>2. Expected' = Expected
    BY <1>1, ExpectedFixed
<1>3. StreamTypeOK'
    BY <1>1 DEF StreamInv, StreamTypeOK, Positions, fixed, Steps
<1>4. TakenInOrder' /\ BoundedMemory' /\ StoredIsFile'
    BY <1>1, <1>2 DEF StreamInv, TakenInOrder, BoundedMemory, StoredIsFile, fixed
<1>5. WindowInv' /\ PartsInv'
    BY <1>1 DEF StreamInv, WindowInv, PartsInv, Running
<1>6. JudgedInv' /\ UploadInv' /\ FateOfContent'
    BY <1>1, <1>2 DEF StreamInv, JudgedInv, UploadInv, FateOfContent, EndedIsClosed,
                      PartsCared, Running
<1>7. QED BY <1>3, <1>4, <1>5, <1>6 DEF StreamInv

LEMMA CancelInv ==
    ASSUME StreamInv, Cancel
    PROVE  StreamInv'
<1>1. /\ pc' = "done" /\ answer' = "cancelled" /\ pc # "done"
      /\ UNCHANGED <<fixed, taken, held, hashed, buffer, parts>>
    BY DEF Cancel, Refuse
<1>2. Expected' = Expected
    BY <1>1, ExpectedFixed
<1>3. TakenInOrder' /\ BoundedMemory'
    BY <1>1 DEF StreamInv, TakenInOrder, BoundedMemory
<1>4. WindowInv' /\ PartsInv' /\ JudgedInv' /\ UploadInv' /\ FateOfContent'
  <2>1. multipart' = "unknown" => parts' = <<>>
    <3>1. multipart # "unknown"
        BY <1>1 DEF StreamInv, WindowInv, UploadInv, Steps, StreamTypeOK
    <3>2. pc = "open" => parts = <<>>
        BY DEF StreamInv, WindowInv, Untouched
    <3>3. QED BY <1>1, <3>1, <3>2 DEF Cancel, Stored
  <2>2. UploadInv'
      BY <1>1, <2>1 DEF UploadInv, EndedIsClosed, PartsCared
  <2>3. QED BY <1>1, <2>2
            DEF StreamInv, WindowInv, PartsInv, JudgedInv, FateOfContent, Running
<1>5. StreamTypeOK' /\ StoredIsFile'
  <2>1. CASE UNCHANGED <<multipart, object>>
      BY <1>1, <1>2, <2>1
         DEF StreamInv, StreamTypeOK, StoredIsFile, Positions, fixed, Steps, Answers
  <2>2. CASE pc = "complete" /\ Stored
    <3>1. StoredIsFile' /\ multipart' = "completed" /\ object' = {hashed} /\ hashed \in Positions
        BY <1>1, <2>2, CompletionIsFile
    <3>2. QED BY <1>1, <3>1
              DEF StreamInv, StreamTypeOK, Positions, fixed, Steps, Answers
  <2>3. CASE pc = "open" /\ multipart' = "unknown" /\ UNCHANGED object
      BY <1>1, <1>2, <2>3
         DEF StreamInv, StreamTypeOK, StoredIsFile, Positions, fixed, Steps, Answers
  <2>4. QED BY <2>1, <2>2, <2>3 DEF Cancel
<1>6. QED BY <1>3, <1>4, <1>5 DEF StreamInv

-----------------------------------------------------------------------------
(* The theorems. *)

LEMMA StreamInit == Init => StreamInv
<1> SUFFICES ASSUME Init PROVE StreamInv
    OBVIOUS
<1>1. file \in Seq(Symbols) /\ Len(file) \in Nat
    BY StreamAssumption DEF Init
<1>2. /\ <<>> \in Positions /\ <<>> \in Seq(Positions) /\ Len(<<>>) = 0
      /\ FlattenSeq(<<>>) = <<>> /\ <<>> \o <<>> = <<>>
    BY FlattenEmpty, EmptySeq, ConcatEmptySeq DEF Positions
<1>3. FirstBytes(0) = <<>>
    BY DEF FirstBytes
<1>4. StreamTypeOK
    BY <1>1, <1>2 DEF Init, StreamTypeOK, Steps, Answers
<1>5. TakenInOrder /\ WindowInv
    BY <1>2, <1>3 DEF Init, TakenInOrder, WindowInv, Untouched
<1>6. PartsInv
    BY <1>2 DEF Init, PartsInv, Running
<1>7. JudgedInv /\ UploadInv /\ FateOfContent /\ StoredIsFile
    BY DEF Init, JudgedInv, UploadInv, FateOfContent, StoredIsFile, EndedIsClosed,
           PartsCared, Running
<1>8. BoundedMemory
    BY <1>2, MaxIs, Constants DEF Init, BoundedMemory
<1>9. QED BY <1>4, <1>5, <1>6, <1>7, <1>8 DEF StreamInv

LEMMA StreamStep == StreamInv /\ [Next]_vars => StreamInv'
<1> SUFFICES ASSUME StreamInv, [Next]_vars PROVE StreamInv'
    OBVIOUS
<1>1. CASE Gate     BY <1>1, GateInv
<1>2. CASE Sniff    BY <1>2, SniffInv
<1>3. CASE SniffEnd BY <1>3, SniffEndInv
<1>4. CASE Open     BY <1>4, OpenInv
<1>5. CASE Pull     BY <1>5, PullInv
<1>6. CASE PullEnd  BY <1>6, PullEndInv
<1>7. CASE Flush    BY <1>7, FlushInv
<1>8. CASE SendLast BY <1>8, SendLastInv
<1>9. CASE Complete BY <1>9, CompleteInv
<1>10. CASE Abort   BY <1>10, AbortInv
<1>11. CASE Cancel  BY <1>11, CancelInv
<1>12. CASE UNCHANGED vars
  <2>1. Expected' = Expected
      BY <1>12, ExpectedFixed DEF vars
  <2>2. StreamTypeOK' /\ TakenInOrder' /\ WindowInv' /\ PartsInv'
      BY <1>12 DEF StreamInv, StreamTypeOK, Positions, TakenInOrder, WindowInv, Untouched,
                   PartsInv, Running, vars, fixed
  <2>3. JudgedInv' /\ UploadInv' /\ FateOfContent' /\ StoredIsFile' /\ BoundedMemory'
      BY <1>12, <2>1 DEF StreamInv, JudgedInv, UploadInv, FateOfContent, StoredIsFile,
                         BoundedMemory, EndedIsClosed, PartsCared, Running, vars, fixed
  <2>4. QED BY <2>2, <2>3 DEF StreamInv
<1>13. CASE ReadFails BY <1>13, ReadFailsInv
<1>14. QED BY <1>1, <1>2, <1>3, <1>4, <1>5, <1>6, <1>7, <1>8, <1>9, <1>10, <1>11, <1>12, <1>13
           DEF Next, Proceed

\* The inductive invariant holds of every stream: any files, chunks, sizes and faults.
THEOREM StreamInvariance == Spec => []StreamInv
<1>1. QED BY StreamInit, StreamStep, PTL DEF Spec

\* The variables of the stream keep their types.
THEOREM StreamTypeCorrect == Spec => []StreamTypeOK
<1>1. StreamInv => StreamTypeOK
    BY DEF StreamInv
<1>2. QED BY <1>1, StreamInvariance, PTL

\* Whatever the chunks the network cuts a file into, validate_upload_stream and the size
\* limit answer what the file read whole deserves.
THEOREM FateIsOfContent == Spec => []FateOfContent
<1>1. StreamInv => FateOfContent
    BY DEF StreamInv
<1>2. QED BY <1>1, StreamInvariance, PTL

\* What upload_stream stores is the file, every byte once and in order, in whole parts.
THEOREM ObjectIsFile == Spec => []StoredIsFile
<1>1. StreamInv => StoredIsFile
    BY DEF StreamInv
<1>2. QED BY <1>1, StreamInvariance, PTL

\* The bytes in memory are bounded by the sizes of a part, the window and a chunk.
THEOREM MemoryIsBounded == Spec => []BoundedMemory
<1>1. StreamInv => BoundedMemory
    BY DEF StreamInv
<1>2. QED BY <1>1, StreamInvariance, PTL

\* The safety half of StreamEnds, whatever call or read failed: a request that has ended
\* leaves parts that nobody tried to remove only when it was cancelled.
THEOREM UploadsAreClosed == Spec => []EndedIsClosed
<1>1. StreamInv => EndedIsClosed
    BY DEF StreamInv, UploadInv
<1>2. QED BY <1>1, StreamInvariance, PTL
================================================================================

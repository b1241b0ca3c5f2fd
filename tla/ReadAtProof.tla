---------------------------- MODULE ReadAtProof ----------------------------
(* What an export reads through the pipes and what it makes of a ref that moves, for any *)
(* trees, files and capacity of the pipes.                                               *)
EXTENDS ReadAt, SequenceTheorems, FiniteSetTheorems, TLAPS

Blob == {NoFile} \cup UNION {{t.files[name] : name \in File} : t \in Tree}
Part == {Header(blob) : blob \in Blob} \cup {Body(blob) : blob \in Blob}

\* The parts in s answer for the files lo .. hi of names: the answer for the i-th begins at
\* place at[i], and its blob b[i] is what one of the trees has under that name.
AnswersAt(s, lo, hi, names, trees, b, at) ==
    /\ at[lo] = 1 /\ at[hi + 1] = Len(s) + 1
    /\ \A i, j \in lo .. (hi + 1) : i < j => at[i] < at[j]
    /\ \A i \in lo .. hi :
        /\ \E t \in trees : b[i] = t.files[names[i]]
        /\ at[i] <= Len(s) /\ s[at[i]] = Header(b[i])
        /\ b[i] = NoFile => at[i + 1] = at[i] + 1
        /\ b[i] # NoFile => /\ at[i] < Len(s) /\ s[at[i] + 1] = Body(b[i])
                            /\ at[i + 1] = at[i] + 2

Answers(s, lo, hi, names, trees) ==
    \E b \in [lo .. hi -> Blob] : \E at \in [lo .. (hi + 1) -> Nat \ {0}] :
        AnswersAt(s, lo, hi, names, trees, b, at)

AnswerFor(blob) == IF blob = NoFile THEN <<Header(blob)>> ELSE <<Header(blob), Body(blob)>>

-----------------------------------------------------------------------------
(* Streams of answers. *)

LEMMA NoAnswers ==
    ASSUME NEW names, NEW trees
    PROVE  Answers(<<>>, 1, 0, names, trees)
  <1> DEFINE b == [i \in 1 .. 0 |-> NoFile]
             at == [i \in 1 .. 1 |-> 1]
  <1>1. b \in [1 .. 0 -> Blob] /\ at \in [1 .. (0 + 1) -> Nat \ {0}]
    OBVIOUS
  <1>2. AnswersAt(<<>>, 1, 0, names, trees, b, at)
    BY DEF AnswersAt
  <1> QED  BY <1>1, <1>2 DEF Answers

LEMMA MoreTrees ==
    ASSUME NEW s, NEW lo, NEW hi, NEW names, NEW trees, NEW more, trees \subseteq more,
           Answers(s, lo, hi, names, trees)
    PROVE  Answers(s, lo, hi, names, more)
  BY DEF Answers, AnswersAt

LEMMA AnswerForIsParts ==
    ASSUME NEW blob \in Blob
    PROVE  AnswerFor(blob) \in Seq(Part)
  BY DEF AnswerFor, Part

\* The answer for the next name, behind the others.
LEMMA OneMoreAnswer ==
    ASSUME NEW s \in Seq(Part), NEW hi \in Nat, NEW names, NEW trees,
           Answers(s, 1, hi, names, trees),
           NEW t \in trees, t.files[names[hi + 1]] \in Blob
    PROVE  Answers(s \o AnswerFor(t.files[names[hi + 1]]), 1, hi + 1, names, trees)
  <1> DEFINE blob == t.files[names[hi + 1]]
             more == AnswerFor(blob)
             ss == s \o more
  <1>1. PICK b \in [1 .. hi -> Blob], at \in [1 .. (hi + 1) -> Nat \ {0}] :
            AnswersAt(s, 1, hi, names, trees, b, at)
    BY DEF Answers
  <1> DEFINE bb == [i \in 1 .. (hi + 1) |-> IF i = hi + 1 THEN blob ELSE b[i]]
             aa == [i \in 1 .. (hi + 1 + 1) |->
                        IF i = hi + 2 THEN Len(ss) + 1 ELSE at[i]]
  <1>2. /\ more \in Seq(Part) /\ Len(more) = IF blob = NoFile THEN 1 ELSE 2
        /\ more[1] = Header(blob) /\ (blob # NoFile => more[2] = Body(blob))
    BY AnswerForIsParts DEF AnswerFor
  <1> HIDE DEF more
  <1>3. /\ ss \in Seq(Part) /\ Len(ss) = Len(s) + Len(more)
        /\ \A i \in 1 .. Len(s) : ss[i] = s[i]
        /\ \A i \in 1 .. Len(more) : ss[Len(s) + i] = more[i]
    <2>1. more \in Seq(Part) /\ Len(more) \in Nat
      BY <1>2
    <2> QED  BY <2>1
  <1> HIDE DEF ss
  <1>4. Len(s) \in Nat /\ Len(more) \in Nat /\ Len(ss) \in Nat
    BY <1>2, <1>3
  <1>5. bb \in [1 .. (hi + 1) -> Blob] /\ aa \in [1 .. (hi + 1 + 1) -> Nat \ {0}]
    BY <1>4
  <1>6. AnswersAt(ss, 1, hi + 1, names, trees, bb, aa)
    <2>1. aa[1] = 1 /\ aa[hi + 1 + 1] = Len(ss) + 1 /\ aa[hi + 1] = Len(s) + 1
      BY <1>1 DEF AnswersAt
    <2>2. ASSUME NEW i \in 1 .. hi
          PROVE  /\ \E u \in trees : bb[i] = u.files[names[i]]
                 /\ aa[i] <= Len(ss) /\ ss[aa[i]] = Header(bb[i])
                 /\ bb[i] = NoFile => aa[i + 1] = aa[i] + 1
                 /\ bb[i] # NoFile => /\ aa[i] < Len(ss) /\ ss[aa[i] + 1] = Body(bb[i])
                                      /\ aa[i + 1] = aa[i] + 2
      <3>1. bb[i] = b[i] /\ aa[i] = at[i] /\ aa[i + 1] = at[i + 1]
        OBVIOUS
      <3>2. /\ \E u \in trees : b[i] = u.files[names[i]]
            /\ at[i] <= Len(s) /\ s[at[i]] = Header(b[i])
            /\ b[i] = NoFile => at[i + 1] = at[i] + 1
            /\ b[i] # NoFile => /\ at[i] < Len(s) /\ s[at[i] + 1] = Body(b[i])
                                /\ at[i + 1] = at[i] + 2
        BY <1>1 DEF AnswersAt
      <3>3. at[i] \in Nat \ {0} /\ at[i + 1] \in Nat \ {0}
        OBVIOUS
      <3>4. at[i] \in 1 .. Len(s) /\ (b[i] # NoFile => at[i] + 1 \in 1 .. Len(s))
        BY <1>4, <3>2, <3>3
      <3>5. ss[at[i]] = s[at[i]] /\ (b[i] # NoFile => ss[at[i] + 1] = s[at[i] + 1])
        BY <1>3, <3>4
      <3> HIDE DEF bb, aa, blob
      <3> QED  BY <1>3, <1>4, <3>1, <3>2, <3>3, <3>5
    <2>3. /\ \E u \in trees : bb[hi + 1] = u.files[names[hi + 1]]
          /\ aa[hi + 1] <= Len(ss) /\ ss[aa[hi + 1]] = Header(bb[hi + 1])
          /\ bb[hi + 1] = NoFile => aa[hi + 1 + 1] = aa[hi + 1] + 1
          /\ bb[hi + 1] # NoFile => /\ aa[hi + 1] < Len(ss)
                                    /\ ss[aa[hi + 1] + 1] = Body(bb[hi + 1])
                                    /\ aa[hi + 1 + 1] = aa[hi + 1] + 2
      <3>1. bb[hi + 1] = blob
        OBVIOUS
      <3> HIDE DEF bb, aa
      <3> QED  BY <1>2, <1>3, <1>4, <2>1, <3>1
    <2>4. \A i \in 1 .. (hi + 1) : i \in 1 .. hi \/ i = hi + 1
      OBVIOUS
    <2>5. ASSUME NEW i \in 1 .. (hi + 1 + 1), NEW j \in 1 .. (hi + 1 + 1), i < j
          PROVE  aa[i] < aa[j]
      <3>1. \A k, l \in 1 .. (hi + 1) : k < l => at[k] < at[l]
        BY <1>1 DEF AnswersAt
      <3>2. at[hi + 1] = Len(s) + 1 /\ i \in 1 .. (hi + 1) /\ aa[i] = at[i]
        BY <1>1, <2>5 DEF AnswersAt
      <3>3. Len(s) + 1 < Len(ss) + 1
        BY <1>2, <1>3, <1>4
      <3>4. CASE j = hi + 2
        <4>1. aa[j] = Len(ss) + 1
          BY <3>4
        <4>2. at[i] <= at[hi + 1]
          BY <3>1, <3>2
        <4> HIDE DEF aa
        <4> QED  BY <1>4, <3>2, <3>3, <4>1, <4>2
      <3>5. CASE j # hi + 2
        BY <2>5, <3>1, <3>2, <3>5
      <3> QED  BY <3>4, <3>5
    <2> HIDE DEF bb, aa
    <2> QED  BY <2>1, <2>2, <2>3, <2>4, <2>5 DEF AnswersAt
  <1> HIDE DEF bb, aa
  <1> QED  BY <1>5, <1>6 DEF Answers, ss, more

LEMMA LongIsNotEmpty ==
    ASSUME NEW s, Len(s) # 0
    PROVE  s # <<>>
  OBVIOUS

\* An answer keeps its parts when the parts before it are dropped.
LEMMA AnswerShifts ==
    ASSUME NEW s \in Seq(Part), NEW n \in {1, 2}, NEW rest \in Seq(Part),
           Len(rest) = Len(s) - n, \A i \in 1 .. Len(rest) : rest[i] = s[i + n],
           NEW p \in Nat, NEW q \in Nat, p > n, NEW blob,
           p <= Len(s) /\ s[p] = Header(blob),
           blob = NoFile => q = p + 1,
           blob # NoFile => p < Len(s) /\ s[p + 1] = Body(blob) /\ q = p + 2
    PROVE  /\ p - n <= Len(rest) /\ rest[p - n] = Header(blob)
           /\ blob = NoFile => q - n = p - n + 1
           /\ blob # NoFile => /\ p - n < Len(rest) /\ rest[p - n + 1] = Body(blob)
                               /\ q - n = p - n + 2
  <1>1. p - n \in 1 .. Len(rest) /\ (blob # NoFile => p - n + 1 \in 1 .. Len(rest))
    OBVIOUS
  <1>2. rest[p - n] = s[p] /\ (blob # NoFile => rest[p - n + 1] = s[p + 1])
    <2>1. p - n + n = p /\ p - n + 1 + n = p + 1
      OBVIOUS
    <2> QED  BY <1>1, <2>1
  <1> QED  BY <1>1, <1>2

\* The first answer is whole, and the others follow it.
LEMMA FirstAnswer ==
    ASSUME NEW s \in Seq(Part), NEW lo \in Nat, NEW hi \in Nat, lo <= hi, NEW names, NEW trees,
           Answers(s, lo, hi, names, trees)
    PROVE  \E blob \in Blob :
            /\ \E t \in trees : blob = t.files[names[lo]]
            /\ Len(s) > 0 /\ s[1] = Header(blob)
            /\ blob = NoFile => Answers(Tail(s), lo + 1, hi, names, trees)
            /\ blob # NoFile => /\ Len(s) > 1 /\ s[2] = Body(blob)
                                /\ Answers(Tail(Tail(s)), lo + 1, hi, names, trees)
  <1>1. PICK b \in [lo .. hi -> Blob], at \in [lo .. (hi + 1) -> Nat \ {0}] :
            AnswersAt(s, lo, hi, names, trees, b, at)
    BY DEF Answers
  <1> DEFINE bb == [i \in (lo + 1) .. hi |-> b[i]]
  <1>2. /\ b[lo] \in Blob /\ \E t \in trees : b[lo] = t.files[names[lo]]
        /\ Len(s) > 0 /\ s[1] = Header(b[lo]) /\ at[lo] = 1
        /\ b[lo] # NoFile => Len(s) > 1 /\ s[2] = Body(b[lo])
    BY <1>1 DEF AnswersAt
  <1>3. ASSUME NEW n \in {1, 2}, at[lo + 1] = 1 + n, NEW rest \in Seq(Part),
               Len(rest) = Len(s) - n, \A i \in 1 .. Len(rest) : rest[i] = s[i + n]
        PROVE  Answers(rest, lo + 1, hi, names, trees)
    <2> DEFINE aa == [i \in (lo + 1) .. (hi + 1) |-> at[i] - n]
    <2>1. Len(s) \in Nat /\ Len(rest) \in Nat /\ Len(s) = Len(rest) + n
      BY <1>3
    <2>2. \A i, j \in lo .. (hi + 1) : i < j => at[i] < at[j]
      BY <1>1 DEF AnswersAt
    <2>3. \A i \in (lo + 1) .. (hi + 1) : at[i] \in Nat /\ at[i] > n /\ aa[i] = at[i] - n
      <3> TAKE i \in (lo + 1) .. (hi + 1)
      <3>1. aa[i] = at[i] - n
        OBVIOUS
      <3> HIDE DEF aa
      <3>2. at[i] \in Nat /\ at[lo + 1] \in Nat
        OBVIOUS
      <3>3. at[lo + 1] <= at[i]
        <4>1. CASE i = lo + 1
          BY <3>2, <4>1
        <4>2. CASE i > lo + 1
          <5>1. at[lo + 1] < at[i]
            BY <2>2, <4>2
          <5> QED  BY <3>2, <5>1
        <4> QED  BY <4>1, <4>2
      <3>4. ASSUME NEW p \in Nat, p = at[i], NEW q \in Nat, q = at[lo + 1]
            PROVE  p > n
        BY <1>3, <3>3, <3>4
      <3> QED  BY <3>1, <3>2, <3>4
    <2>4. bb \in [(lo + 1) .. hi -> Blob] /\ aa \in [(lo + 1) .. (hi + 1) -> Nat \ {0}]
      BY <2>3
    <2>5. aa[lo + 1] = 1 /\ aa[hi + 1] = Len(rest) + 1
      BY <1>1, <1>3, <2>1 DEF AnswersAt
    <2>6. \A i, j \in (lo + 1) .. (hi + 1) : i < j => aa[i] < aa[j]
      BY <2>2, <2>3
    <2>7. ASSUME NEW i \in (lo + 1) .. hi
          PROVE  /\ \E u \in trees : bb[i] = u.files[names[i]]
                 /\ aa[i] <= Len(rest) /\ rest[aa[i]] = Header(bb[i])
                 /\ bb[i] = NoFile => aa[i + 1] = aa[i] + 1
                 /\ bb[i] # NoFile => /\ aa[i] < Len(rest) /\ rest[aa[i] + 1] = Body(bb[i])
                                      /\ aa[i + 1] = aa[i] + 2
      <3>1. /\ \E u \in trees : b[i] = u.files[names[i]]
            /\ at[i] <= Len(s) /\ s[at[i]] = Header(b[i])
            /\ b[i] = NoFile => at[i + 1] = at[i] + 1
            /\ b[i] # NoFile => /\ at[i] < Len(s) /\ s[at[i] + 1] = Body(b[i])
                                /\ at[i + 1] = at[i] + 2
        <4> i \in lo .. hi
          OBVIOUS
        <4> QED  BY <1>1 DEF AnswersAt
      <3>2. bb[i] = b[i] /\ i + 1 \in (lo + 1) .. (hi + 1) /\ i \in (lo + 1) .. (hi + 1)
        OBVIOUS
      <3>3. /\ aa[i] = at[i] - n /\ aa[i + 1] = at[i + 1] - n
            /\ at[i] \in Nat /\ at[i + 1] \in Nat /\ at[i] > n
        BY <2>3, <3>2
      <3> HIDE DEF bb, aa
      <3>4. /\ at[i] - n <= Len(rest) /\ rest[at[i] - n] = Header(b[i])
            /\ b[i] = NoFile => at[i + 1] - n = at[i] - n + 1
            /\ b[i] # NoFile => /\ at[i] - n < Len(rest) /\ rest[at[i] - n + 1] = Body(b[i])
                                /\ at[i + 1] - n = at[i] - n + 2
        <4>1. ASSUME NEW p \in Nat, NEW q \in Nat, NEW blob,
                     p = at[i], q = at[i + 1], blob = b[i]
              PROVE  /\ p - n <= Len(rest) /\ rest[p - n] = Header(blob)
                     /\ blob = NoFile => q - n = p - n + 1
                     /\ blob # NoFile => /\ p - n < Len(rest) /\ rest[p - n + 1] = Body(blob)
                                         /\ q - n = p - n + 2
          <5>1. /\ p > n /\ p <= Len(s) /\ s[p] = Header(blob)
                /\ blob = NoFile => q = p + 1
                /\ blob # NoFile => p < Len(s) /\ s[p + 1] = Body(blob) /\ q = p + 2
            BY <3>1, <3>3, <4>1
          <5>2. Len(rest) = Len(s) - n /\ \A j \in 1 .. Len(rest) : rest[j] = s[j + n]
            BY <1>3
          <5> QED  BY <5>1, <5>2, AnswerShifts
        <4> QED  BY <3>3, <4>1
      <3> QED  BY <3>1, <3>2, <3>3, <3>4
    <2> HIDE DEF bb, aa
    <2>8. AnswersAt(rest, lo + 1, hi, names, trees, bb, aa)
      BY <2>5, <2>6, <2>7 DEF AnswersAt
    <2> QED  BY <2>4, <2>8 DEF Answers
  <1>4. CASE b[lo] = NoFile
    <2>1. at[lo + 1] = 1 + 1
      BY <1>1, <1>2, <1>4 DEF AnswersAt
    <2>2. Tail(s) \in Seq(Part) /\ Len(Tail(s)) = Len(s) - 1
          /\ \A i \in 1 .. Len(Tail(s)) : Tail(s)[i] = s[i + 1]
      BY <1>2
    <2> QED  BY <1>2, <1>3, <1>4, <2>1, <2>2
  <1>5. CASE b[lo] # NoFile
    <2>1. at[lo + 1] = 1 + 2
      BY <1>1, <1>2, <1>5 DEF AnswersAt
    <2> DEFINE rest == Tail(Tail(s))
    <2>2. rest \in Seq(Part) /\ Len(rest) = Len(s) - 2
          /\ \A i \in 1 .. Len(rest) : rest[i] = s[i + 2]
      <3>1. s # <<>> /\ Len(s) \in Nat /\ Len(s) > 1
        BY <1>2, <1>5
      <3>2. Tail(s) \in Seq(Part) /\ Len(Tail(s)) = Len(s) - 1
            /\ \A i \in 1 .. Len(Tail(s)) : Tail(s)[i] = s[i + 1]
        BY <3>1, HeadTailProperties
      <3>3. Tail(s) # <<>>
        <4>1. Len(Tail(s)) # 0
          BY <3>1, <3>2
        <4> QED  BY <4>1, LongIsNotEmpty, Zenon
      <3>4. /\ rest \in Seq(Part) /\ Len(rest) = Len(Tail(s)) - 1
            /\ \A i \in 1 .. Len(rest) : rest[i] = Tail(s)[i + 1]
        BY <3>2, <3>3, HeadTailProperties
      <3> HIDE DEF rest
      <3>5. Len(rest) = Len(s) - 2
        BY <3>1, <3>2, <3>4
      <3>6. ASSUME NEW i \in 1 .. Len(rest)
            PROVE  rest[i] = s[i + 2]
        <4>1. i + 1 \in 1 .. Len(Tail(s)) /\ (i + 1) + 1 = i + 2
          BY <3>1, <3>2, <3>5
        <4>2. rest[i] = Tail(s)[i + 1]
          BY <3>4
        <4>3. Tail(s)[i + 1] = s[(i + 1) + 1]
          BY <3>2, <4>1
        <4> QED  BY <4>1, <4>2, <4>3
      <3> QED  BY <3>4, <3>5, <3>6
    <2> HIDE DEF rest
    <2>3. Answers(rest, lo + 1, hi, names, trees)
      BY <1>3, <2>1, <2>2
    <2> QED  BY <1>2, <1>5, <2>3 DEF rest
  <1> QED  BY <1>4, <1>5

-----------------------------------------------------------------------------
(* The inductive invariant. *)

\* What the pipes carry, beside the types TypeOK states.
Typed ==
    /\ TypeOK
    /\ paths \in Seq(File) /\ blobs \in Seq(Blob) /\ stdin \in Seq(File)
    /\ stdout \in Seq(Part) /\ answer \in Seq(Part) /\ received \in Seq(Part)

\* The schema is one the ref has had since the command started, which is when it was read;
\* only what was to be listed can have failed to list.
Started ==
    /\ step # "idle" => ref \in seen
    /\ step \notin {"idle", "failed"} => \E t \in seen : schema = t.schema
    /\ step = "list" => batch \notin unlisted
    /\ step \in {"list", "read", "parse", "collect"} /\ batch = Legend => Feature \notin unlisted

\* A file that was listed was there once; one that was always there was listed, unless
\* nothing was.
Listed ==
    step \in {"read", "parse", "collect"} =>
        /\ \A i \in DOMAIN paths : paths[i] \in batch /\ \E t \in seen : t.files[paths[i]] # NoFile
        /\ batch \in unlisted => paths = <<>>
        /\ batch \notin unlisted => \A name \in batch :
            (\A t \in seen : t.files[name] # NoFile) => \E i \in DOMAIN paths : paths[i] = name

\* The same of the legends, by the time the features are listed.
LegendsRead ==
    step \in {"list", "read", "parse", "collect"} /\ batch = Feature =>
        /\ \A l \in legends : \E t \in seen : t.files[l] # NoFile
        /\ Legend \in unlisted => legends = {}
        /\ Legend \notin unlisted =>
            \A l \in Legend : (\A t \in seen : t.files[l] # NoFile) => l \in legends

\* How many of the requests git has read.
Taken == sent - Len(stdin)

\* While git lives, what waits in the pipe to it are the last of the files asked for, and
\* what is on its way back answers the others, in their order.
Exchange ==
    step = "read" /\ git # "died" =>
        /\ Len(stdin) <= sent
        /\ \A i \in 1 .. Len(stdin) : stdin[i] = paths[Taken + i]
        /\ Answers(received \o stdout \o answer, 1, Taken, paths, seen)

\* The thread breaks only when git has died; git exits only when it has answered for all.
Ending ==
    /\ git = "running" => step = "read"
    /\ step = "read" =>
        /\ git # "none" /\ blobs = <<>>
        /\ writer = "done" => sent = Len(paths)
        /\ writer = "broken" => git = "died"
        /\ git = "exited" => writer # "writing" /\ stdin = <<>> /\ answer = <<>>

\* What is left to parse answers for the files that have no blob yet.
Parsing ==
    /\ step = "parse" => Answers(received, Len(blobs) + 1, Len(paths), paths, seen)
    /\ step = "collect" => Len(blobs) = Len(paths)
    /\ step \in {"parse", "collect"} =>
        \A i \in DOMAIN blobs : \E t \in seen : blobs[i] = t.files[paths[i]]

ReadInvariant ==
    /\ Typed /\ Started /\ Listed /\ LegendsRead /\ Exchange /\ Ending /\ Parsing
    /\ FailureHasACause /\ ExportIsTheTree /\ ExportedWasThere

-----------------------------------------------------------------------------
(* The steps of the thread and of git. *)

\* Taking the first of one queue to the end of another leaves what both hold.
LEMMA HandedOn ==
    ASSUME NEW S, NEW to \in Seq(S), NEW from \in Seq(S), from # <<>>
    PROVE  /\ Append(to, Head(from)) \in Seq(S) /\ Tail(from) \in Seq(S)
           /\ Append(to, Head(from)) \o Tail(from) = to \o from
  <1>1. /\ Head(from) \in S /\ Tail(from) \in Seq(S) /\ Len(Tail(from)) = Len(from) - 1
        /\ \A i \in 1 .. Len(Tail(from)) : Tail(from)[i] = from[i + 1]
        /\ Head(from) = from[1] /\ Len(from) \in Nat \ {0}
    BY HeadTailProperties, EmptySeq
  <1> DEFINE more == Append(to, Head(from))  rest == Tail(from)
  <1>2. /\ more \in Seq(S) /\ Len(more) = Len(to) + 1 /\ Len(to) \in Nat
        /\ \A i \in 1 .. Len(to) : more[i] = to[i]
        /\ more[Len(to) + 1] = from[1]
    BY <1>1
  <1>3. rest \in Seq(S) /\ Len(rest) = Len(from) - 1 /\ \A i \in 1 .. Len(rest) : rest[i] = from[i + 1]
    BY <1>1
  <1> HIDE DEF more, rest
  <1>4. /\ more \o rest \in Seq(S) /\ Len(more \o rest) = Len(to) + Len(from)
        /\ to \o from \in Seq(S) /\ Len(to \o from) = Len(to) + Len(from)
    <2>1. more \o rest \in Seq(S) /\ Len(more \o rest) = Len(more) + Len(rest)
      <3>1. more \in Seq(S) /\ rest \in Seq(S)
        BY <1>2, <1>3
      <3> QED  BY <3>1, ConcatProperties
    <2>2. to \o from \in Seq(S) /\ Len(to \o from) = Len(to) + Len(from)
      OBVIOUS
    <2> QED  BY <1>1, <1>2, <1>3, <2>1, <2>2
  <1>5. ASSUME NEW i \in 1 .. Len(to) + Len(from)
        PROVE  (more \o rest)[i] = (to \o from)[i]
    <2>1. (more \o rest)[i] = IF i <= Len(to) + 1 THEN more[i] ELSE rest[i - (Len(to) + 1)]
      BY <1>1, <1>2, <1>3
    <2>2. (to \o from)[i] = IF i <= Len(to) THEN to[i] ELSE from[i - Len(to)]
      OBVIOUS
    <2>3. ASSUME NEW j \in 1 .. Len(rest), j = i - (Len(to) + 1)
          PROVE  rest[j] = from[i - Len(to)]
      <3>1. j + 1 = i - Len(to)
        BY <1>2, <2>3
      <3>2. rest[j] = from[j + 1]
        BY <1>3
      <3> QED  BY <3>1, <3>2
    <2>4. i > Len(to) + 1 => i - (Len(to) + 1) \in 1 .. Len(rest)
      BY <1>1, <1>2, <1>3
    <2>5. i > Len(to) + 1 => rest[i - (Len(to) + 1)] = from[i - Len(to)]
      BY <2>3, <2>4
    <2> QED  BY <1>1, <1>2, <2>1, <2>2, <2>5
  <1>6. more \o rest = to \o from
    BY <1>4, <1>5, SeqEqual
  <1> QED  BY <1>2, <1>3, <1>6 DEF more, rest

\* A step within the reading of a batch leaves what is not about the pipes.
LEMMA ReadStepFrame ==
    ASSUME ReadInvariant, step = "read",
           UNCHANGED <<ref, seen, unlisted, step, batch, schema, legends, paths, blobs, exported>>,
           Typed', Exchange', Ending'
    PROVE  ReadInvariant'
  BY DEF ReadInvariant, Started, Listed, LegendsRead, Parsing, FailureHasACause, ExportIsTheTree,
         ExportedWasThere

LEMMA WriterPutPreserves ==
    ASSUME ReadInvariant, WriterPut
    PROVE  ReadInvariant'
  <1> USE DEF ReadInvariant
  <1>1. /\ step = "read" /\ sent \in Nat /\ sent < Len(paths) /\ sent' = sent + 1
        /\ stdin \in Seq(File) /\ paths \in Seq(File)
        /\ UNCHANGED <<ref, seen, unlisted, step, batch, schema, legends, paths, blobs, exported>>
        /\ UNCHANGED <<writer, stdout, git, answer, received>>
        /\ stdin' = Append(stdin, paths[sent + 1])
    BY DEF WriterPut, CanPut, Typed, TypeOK
  <1>2. /\ stdin' \in Seq(File) /\ Len(stdin') = Len(stdin) + 1
        /\ \A i \in 1 .. Len(stdin) : stdin'[i] = stdin[i]
        /\ stdin'[Len(stdin) + 1] = paths[sent + 1]
    BY <1>1
  <1>3. Typed'
    <2>1. Len(stdin') <= Capacity /\ sent' \in 0 .. Len(paths)
      BY <1>1, <1>2, CapacityAssumption DEF WriterPut, CanPut
    <2> QED  BY <1>1, <1>2, <2>1 DEF Typed, TypeOK
  <1>4. Exchange'
    <2> SUFFICES ASSUME git # "died"
                 PROVE  /\ Len(stdin') <= sent'
                        /\ \A i \in 1 .. Len(stdin') : stdin'[i] = paths[sent' - Len(stdin') + i]
                        /\ Answers(received \o stdout \o answer, 1, sent' - Len(stdin'), paths, seen)
      BY <1>1 DEF Exchange, Taken
    <2>1. Len(stdin) <= sent /\ Len(stdin) \in Nat /\ sent' - Len(stdin') = Taken
      BY <1>1, <1>2 DEF Exchange, Taken
    <2>2. \A i \in 1 .. Len(stdin) : stdin[i] = paths[Taken + i]
      BY <1>1 DEF Exchange
    <2>3. ASSUME NEW i \in 1 .. Len(stdin')
          PROVE  stdin'[i] = paths[Taken + i]
      <3>1. CASE i = Len(stdin) + 1
        BY <1>1, <1>2, <2>1, <3>1 DEF Taken
      <3>2. CASE i # Len(stdin) + 1
        BY <1>2, <2>1, <2>2, <3>2
      <3> QED  BY <3>1, <3>2
    <2> QED  BY <1>1, <1>2, <2>1, <2>3 DEF Exchange
  <1>5. Ending'
    BY <1>1 DEF Ending, WriterPut, CanPut
  <1> QED  BY <1>1, <1>3, <1>4, <1>5, ReadStepFrame

LEMMA WriterEndsPreserves ==
    ASSUME ReadInvariant, WriterEnds
    PROVE  ReadInvariant'
  <1>1. /\ step = "read"
        /\ UNCHANGED <<ref, seen, unlisted, step, batch, schema, legends, paths, blobs, exported>>
        /\ UNCHANGED <<sent, stdin, stdout, git, answer, received>>
    BY DEF WriterEnds, CanEnd
  <1>2. Typed' /\ Exchange'
    BY <1>1 DEF ReadInvariant, Typed, TypeOK, Exchange, Taken, WriterEnds, CanEnd
  <1>3. Ending'
    BY <1>1 DEF ReadInvariant, Ending, Typed, TypeOK, WriterEnds, CanEnd
  <1> QED  BY <1>1, <1>2, <1>3, ReadStepFrame

LEMMA BlobsOfTrees ==
    ASSUME NEW t \in Tree, NEW name \in File
    PROVE  t.files[name] \in Blob
  BY DEF Blob

LEMMA GitReadsPreserves ==
    ASSUME ReadInvariant, GitReads
    PROVE  ReadInvariant'
  <1> DEFINE blob == ref.files[Head(stdin)]
  <1>1. /\ git = "running" /\ step = "read" /\ answer = <<>> /\ stdin # <<>>
        /\ stdin \in Seq(File) /\ stdin' = Tail(stdin)
        /\ answer' = AnswerFor(blob)
        /\ UNCHANGED <<ref, seen, unlisted, step, batch, schema, legends, paths, blobs, exported>>
        /\ UNCHANGED <<sent, writer, stdout, git, received>>
    BY DEF ReadInvariant, Ending, Typed, GitReads, CanRead, AnswerFor
  <1>2. /\ Head(stdin) \in File /\ Head(stdin) = stdin[1] /\ Tail(stdin) \in Seq(File)
        /\ Len(stdin) \in Nat \ {0} /\ Len(Tail(stdin)) = Len(stdin) - 1
        /\ \A i \in 1 .. Len(stdin) - 1 : Tail(stdin)[i] = stdin[i + 1]
    BY <1>1, HeadTailProperties, EmptySeq
  <1>3. /\ ref \in Tree /\ seen \in SUBSET Tree /\ ref \in seen /\ sent \in Nat /\ paths \in Seq(File)
        /\ received \in Seq(Part) /\ stdout \in Seq(Part)
    BY <1>1 DEF ReadInvariant, Typed, TypeOK, Started
  <1>4. blob \in Blob /\ answer' \in Seq(Part)
    BY <1>1, <1>2, <1>3, BlobsOfTrees, AnswerForIsParts
  <1> HIDE DEF blob
  <1>5. Typed'
    <2>1. Len(stdin') <= Capacity /\ stdin' \in Seq(File)
      BY <1>1, <1>2, CapacityAssumption DEF ReadInvariant, Typed, TypeOK
    <2> QED  BY <1>1, <1>4, <2>1 DEF ReadInvariant, Typed, TypeOK
  <1>6. Ending'
    BY <1>1 DEF ReadInvariant, Ending
  <1>7. /\ Len(stdin) <= sent /\ \A i \in 1 .. Len(stdin) : stdin[i] = paths[Taken + i]
        /\ Answers(received \o stdout, 1, Taken, paths, seen)
    <2>1. received \o stdout \o answer = received \o stdout
      BY <1>1, <1>3
    <2> QED  BY <1>1, <2>1 DEF ReadInvariant, Exchange
  <1>8. Taken' = Taken + 1 /\ Taken \in Nat
    BY <1>1, <1>2, <1>3, <1>7 DEF Taken
  <1>9. blob = ref.files[paths[Taken + 1]]
    BY <1>2, <1>7 DEF blob
  <1>10. Answers(received \o stdout \o AnswerFor(blob), 1, Taken + 1, paths, seen)
    <2>1. received \o stdout \in Seq(Part)
      BY <1>3
    <2> QED  BY <1>3, <1>4, <1>7, <1>8, <1>9, <2>1, OneMoreAnswer
  <1>11. \A i \in 1 .. Len(stdin') : stdin'[i] = paths[Taken' + i]
    <2>1. ASSUME NEW i \in 1 .. Len(stdin) - 1
          PROVE  Tail(stdin)[i] = paths[Taken + 1 + i]
      <3>1. i + 1 \in 1 .. Len(stdin) /\ Taken + (i + 1) = Taken + 1 + i
        BY <1>2, <1>8
      <3>2. stdin[i + 1] = paths[Taken + (i + 1)]
        BY <1>7, <3>1
      <3> QED  BY <1>2, <3>1, <3>2
    <2> QED  BY <1>1, <1>2, <1>8, <2>1
  <1>12. Exchange'
    BY <1>1, <1>2, <1>3, <1>7, <1>8, <1>10, <1>11 DEF Exchange
  <1> QED  BY <1>1, <1>5, <1>6, <1>12, ReadStepFrame

\* A step that passes a part on and is not about requests.
LEMMA PassedOn ==
    ASSUME Exchange, UNCHANGED <<step, git, seen, paths, sent, stdin>>,
           (received \o stdout \o answer)' = received \o stdout \o answer
    PROVE  Exchange'
  BY DEF Exchange, Taken

LEMMA GitWritesPreserves ==
    ASSUME ReadInvariant, GitWrites
    PROVE  ReadInvariant'
  <1>1. /\ git = "running" /\ step = "read" /\ answer # <<>> /\ Len(stdout) < Capacity
        /\ stdout \in Seq(Part) /\ answer \in Seq(Part) /\ received \in Seq(Part)
        /\ stdout' = Append(stdout, Head(answer)) /\ answer' = Tail(answer)
        /\ UNCHANGED <<ref, seen, unlisted, step, batch, schema, legends, paths, blobs, exported>>
        /\ UNCHANGED <<sent, writer, stdin, git, received>>
    BY DEF ReadInvariant, Ending, Typed, GitWrites, CanWrite
  <1>2. stdout' \in Seq(Part) /\ answer' \in Seq(Part) /\ stdout' \o answer' = stdout \o answer
    BY <1>1, HandedOn
  <1>3. Typed'
    <2>1. Len(stdout') <= Capacity
      <3>1. Head(answer) \in Part
        BY <1>1, HeadTailProperties
      <3> QED  BY <1>1, <3>1, CapacityAssumption
    <2> QED  BY <1>1, <1>2, <2>1 DEF ReadInvariant, Typed, TypeOK
  <1>4. Exchange'
    <2>1. received' \o stdout' \o answer' = received \o stdout \o answer
      <3>1. received \o stdout' \o answer' = received \o (stdout' \o answer')
        <4>1. ASSUME NEW x \in Seq(Part), NEW y \in Seq(Part)
              PROVE  received \o x \o y = received \o (x \o y)
          <5> received \in Seq(Part)
            BY <1>1
          <5> QED  BY ConcatAssociative
        <4> QED  BY <1>2, <4>1
      <3>2. received \o stdout \o answer = received \o (stdout \o answer)
        BY <1>1, ConcatAssociative
      <3> QED  BY <1>1, <1>2, <3>1, <3>2
    <2> QED  BY <1>1, <2>1, PassedOn DEF ReadInvariant
  <1>5. Ending'
    BY <1>1 DEF ReadInvariant, Ending
  <1> QED  BY <1>1, <1>3, <1>4, <1>5, ReadStepFrame

LEMMA GitExitsPreserves ==
    ASSUME ReadInvariant, GitExits
    PROVE  ReadInvariant'
  <1>1. /\ step = "read" /\ git' = "exited" /\ git = "running"
        /\ writer # "writing" /\ answer = <<>> /\ stdin = <<>>
        /\ UNCHANGED <<ref, seen, unlisted, step, batch, schema, legends, paths, blobs, exported>>
        /\ UNCHANGED <<sent, writer, stdin, stdout, answer, received>>
    BY DEF ReadInvariant, Ending, GitExits, CanExit
  <1>2. Typed' /\ Exchange' /\ Ending'
    BY <1>1 DEF ReadInvariant, Typed, TypeOK, Exchange, Taken, Ending
  <1> QED  BY <1>1, <1>2, ReadStepFrame

LEMMA GitDiesPreserves ==
    ASSUME ReadInvariant, GitDies
    PROVE  ReadInvariant'
  <1>1. /\ step = "read" /\ git' = "died" /\ answer' = <<>>
        /\ UNCHANGED <<ref, seen, unlisted, step, batch, schema, legends, paths, blobs, exported>>
        /\ UNCHANGED <<sent, writer, stdin, stdout, received>>
    BY DEF ReadInvariant, Ending, GitDies
  <1>2. Typed' /\ Exchange' /\ Ending'
    BY <1>1 DEF ReadInvariant, Typed, TypeOK, Exchange, Taken, Ending
  <1> QED  BY <1>1, <1>2, ReadStepFrame

LEMMA DrainPreserves ==
    ASSUME ReadInvariant, Drain
    PROVE  ReadInvariant'
  <1>1. /\ step = "read" /\ stdout # <<>>
        /\ stdout \in Seq(Part) /\ answer \in Seq(Part) /\ received \in Seq(Part)
        /\ received' = Append(received, Head(stdout)) /\ stdout' = Tail(stdout)
        /\ UNCHANGED <<ref, seen, unlisted, step, batch, schema, legends, paths, blobs, exported>>
        /\ UNCHANGED <<sent, writer, stdin, git, answer>>
    BY DEF ReadInvariant, Typed, Drain, CanDrain
  <1>2. /\ received' \in Seq(Part) /\ stdout' \in Seq(Part)
        /\ received' \o stdout' = received \o stdout
    BY <1>1, HandedOn
  <1>3. Typed'
    <2>1. Len(stdout') <= Capacity
      <3>1. Len(Tail(stdout)) = Len(stdout) - 1
        BY <1>1, HeadTailProperties
      <3> QED  BY <1>1, <3>1, CapacityAssumption DEF ReadInvariant, Typed, TypeOK
    <2> QED  BY <1>1, <1>2, <2>1 DEF ReadInvariant, Typed, TypeOK
  <1>4. Exchange' /\ Ending'
    BY <1>1, <1>2, PassedOn DEF ReadInvariant, Ending
  <1> QED  BY <1>1, <1>3, <1>4, ReadStepFrame

-----------------------------------------------------------------------------
(* The steps of the command. *)

LEMMA StartPreserves ==
    ASSUME ReadInvariant, Start
    PROVE  ReadInvariant'
  <1>1. /\ seen' = {ref} /\ ref' = ref /\ ref \in Tree /\ unlisted' = {}
        /\ step' = "list" => schema' = ref.schema
        /\ step' \in {"failed", "list"} /\ (step' = "failed" => schema' = NoFile)
        /\ batch' = Legend /\ legends' = {} /\ exported' = << >>
        /\ paths' = <<>> /\ received' = <<>> /\ blobs' = <<>>
        /\ sent' = 0 /\ writer' = "done" /\ stdin' = <<>> /\ stdout' = <<>>
        /\ git' = "none" /\ answer' = <<>>
    BY DEF ReadInvariant, Typed, TypeOK, Start
  <1>2. Typed'
    BY <1>1, CapacityAssumption DEF Typed, TypeOK, IsInjective
  <1>3. Legend # Feature
    BY NameAssumption
  <1> QED  BY <1>1, <1>2, <1>3 DEF ReadInvariant, Started, Listed, LegendsRead, Exchange, Ending, Parsing,
        FailureHasACause, ExportIsTheTree, ExportedWasThere

\* A finite set is listed once each.
LEMMA ListedOnce ==
    ASSUME NEW S, IsFiniteSet(S)
    PROVE  /\ SetToSeq(S) \in Seq(S) /\ IsInjective(SetToSeq(S))
           /\ \A x \in S : \E i \in DOMAIN SetToSeq(S) : SetToSeq(S)[i] = x
  <1> DEFINE n == Cardinality(S)
  <1>1. n \in Nat /\ ExistsBijection(1 .. n, S)
    BY FS_CardinalityType
  <1>2. \E f \in [1 .. n -> S] : IsInjective(f)
    BY <1>1 DEF ExistsBijection, Bijection, Injection
  <1>3. SetToSeq(S) \in [1 .. n -> S] /\ IsInjective(SetToSeq(S))
    BY <1>2 DEF SetToSeq
  <1>4. SetToSeq(S) \in Seq(S) /\ DOMAIN SetToSeq(S) = 1 .. n
    BY <1>1, <1>3
  <1>5. SetToSeq(S) \in Surjection(1 .. n, S)
    <2>1. IsFiniteSet(1 .. n) /\ Cardinality(1 .. n) = n
      BY <1>1, FS_Interval
    <2>2. SetToSeq(S) \in Injection(1 .. n, S)
      BY <1>3 DEF Injection
    <2> QED  BY <2>1, <2>2, FS_Injection
  <1> QED  BY <1>3, <1>4, <1>5 DEF Surjection

LEMMA ListAndSpawnPreserves ==
    ASSUME ReadInvariant, ListAndSpawn
    PROVE  ReadInvariant'
  <1> DEFINE there == {name \in batch : ref.files[name] # NoFile}
  <1>1. PICK names \in {there, {}} :
            /\ step = "list" /\ step' = "read"
            /\ paths' = SetToSeq(names)
            /\ sent' = 0 /\ writer' = "writing" /\ git' = "running"
            /\ stdin' = <<>> /\ stdout' = <<>> /\ answer' = <<>>
            /\ received' = <<>> /\ blobs' = <<>>
            /\ UNCHANGED <<ref, seen, batch, schema, legends, exported>>
            /\ \/ names = there /\ unlisted' = unlisted
               \/ names = {} /\ unlisted' = unlisted \cup {batch}
    BY DEF ListAndSpawn, Spawn
  <1>2. batch \in {Legend, Feature} /\ batch \subseteq File /\ ref \in seen
    BY <1>1 DEF ReadInvariant, Typed, TypeOK, File, Started
  <1>3. names \subseteq there /\ IsFiniteSet(names)
    <2>1. there \subseteq batch /\ names \subseteq there
      OBVIOUS
    <2> HIDE DEF there
    <2> QED  BY <1>2, <2>1, NameAssumption, FS_Subset
  <1>4. /\ paths' \in Seq(names) /\ IsInjective(paths')
        /\ \A name \in names : \E i \in DOMAIN paths' : paths'[i] = name
    BY <1>1, <1>3, ListedOnce
  <1>5. paths' \in Seq(File) /\ \A i \in DOMAIN paths' : paths'[i] \in there
    <2>1. \A i \in DOMAIN paths' : paths'[i] \in names
      BY <1>4
    <2>2. names \subseteq File
      BY <1>2, <1>3
    <2> QED  BY <1>3, <1>4, <2>1, <2>2
  <1>6. Typed'
    BY <1>1, <1>2, <1>4, <1>5, CapacityAssumption DEF ReadInvariant, Typed, TypeOK
  <1>7. Listed'
    <2>1. \A i \in DOMAIN paths' : paths'[i] \in batch /\ \E t \in seen : t.files[paths'[i]] # NoFile
      BY <1>2, <1>5
    <2>2. ASSUME batch \notin unlisted', NEW name \in batch, \A t \in seen : t.files[name] # NoFile
          PROVE  \E i \in DOMAIN paths' : paths'[i] = name
      BY <1>1, <1>2, <1>4, <2>2
    <2>3. batch \in unlisted' => paths' = <<>>
      <3>1. batch \in unlisted' => names = {}
        BY <1>1 DEF ReadInvariant, Started
      <3>2. names = {} => DOMAIN paths' = {}
        BY <1>4
      <3> QED  BY <1>5, <3>1, <3>2, EmptySeq
    <2> QED  BY <1>1, <2>1, <2>2, <2>3 DEF Listed
  <1>8. Exchange'
    <2>1. <<>> \o <<>> \o <<>> = <<>>
      OBVIOUS
    <2>2. Len(stdin') = 0
      BY <1>1
    <2>3. Taken' = 0
      <3>1. Taken' = sent' - Len(stdin')
        BY DEF Taken
      <3> QED  BY <1>1, <2>2, <3>1
    <2> QED  BY <1>1, <2>1, <2>2, <2>3, NoAnswers DEF Exchange
  <1>9. Started' /\ LegendsRead'
    BY <1>1, <1>2, NameAssumption DEF ReadInvariant, Started, LegendsRead
  <1>10. Ending' /\ Parsing'
    BY <1>1 DEF ReadInvariant, Ending, Parsing
  <1> QED  BY <1>1, <1>6, <1>7, <1>8, <1>9, <1>10
           DEF ReadInvariant, FailureHasACause, ExportIsTheTree, ExportedWasThere

LEMMA JoinPreserves ==
    ASSUME ReadInvariant, Join
    PROVE  ReadInvariant'
  <1>1. /\ step = "read" /\ stdout = <<>> /\ git \in {"exited", "died"} /\ writer # "writing"
        /\ step' = IF writer = "broken" \/ git = "died" THEN "failed" ELSE "parse"
        /\ UNCHANGED <<ref, seen, unlisted, batch, schema, legends, paths, received, blobs, exported>>
        /\ UNCHANGED <<sent, writer, stdin, stdout, git, answer>>
    BY DEF Join, CanJoin, child
  <1>2. Typed'
    BY <1>1 DEF ReadInvariant, Typed, TypeOK
  <1>3. Parsing'
    <2> SUFFICES ASSUME step' = "parse"
                 PROVE  Answers(received, 1, Len(paths), paths, seen) /\ blobs = <<>>
      BY <1>1 DEF Parsing
    <2>1. /\ git = "exited" /\ writer = "done" /\ sent = Len(paths) /\ stdin = <<>> /\ answer = <<>>
          /\ blobs = <<>> /\ received \in Seq(Part) /\ Len(paths) \in Nat
      BY <1>1 DEF ReadInvariant, Ending, Typed, TypeOK
    <2>2. Taken = Len(paths)
      BY <2>1 DEF Taken
    <2>3. received \o stdout \o answer = received
      BY <1>1, <2>1
    <2> QED  BY <1>1, <2>1, <2>2, <2>3 DEF ReadInvariant, Exchange
  <1>4. FailureHasACause'
    BY <1>1 DEF ReadInvariant, Ending, FailureHasACause
  <1> QED  BY <1>1, <1>2, <1>3, <1>4 DEF ReadInvariant, Started, Listed, LegendsRead, Exchange, Ending,
        ExportIsTheTree, ExportedWasThere

LEMMA HeaderFields ==
    ASSUME NEW blob
    PROVE  Header(blob).part = "header" /\ (Header(blob).missing <=> blob = NoFile)
  <1>1. Header(blob).part = "header" /\ Header(blob).missing = (blob = NoFile)
    BY DEF Header
  <1> HIDE DEF Header
  <1> QED  BY <1>1, Zenon

LEMMA ParseReplyPreserves ==
    ASSUME ReadInvariant, ParseReply
    PROVE  ReadInvariant'
  <1>1. /\ step = "parse" /\ Len(blobs) < Len(paths)
        /\ blobs \in Seq(Blob) /\ paths \in Seq(File) /\ received \in Seq(Part)
        /\ Answers(received, Len(blobs) + 1, Len(paths), paths, seen)
        /\ UNCHANGED <<ref, seen, unlisted, batch, schema, legends, paths, child, exported>>
    BY DEF ReadInvariant, Typed, Parsing, ParseReply
  <1>2. Len(blobs) \in Nat /\ Len(paths) \in Nat /\ Len(blobs) + 1 <= Len(paths)
    BY <1>1
  <1>3. PICK blob \in Blob :
            /\ \E t \in seen : blob = t.files[paths[Len(blobs) + 1]]
            /\ Len(received) > 0 /\ received[1] = Header(blob)
            /\ blob = NoFile => Answers(Tail(received), Len(blobs) + 1 + 1, Len(paths), paths, seen)
            /\ blob # NoFile =>
                /\ Len(received) > 1 /\ received[2] = Body(blob)
                /\ Answers(Tail(Tail(received)), Len(blobs) + 1 + 1, Len(paths), paths, seen)
    BY <1>1, <1>2, FirstAnswer
  <1>4. received[1].part = "header" /\ (received[1].missing <=> blob = NoFile)
    BY <1>3, HeaderFields
  <1>5. blob # NoFile => received[2].blob = blob
    BY <1>3 DEF Body
  <1>6. /\ step' = "parse" /\ blobs' = Append(blobs, blob)
        /\ received' = IF blob = NoFile THEN Tail(received) ELSE Tail(Tail(received))
    BY <1>1, <1>3, <1>4, <1>5 DEF ParseReply
  <1>7. /\ blobs' \in Seq(Blob) /\ Len(blobs') = Len(blobs) + 1 /\ DOMAIN blobs' = 1 .. Len(blobs) + 1
        /\ \A i \in 1 .. Len(blobs) : blobs'[i] = blobs[i]
        /\ blobs'[Len(blobs) + 1] = blob
    BY <1>1, <1>6
  <1>8. received' \in Seq(Part)
    <2>1. Tail(received) \in Seq(Part) /\ Len(Tail(received)) = Len(received) - 1
      BY <1>1, <1>3
    <2>2. CASE blob = NoFile
      BY <1>6, <2>1, <2>2
    <2>3. CASE blob # NoFile
      <3>1. Len(Tail(received)) # 0
        BY <1>1, <1>3, <2>1, <2>3
      <3>2. Tail(received) # <<>>
        BY <3>1, LongIsNotEmpty
      <3>3. Tail(Tail(received)) \in Seq(Part)
        BY <2>1, <3>2, HeadTailProperties
      <3> QED  BY <1>6, <2>3, <3>3
    <2> QED  BY <2>2, <2>3
  <1>9. Typed'
    <2>1. Len(blobs') <= Len(paths)
      BY <1>2, <1>7
    <2> QED  BY <1>1, <1>6, <1>7, <1>8, <2>1 DEF ReadInvariant, Typed, TypeOK, child
  <1>10. Parsing'
    <2>1. Answers(received', Len(blobs') + 1, Len(paths), paths, seen)
      BY <1>3, <1>6, <1>7
    <2>2. \A i \in 1 .. Len(blobs) + 1 : \E t \in seen : blobs'[i] = t.files[paths[i]]
      <3>1. \A i \in 1 .. Len(blobs) : \E t \in seen : blobs[i] = t.files[paths[i]]
        BY <1>1 DEF ReadInvariant, Parsing
      <3>2. \A i \in 1 .. Len(blobs) + 1 : i \in 1 .. Len(blobs) \/ i = Len(blobs) + 1
        BY <1>2
      <3> QED  BY <1>3, <1>7, <3>1, <3>2
    <2> QED  BY <1>1, <1>6, <1>7, <2>1, <2>2 DEF Parsing
  <1> QED  BY <1>1, <1>6, <1>9, <1>10 DEF ReadInvariant, Started, Listed, LegendsRead, Exchange, Ending,
        FailureHasACause, ExportIsTheTree, ExportedWasThere, child

LEMMA ParseEndsPreserves ==
    ASSUME ReadInvariant, ParseEnds
    PROVE  ReadInvariant'
  BY DEF ReadInvariant, ParseEnds, Typed, TypeOK, Started, Listed, LegendsRead, Exchange, Ending, Parsing,
        FailureHasACause, ExportIsTheTree, ExportedWasThere, child

\* What the batch says of the i-th file: the ref has had this blob under its name, and,
\* since the file was listed, some blob.
LEMMA BlobOfAFile ==
    ASSUME ReadInvariant, step = "collect", NEW i \in DOMAIN blobs
    PROVE  /\ i \in DOMAIN paths /\ paths[i] \in batch
           /\ \E t \in seen : t \in Tree /\ blobs[i] = t.files[paths[i]]
           /\ \E t \in seen : t.files[paths[i]] # NoFile
  <1>1. DOMAIN blobs = DOMAIN paths
    BY DEF ReadInvariant, Typed, Parsing
  <1>2. seen \in SUBSET Tree
    BY DEF ReadInvariant, Typed, TypeOK
  <1> QED  BY <1>1, <1>2 DEF ReadInvariant, Listed, Parsing

\* A listed file that is missing is one the ref moved away from.
LEMMA MissingMeansMoved ==
    ASSUME ReadInvariant, step = "collect", SomethingIsMissing
    PROVE  seen # {ref}
  BY BlobOfAFile DEF SomethingIsMissing

LEMMA CollectLegendsPreserves ==
    ASSUME ReadInvariant, CollectLegends
    PROVE  ReadInvariant'
  <1>1. /\ step = "collect" /\ batch = Legend
        /\ UNCHANGED <<ref, seen, unlisted, schema, paths, received, blobs, exported>>
        /\ UNCHANGED <<sent, writer, stdin, stdout, git, answer>>
    BY DEF CollectLegends, child
  <1>2. CASE SomethingIsMissing
    <2>1. step' = "failed" /\ batch' = batch /\ legends' = legends
      BY <1>2 DEF CollectLegends
    <2>2. seen # {ref}
      BY <1>1, <1>2, MissingMeansMoved
    <2> QED  BY <1>1, <2>1, <2>2
             DEF ReadInvariant, Typed, TypeOK, Started, Listed, LegendsRead, Exchange, Ending,
                 Parsing, FailureHasACause, ExportIsTheTree, ExportedWasThere
  <1>3. CASE ~ SomethingIsMissing
    <2>1. step' = "list" /\ batch' = Feature /\ legends' = Range(blobs)
      BY <1>3 DEF CollectLegends
    <2>2. ASSUME NEW i \in DOMAIN blobs
          PROVE  blobs[i] = paths[i] /\ paths[i] \in Legend
      <3>1. paths[i] \in Legend /\ blobs[i] # NoFile
        BY <1>1, <1>3, BlobOfAFile DEF SomethingIsMissing
      <3>2. PICK t \in Tree : blobs[i] = t.files[paths[i]]
        BY <1>1, BlobOfAFile
      <3> QED  BY <3>1, <3>2, TreeAssumption
    <2>3. legends' = {paths[i] : i \in DOMAIN blobs}
      BY <2>1, <2>2 DEF Range
    <2>4. Typed'
      BY <1>1, <2>1, <2>2, <2>3 DEF ReadInvariant, Typed, TypeOK
    <2>5. LegendsRead'
      <3>1. \A l \in legends' : \E t \in seen : t.files[l] # NoFile
        BY <1>1, <2>3, BlobOfAFile
      <3>2. ASSUME Legend \notin unlisted,
                   NEW l \in Legend, \A t \in seen : t.files[l] # NoFile
            PROVE  l \in legends'
        <4>1. \E i \in DOMAIN paths : paths[i] = l
          BY <1>1, <3>2 DEF ReadInvariant, Listed
        <4>2. DOMAIN blobs = DOMAIN paths
          BY <1>1 DEF ReadInvariant, Typed, Parsing
        <4> QED  BY <2>3, <4>1, <4>2
      <3>3. Legend \in unlisted => legends' = {}
        <4>1. DOMAIN blobs = DOMAIN paths
          BY <1>1 DEF ReadInvariant, Typed, Parsing
        <4>2. Legend \in unlisted => paths = <<>>
          BY <1>1 DEF ReadInvariant, Listed
        <4> QED  BY <2>3, <4>1, <4>2
      <3> QED  BY <1>1, <3>1, <3>2, <3>3 DEF LegendsRead
    <2> QED  BY <1>1, <2>1, <2>4, <2>5
             DEF ReadInvariant, Started, Listed, Exchange, Ending, Parsing,
                 FailureHasACause, ExportIsTheTree, ExportedWasThere
  <1> QED  BY <1>2, <1>3

LEMMA CollectFeaturesPreserves ==
    ASSUME ReadInvariant, CollectFeatures
    PROVE  ReadInvariant'
  <1>1. /\ step = "collect" /\ batch = Feature
        /\ UNCHANGED <<ref, seen, unlisted, batch, schema, legends, paths, received, blobs>>
        /\ UNCHANGED <<sent, writer, stdin, stdout, git, answer>>
    BY DEF CollectFeatures, child
  <1>2. CASE SomethingIsMissing
    <2>1. step' = "failed" /\ exported' = exported
      BY <1>2 DEF CollectFeatures
    <2>2. seen # {ref}
      BY <1>1, <1>2, MissingMeansMoved
    <2> QED  BY <1>1, <2>1, <2>2
             DEF ReadInvariant, Typed, TypeOK, Started, Listed, LegendsRead, Exchange, Ending,
                 Parsing, FailureHasACause, ExportIsTheTree, ExportedWasThere
  <1>3. CASE ~ SomethingIsMissing
    <2> DEFINE decoded == {pair \in Matched : pair[2].legend \in legends}
               fs == {pair[1] : pair \in decoded}
    <2>1. /\ step' = "done"
          /\ exported' = [f \in fs |-> (CHOOSE pair \in decoded : pair[1] = f)[2]]
      BY <1>3 DEF CollectFeatures
    <2>2. ASSUME NEW pair \in decoded
          PROVE  \E i \in DOMAIN blobs :
                     pair[1] = paths[i] /\ pair[2] = blobs[i] /\ blobs[i].legend \in legends
      BY DEF Matched
    <2>3. ASSUME NEW i \in DOMAIN blobs, blobs[i].legend \in legends
          PROVE  paths[i] \in fs
      <3>1. <<paths[i], blobs[i]>> \in Matched
        BY DEF Matched
      <3>2. <<paths[i], blobs[i]>> \in decoded /\ <<paths[i], blobs[i]>>[1] = paths[i]
        BY <2>3, <3>1
      <3> QED  BY <3>2
    <2>4. ASSUME NEW f \in fs
          PROVE  \E i \in DOMAIN blobs :
                     f = paths[i] /\ exported'[f] = blobs[i] /\ blobs[i].legend \in legends
      <3> DEFINE chosen == CHOOSE pair \in decoded : pair[1] = f
      <3>1. chosen \in decoded /\ chosen[1] = f
        <4>1. \E pair \in decoded : pair[1] = f
          OBVIOUS
        <4> QED  BY <4>1
      <3>2. exported'[f] = chosen[2]
        BY <2>1
      <3> HIDE DEF chosen, decoded, fs
      <3> QED  BY <2>2, <3>1, <3>2
    <2>5. DOMAIN exported' = fs
      BY <2>1
    <2> HIDE DEF decoded, fs
    <2>6. \A i \in DOMAIN blobs : blobs[i] # NoFile
      BY <1>3 DEF SomethingIsMissing
    <2>7. seen \in SUBSET Tree /\ ref \in seen
      BY <1>1 DEF ReadInvariant, Typed, TypeOK, Started
    <2>8. ASSUME Feature \notin unlisted, NEW f \in Feature, \A t \in seen : t.files[f] # NoFile
          PROVE  \E i \in DOMAIN blobs : /\ f = paths[i]
                                         /\ \E t \in seen : blobs[i] = t.files[f]
      <3>1. PICK i \in DOMAIN paths : paths[i] = f
        BY <1>1, <2>8 DEF ReadInvariant, Listed
      <3>2. i \in DOMAIN blobs
        BY <1>1 DEF ReadInvariant, Typed, Parsing
      <3> QED  BY <1>1, <3>1, <3>2, BlobOfAFile
    <2>9. ASSUME Legend \notin unlisted, NEW l \in Legend, \A t \in seen : t.files[l] # NoFile
          PROVE  l \in legends
      BY <1>1, <2>9 DEF ReadInvariant, LegendsRead
    <2>10. Typed'
      <3>1. DOMAIN exported' \subseteq Feature
        BY <1>1, <2>4, <2>5, BlobOfAFile
      <3> QED  BY <1>1, <2>1, <3>1 DEF ReadInvariant, Typed, TypeOK
    <2>11. ExportedWasThere'
      <3>1. ASSUME NEW f \in fs
            PROVE  \E t \in seen : exported'[f] = t.files[f]
        BY <1>1, <2>4, BlobOfAFile
      <3>2. ASSUME unlisted = {}, NEW f \in Feature,
                   \A t \in seen : f \in Readable(t)
                                   /\ \A u \in seen : u.files[t.files[f].legend] # NoFile
            PROVE  f \in fs
        <4>1. \A t \in seen : t.files[f] # NoFile
          BY <3>2 DEF Readable
        <4>2. PICK i \in DOMAIN blobs : f = paths[i] /\ \E t \in seen : blobs[i] = t.files[f]
          BY <2>8, <3>2, <4>1
        <4>3. PICK t \in seen : blobs[i] = t.files[f]
          BY <4>2
        <4>4. t.files[f].legend \in Legend
          BY <2>7, <4>1, TreeAssumption
        <4>5. t.files[f].legend \in legends
          BY <2>9, <3>2, <4>4
        <4> QED  BY <2>3, <4>2, <4>3, <4>5
      <3> QED  BY <1>1, <2>5, <3>1, <3>2 DEF ExportedWasThere, Readable
    <2>12. ExportIsTheTree'
      <3> DEFINE all == IF unlisted = {} THEN Readable(ref) ELSE {}
      <3> SUFFICES ASSUME seen = {ref}
                   PROVE  /\ schema = ref.schema
                          /\ exported' = [f \in all |-> ref.files[f]]
        BY <1>1 DEF ExportIsTheTree, Readable
      <3>1. schema = ref.schema
        BY <1>1 DEF ReadInvariant, Started
      <3>2. ASSUME NEW f \in fs
            PROVE  f \in Readable(ref) /\ exported'[f] = ref.files[f]
        <4>1. PICK i \in DOMAIN blobs :
                  f = paths[i] /\ exported'[f] = blobs[i] /\ blobs[i].legend \in legends
          BY <2>4
        <4>2. f \in Feature /\ blobs[i] = ref.files[f]
          BY <1>1, <4>1, BlobOfAFile
        <4>3. ref.files[blobs[i].legend] # NoFile
          BY <1>1, <4>1 DEF ReadInvariant, LegendsRead
        <4> QED  BY <2>6, <4>1, <4>2, <4>3 DEF Readable
      <3>3. ASSUME unlisted = {}, NEW f \in Readable(ref)
            PROVE  f \in fs
        <4>1. f \in Feature /\ ref.files[f] # NoFile /\ ref.files[ref.files[f].legend] # NoFile
          BY DEF Readable
        <4>2. PICK i \in DOMAIN blobs : f = paths[i] /\ blobs[i] = ref.files[f]
          BY <2>8, <3>3, <4>1
        <4>3. ref.files[f].legend \in Legend
          BY <2>7, <4>1, TreeAssumption
        <4>4. ref.files[f].legend \in legends
          BY <2>9, <3>3, <4>1, <4>3
        <4> QED  BY <2>3, <4>2, <4>4
      <3>4. fs = all
        <4>1. ASSUME unlisted # {}, NEW f \in fs
              PROVE  FALSE
          <5>1. PICK i \in DOMAIN blobs : blobs[i].legend \in legends
            BY <2>4, <4>1
          <5>2. legends # {} /\ DOMAIN paths # {}
            BY <1>1, <5>1, BlobOfAFile
          <5>3. Legend \notin unlisted /\ Feature \notin unlisted
            BY <1>1, <5>2 DEF ReadInvariant, LegendsRead, Listed
          <5> QED  BY <4>1, <5>3 DEF ReadInvariant, Typed, TypeOK
        <4> QED  BY <3>2, <3>3, <4>1
      <3>5. exported' = [f \in fs |-> exported'[f]]
        BY <2>1, <2>5 DEF fs
      <3> QED  BY <3>1, <3>2, <3>4, <3>5
    <2> QED  BY <1>1, <2>1, <2>10, <2>11, <2>12
             DEF ReadInvariant, Started, Listed, LegendsRead, Exchange, Ending, Parsing,
                 FailureHasACause
  <1> QED  BY <1>2, <1>3

LEMMA RefMovesPreserves ==
    ASSUME ReadInvariant, RefMoves
    PROVE  ReadInvariant'
  <1>1. PICK t \in Tree :
            /\ ref' = t /\ seen' = seen \cup {t}
            /\ UNCHANGED <<unlisted, step, batch, schema, legends, paths, received, blobs, exported>>
            /\ UNCHANGED <<sent, writer, stdin, stdout, git, answer>>
    BY DEF RefMoves, child
  <1>2. seen \subseteq seen' /\ ref' \in seen'
    BY <1>1
  <1>3. step # "idle" /\ seen' = {ref'} => seen = {ref} /\ ref' = ref
    BY <1>1 DEF ReadInvariant, Started
  <1>4. Typed'
    BY <1>1 DEF ReadInvariant, Typed, TypeOK
  <1>5. Started'
    BY <1>1, <1>2 DEF ReadInvariant, Started
  <1>6. Listed'
    BY <1>1, <1>2 DEF ReadInvariant, Listed
  <1>7. LegendsRead'
    BY <1>1, <1>2 DEF ReadInvariant, LegendsRead
  <1>8. Exchange'
    <2> SUFFICES ASSUME step = "read" /\ git # "died"
                 PROVE  /\ Len(stdin) <= sent
                        /\ \A i \in 1 .. Len(stdin) : stdin[i] = paths[Taken + i]
                        /\ Answers(received \o stdout \o answer, 1, Taken, paths, seen')
      BY <1>1 DEF Exchange, Taken
    <2>1. /\ Len(stdin) <= sent
          /\ \A i \in 1 .. Len(stdin) : stdin[i] = paths[Taken + i]
          /\ Answers(received \o stdout \o answer, 1, Taken, paths, seen)
      BY DEF ReadInvariant, Exchange
    <2> QED  BY <1>2, <2>1, MoreTrees
  <1>9. Ending'
    BY <1>1 DEF ReadInvariant, Ending
  <1>10. Parsing'
    <2>1. step = "parse" => Answers(received, Len(blobs) + 1, Len(paths), paths, seen')
      BY <1>2, MoreTrees DEF ReadInvariant, Parsing
    <2> QED  BY <1>1, <1>2, <2>1 DEF ReadInvariant, Parsing
  <1>11. FailureHasACause' /\ ExportIsTheTree'
    <2>1. FailureHasACause'
      BY <1>1, <1>3 DEF ReadInvariant, FailureHasACause
    <2>2. ASSUME step' = "done", seen' = {ref'}
          PROVE  /\ schema' = ref'.schema
                 /\ exported' = [f \in IF unlisted' = {} THEN Readable(ref') ELSE {}
                                        |-> ref'.files[f]]
      <3>1. ref' = ref /\ step = "done" /\ seen = {ref} /\ unlisted' = unlisted
            /\ schema' = schema /\ exported' = exported
        BY <1>1, <1>3, <2>2
      <3>2. /\ schema = ref.schema
            /\ exported = [f \in IF unlisted = {} THEN Readable(ref) ELSE {} |-> ref.files[f]]
        BY <3>1 DEF ReadInvariant, ExportIsTheTree
      <3> QED  BY <3>1, <3>2, Zenon
    <2> QED  BY <2>1, <2>2 DEF ExportIsTheTree, Readable
  <1>12. ExportedWasThere'
    BY <1>1, <1>2 DEF ReadInvariant, ExportedWasThere, Readable
  <1> QED  BY <1>4, <1>5, <1>6, <1>7, <1>8, <1>9, <1>10, <1>11, <1>12 DEF ReadInvariant

-----------------------------------------------------------------------------
(* The theorems. *)

\* At the start nothing is read, and whatever an export would show is empty.
LEMMA InitEstablishes ==
    ASSUME Init
    PROVE  ReadInvariant
  <1>1. Typed
    BY CapacityAssumption DEF Init, Typed, TypeOK, IsInjective
  <1> QED  BY <1>1 DEF Init, ReadInvariant, Started, Listed, LegendsRead, Exchange, Ending, Parsing,
                FailureHasACause, ExportIsTheTree, ExportedWasThere

LEMMA NextPreserves ==
    ASSUME ReadInvariant, [Next]_vars
    PROVE  ReadInvariant'
  <1>1. CASE Start
    BY <1>1, StartPreserves
  <1>2. CASE Writer
    BY <1>2, WriterPutPreserves, WriterEndsPreserves DEF Writer
  <1>3. CASE Git
    BY <1>3, GitReadsPreserves, GitWritesPreserves, GitExitsPreserves DEF Git
  <1>4. CASE GitDies
    BY <1>4, GitDiesPreserves
  <1>5. CASE Command
    BY <1>5, ListAndSpawnPreserves, DrainPreserves, JoinPreserves, ParseReplyPreserves,
       ParseEndsPreserves, CollectLegendsPreserves, CollectFeaturesPreserves DEF Command
  <1>6. CASE RefMoves
    BY <1>6, RefMovesPreserves
  <1>7. CASE UNCHANGED vars
    BY <1>7 DEF vars, child, ReadInvariant, Typed, TypeOK, Started, Listed, LegendsRead, Exchange,
                Taken, Ending, Parsing, FailureHasACause, ExportIsTheTree, ExportedWasThere
  <1> QED  BY <1>1, <1>2, <1>3, <1>4, <1>5, <1>6, <1>7 DEF Next

\* Through every interleaving of the thread, git, the command and commits to the branch,
\* the pipes carry the requests and their answers in the order of the files.
THEOREM PipesCarryTheAnswers == Spec => []ReadInvariant
  <1>1. Init => ReadInvariant
    BY InitEstablishes
  <1>2. ReadInvariant /\ [Next]_vars => ReadInvariant'
    BY NextPreserves
  <1> QED  BY <1>1, <1>2, PTL DEF Spec

\* The command's variables keep their types, and neither pipe holds more than it can.
THEOREM ReadTypes == Spec => []TypeOK
  <1>1. ReadInvariant => TypeOK
    BY DEF ReadInvariant, Typed
  <1> QED  BY <1>1, PipesCarryTheAnswers, PTL

\* While the ref stays where it is an export is exactly its commit: the schema, and every
\* feature whose legend is there with the blob of its own path, or, where git failed to list
\* a directory, none.
THEOREM AnExportIsItsTree == Spec => []ExportIsTheTree
  <1>1. ReadInvariant => ExportIsTheTree
    BY DEF ReadInvariant
  <1> QED  BY <1>1, PipesCarryTheAnswers, PTL

\* However the ref moves, a feature exported was in one of its commits under that path, and
\* one that was readable throughout is exported.
THEOREM AnExportMixesWhatWasThere == Spec => []ExportedWasThere
  <1>1. ReadInvariant => ExportedWasThere
    BY DEF ReadInvariant
  <1> QED  BY <1>1, PipesCarryTheAnswers, PTL

\* The command fails only when there is no dataset, the ref moved, or git died: never
\* because an answer is taken for another's.
THEOREM FailuresAreExplained == Spec => []FailureHasACause
  <1>1. ReadInvariant => FailureHasACause
    BY DEF ReadInvariant
  <1> QED  BY <1>1, PipesCarryTheAnswers, PTL

-----------------------------------------------------------------------------
(* Towards the end of an export: what of it is safety. *)

\* However many files and whatever the size of the pipes, the thread, git and the command are
\* never all waiting: a full pipe has a reader that can read, and an empty one at whose ends
\* nobody is left lets the others end.
THEOREM SomeoneCanGoOn == Spec => []NoMutualWait
  <1>1. ReadInvariant => NoMutualWait
    <2> SUFFICES ASSUME ReadInvariant, step = "read", ~ CanDrain
                 PROVE  CanPut \/ CanEnd \/ CanRead \/ CanWrite \/ CanExit \/ CanJoin
      BY DEF NoMutualWait
    <2>1. stdout = <<>> /\ Len(stdout) = 0 /\ Len(stdout) < Capacity
      BY CapacityAssumption DEF CanDrain
    <2>2. CASE git = "running" /\ (answer # <<>> \/ stdin # <<>>)
      BY <2>1, <2>2 DEF CanWrite, CanRead
    <2>3. CASE git = "running" /\ answer = <<>> /\ stdin = <<>>
      <3>1. Len(stdin) = 0 /\ Len(stdin) < Capacity
        BY <2>3, CapacityAssumption
      <3>2. sent \in 0 .. Len(paths) /\ Len(paths) \in Nat
        BY DEF ReadInvariant, Typed, TypeOK
      <3> QED  BY <2>3, <3>1, <3>2 DEF CanPut, CanEnd, CanExit
    <2>4. CASE git # "running"
      <3>1. git \in {"exited", "died"}
        BY <2>4 DEF ReadInvariant, Typed, TypeOK, Ending
      <3> QED  BY <2>1, <2>4, <3>1 DEF CanEnd, CanJoin
    <2> QED  BY <2>2, <2>3, <2>4
  <1> QED  BY <1>1, PipesCarryTheAnswers, PTL

\* What the three have still to do of a batch: a request is written, read and answered by two
\* parts at most, each of which is written and drained; then the thread and git end.
Work ==
    6 * (Len(paths) - sent) + 5 * Len(stdin) + 2 * Len(answer) + Len(stdout)
        + (IF writer = "writing" THEN 1 ELSE 0) + (IF git = "running" THEN 1 ELSE 0)

LEMMA WorkIsNatural ==
    ASSUME ReadInvariant
    PROVE  Work \in Nat
  BY DEF ReadInvariant, Typed, TypeOK, Work

LEMMA WorkGetsLess ==
    ASSUME ReadInvariant, step = "read", Writer \/ Git \/ GitDies \/ Command
    PROVE  Work' < Work \/ step' # "read"
  <1>1. /\ paths \in Seq(File) /\ stdin \in Seq(File) /\ stdout \in Seq(Part) /\ answer \in Seq(Part)
        /\ sent \in 0 .. Len(paths) /\ Len(paths) \in Nat
    BY DEF ReadInvariant, Typed, TypeOK
  <1>2. CASE WriterPut
    <2>1. /\ sent' = sent + 1 /\ sent < Len(paths) /\ paths[sent + 1] \in File
          /\ stdin' = Append(stdin, paths[sent + 1])
          /\ UNCHANGED <<paths, writer, stdout, git, answer>>
      BY <1>1, <1>2 DEF WriterPut, CanPut
    <2>2. Len(stdin') = Len(stdin) + 1
      BY <1>1, <2>1
    <2> QED  BY <1>1, <2>1, <2>2 DEF Work
  <1>3. CASE WriterEnds
    BY <1>1, <1>3 DEF WriterEnds, CanEnd, Work
  <1>4. CASE GitReads
    <2>1. /\ stdin # <<>> /\ answer = <<>> /\ stdin' = Tail(stdin)
          /\ Len(answer) = 0 /\ Len(answer') \in {1, 2}
          /\ UNCHANGED <<paths, sent, writer, stdout, git>>
      BY <1>4 DEF GitReads, CanRead
    <2>2. Len(stdin') = Len(stdin) - 1
      BY <1>1, <2>1, HeadTailProperties
    <2>3. 5 * Len(stdin') + 2 * Len(answer') < 5 * Len(stdin) + 2 * Len(answer)
      <3>1. Len(stdin) \in Nat
        BY <1>1
      <3>2. \A n \in Nat : \A m \in {1, 2} : 5 * (n - 1) + 2 * m < 5 * n + 2 * 0
        OBVIOUS
      <3> QED  BY <2>1, <2>2, <3>1, <3>2
    <2>4. Len(stdin) \in Nat /\ Len(stdin') \in Int /\ Len(answer) \in Nat /\ Len(answer') \in Nat
          /\ Len(stdout) \in Nat
      BY <1>1, <2>1, <2>2
    <2> QED  BY <1>1, <2>1, <2>3, <2>4 DEF Work
  <1>5. CASE GitWrites
    <2>1. /\ answer # <<>> /\ answer' = Tail(answer) /\ stdout' = Append(stdout, Head(answer))
          /\ UNCHANGED <<paths, sent, writer, stdin, git>>
      BY <1>5 DEF GitWrites, CanWrite
    <2>2. Head(answer) \in Part /\ Len(answer') = Len(answer) - 1
      BY <1>1, <2>1, HeadTailProperties
    <2>3. Len(stdout') = Len(stdout) + 1
      BY <1>1, <2>1, <2>2
    <2> QED  BY <1>1, <2>1, <2>2, <2>3 DEF Work
  <1>6. CASE GitExits
    BY <1>1, <1>6 DEF GitExits, CanExit, Work
  <1>7. CASE GitDies
    <2>1. /\ git = "running" /\ git' = "died" /\ Len(answer') = 0
          /\ UNCHANGED <<paths, sent, writer, stdin, stdout>>
      BY <1>7 DEF GitDies
    <2> QED  BY <1>1, <2>1 DEF Work
  <1>8. CASE Drain
    <2>1. /\ stdout # <<>> /\ stdout' = Tail(stdout)
          /\ UNCHANGED <<paths, sent, writer, stdin, git, answer>>
      BY <1>8 DEF Drain, CanDrain
    <2>2. Len(stdout') = Len(stdout) - 1
      BY <1>1, <2>1, HeadTailProperties
    <2> QED  BY <1>1, <2>1, <2>2 DEF Work
  <1>9. CASE Join
    BY <1>9 DEF Join
  <1> QED  BY <1>2, <1>3, <1>4, <1>5, <1>6, <1>7, <1>8, <1>9
           DEF Writer, Git, Command, ListAndSpawn, Spawn, ParseReply, ParseEnds, CollectLegends,
               CollectFeatures

\* While a batch is read each step but another process's commit leaves less to do, and what
\* there is to do is a natural number: with SomeoneCanGoOn, why the reading ends.
THEOREM ReadingGetsThere ==
    Spec => /\ [](Work \in Nat)
            /\ [][step = "read" /\ ~ RefMoves => Work' < Work \/ step' # "read"]_vars
  <1>1. ReadInvariant => Work \in Nat
    BY WorkIsNatural
  <1>2. ReadInvariant /\ [Next]_vars
        => [step = "read" /\ ~ RefMoves => Work' < Work \/ step' # "read"]_vars
    <2> SUFFICES ASSUME ReadInvariant, Next, step = "read", ~ RefMoves
                 PROVE  Work' < Work \/ step' # "read"
      OBVIOUS
    <2>1. Writer \/ Git \/ GitDies \/ Command
      BY DEF Next, Start
    <2> QED  BY <2>1, WorkGetsLess
  <1> QED  BY <1>1, <1>2, PipesCarryTheAnswers, PTL DEF Spec

=============================================================================

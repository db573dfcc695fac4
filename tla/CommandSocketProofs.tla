------------------------ MODULE CommandSocketProofs -------------------------
(***************************************************************************)
(* Theorems about CommandSocket, for files, networks, lines, buffers and   *)
(* pieces of every size.                                                   *)
(*                                                                         *)
(* The lines: LineInv is what keeps a line within its buffer.  SplitOf     *)
(* cuts bytes into lines one byte after the other, and so it is a morphism *)
(* (Joining): what is printed, cut and dropped at the ends of the stream   *)
(* changes the lines at its ends alone.  With QueueInv each step of LineIO *)
(* is one of LineChannel, or leaves its variables.                         *)
(*                                                                         *)
(* Who is served: Scanned relates the sections that have been read to the  *)
(* lines that they were read from, and each line keeps it (AllScanned);    *)
(* what is looked up is then what the lines say (ValueIsAssigned).         *)
(* EntryCovers is that a mask of whole octets has the bits that its text   *)
(* says, and ListsDecide that the list decides as the texts do.            *)
(*                                                                         *)
(* A recursive function exists, and has a property at each of its          *)
(* arguments, because no argument is the least one without (HasLeast).     *)
(***************************************************************************)
EXTENDS CommandSocket, SequenceTheorems, WellFoundedInduction, TLAPS

\* What has been read of a line fits, with one byte to spare for the end of
\* the string, and the buffer never gets smaller than at first.
LineInv ==
  /\ net \in Seq(Bytes) /\ todo \in Seq(Bytes)
  /\ line \in Seq(Bytes)
  /\ lsize \in Nat /\ LineSize <= lsize
  /\ Len(line) + 1 < lsize

\* A part of a sequence is one.
LEMMA Parts ==
  ASSUME NEW S, NEW s \in Seq(S), NEW m \in Nat, NEW n \in Nat,
         m >= 1, n <= Len(s)
  PROVE  SubSeq(s, m, n) \in Seq(S)
  BY SubSeqProperties

LEMMA InitLine == Init => LineInv
  BY LineIOAssumption DEF Init, InitIO, LineInv, LineIOAssumption

\* A byte is stored in a buffer that was doubled before, if need be.
LEMMA ByteStored ==
  ASSUME LineInv, ReadByte
  PROVE  LineInv' /\ Len(line) < lsize'
<1>1. /\ net \in Seq(Bytes) /\ net # <<>> /\ line \in Seq(Bytes)
      /\ Len(line) \in Nat /\ lsize \in Nat /\ LineSize <= lsize
      /\ Len(line) + 1 < lsize /\ LineSize \in Nat /\ LineSize > 2
  BY LineIOAssumption DEF LineInv, ReadByte, LineIOAssumption
<1>2. /\ net' = Tail(net) /\ todo' = todo
      /\ net' \in Seq(Bytes) /\ Head(net) \in Bytes
  BY <1>1 DEF ReadByte
<1>3. lsize' \in Nat /\ LineSize <= lsize' /\ Len(line) + 2 < lsize'
  <2>1. lsize' = IF Len(line) >= lsize - 2 THEN 2 * lsize ELSE lsize
    BY DEF ReadByte, Grows
  <2>2. QED
    BY <1>1, <2>1
<1>4. \/ line' = line
      \/ line' = <<>>
      \/ line' = Append(line, Head(net))
  BY Zenon DEF ReadByte, Returns
<1>5. line' \in Seq(Bytes) /\ Len(line') <= Len(line) + 1
  <2>1. CASE line' = line
    BY <1>1, <2>1
  <2>2. CASE line' = <<>>
    BY <1>1, <2>2
  <2>3. CASE line' = Append(line, Head(net))
    <3>1. /\ Append(line, Head(net)) \in Seq(Bytes)
          /\ Len(Append(line, Head(net))) = Len(line) + 1
      BY <1>1, <1>2, AppendProperties
    <3>2. QED
      BY <1>1, <2>3, <3>1
  <2>4. QED
    BY <1>4, <2>1, <2>2, <2>3
<1>6. QED
  BY <1>1, <1>2, <1>3, <1>5 DEF LineInv

\* Whatever else is done.
LEMMA LineKept == LineInv /\ [Next]_vars => LineInv'
<1> SUFFICES ASSUME LineInv, [Next]_vars PROVE LineInv'
  OBVIOUS
<1>a. LineSize \in Nat /\ LineSize > 2 /\ Capacity \in Nat
  BY LineIOAssumption DEF LineIOAssumption
<1>1. ASSUME UNCHANGED io PROVE LineInv'
  BY <1>1 DEF LineInv, io, writer, reader
<1>2. ASSUME NEW t \in Texts, SocketPrintf(t) PROVE LineInv'
  <2>1. Append(t, Newline) \in Seq(Bytes)
    <3>1. t \in Seq(Bytes)
      BY LineIOAssumption DEF LineIOAssumption
    <3>2. Newline \in Bytes
      BY DEF Bytes
    <3>3. QED
      BY <3>1, <3>2, AppendProperties
  <2>2. \A n \in Int : n <= Len(Append(t, Newline)) =>
          SubSeq(Append(t, Newline), 1, n) \in Seq(Bytes)
    BY <2>1, SubSeqProperties
  <2>3. \A n \in Int : n <= Len(Append(t, Newline)) =>
          net \o SubSeq(Append(t, Newline), 1, n) \in Seq(Bytes)
    BY <2>2, ConcatProperties DEF LineInv
  <2>4. LET n == Least(Room, Len(Append(t, Newline)))
        IN  n \in Int /\ n <= Len(Append(t, Newline))
    BY <2>1, <1>a, LenProperties DEF Least, Room, LineInv
  <2>5. net' \in Seq(Bytes) /\ todo' \in Seq(Bytes)
    BY <1>2, <2>1, <2>3, <2>4 DEF SocketPrintf, LineInv
  <2>6. QED
    BY <1>2, <2>5 DEF SocketPrintf, LineInv, reader
<1>3. ASSUME Push PROVE LineInv'
  <2>1. PICK n \in 1 .. Least(Room, Len(todo)) :
          /\ net' = net \o SubSeq(todo, 1, n)
          /\ todo' = SubSeq(todo, n + 1, Len(todo))
    BY <1>3 DEF Push
  <2>2. /\ todo \in Seq(Bytes) /\ Len(todo) \in Nat
        /\ n \in Nat /\ n >= 1 /\ n <= Len(todo)
    BY <2>1, <1>a, LenProperties DEF Least, Room, LineInv
  <2>3. SubSeq(todo, 1, n) \in Seq(Bytes)
    BY <2>2, SubSeqProperties
  <2>4. net' \in Seq(Bytes)
    BY <2>1, <2>3, ConcatProperties DEF LineInv
  <2>5. todo' \in Seq(Bytes)
    BY <2>1, <2>2, SubSeqProperties
  <2>6. QED
    BY <1>3, <2>4, <2>5 DEF Push, LineInv, reader
<1>4. ASSUME Close PROVE LineInv'
  BY <1>4 DEF Close, LineInv, reader
<1>5. ASSUME BeginRead PROVE LineInv'
  BY <1>5, <1>a DEF BeginRead, LineInv, writer
<1>6. ASSUME ReadByte PROVE LineInv'
  BY <1>6, ByteStored
<1>7. ASSUME ReadEOF PROVE LineInv'
  BY <1>7, <1>a DEF ReadEOF, Returns, LineInv, writer
<1>8. ASSUME ReadTimeOut PROVE LineInv'
  BY <1>8, <1>a DEF ReadTimeOut, Returns, LineInv, writer
<1>9. ASSUME NEW c \in Bytes, Drip(c) PROVE LineInv'
  <2>1. Append(net, c) \in Seq(Bytes)
    BY AppendProperties DEF LineInv
  <2>2. QED
    BY <1>9, <2>1 DEF Drip, LineInv, reader
<1>10. ASSUME ReadError PROVE LineInv'
  BY <1>10, <1>a DEF ReadError, Returns, LineInv
<1>11. QED
  BY <1>1, <1>2, <1>3, <1>4, <1>5, <1>6, <1>7, <1>8, <1>9, <1>10
     DEF Next, Start, Connect, Transfer, NextIO, Read, vars

(***************************************************************************)
(* LineFits for all lines and sizes of the buffer: the test before a byte  *)
(* is read leaves room for the byte and for the end of the string          *)
(* (SocketReadLine).                                                       *)
(***************************************************************************)
THEOREM LinesFit == Spec => LineFits
<1>1. LineInv /\ [Next]_vars => [ReadByte => Len(line) < lsize']_vars
  BY ByteStored
<1>2. QED
  BY InitLine, LineKept, <1>1, PTL DEF Spec, LineFits

----------------------------------------------------------------------------
(* The split of a sequence of bytes into lines.                            *)

\* What a split is.
Splits == [lines : Seq(Seq(Bytes)), part : Seq(Bytes)]

\* The split of the first n bytes, for n up to N, as a function.
SplitsTo(s, N, g) ==
  /\ g \in [0 .. N -> Splits]
  /\ \A n \in 0 .. N : g[n] = IF n = 0 THEN NoBytes ELSE With(g[n - 1], s[n])

\* Lines after others and the beginning p of the first of them.
Merge(lines, p, more) == lines \o <<p \o Head(more)>> \o Tail(more)

\* A split of bytes of which the first are split as x and the others as y.
Join(x, y) ==
  IF y.lines = <<>>
  THEN [lines |-> x.lines, part |-> x.part \o y.part]
  ELSE [lines |-> Merge(x.lines, x.part, y.lines), part |-> y.part]

(***************************************************************************)
(* Each set of numbers that is not empty has a least element.              *)
(***************************************************************************)
LEMMA HasLeast ==
  ASSUME NEW S \in SUBSET Nat, S # {}
  PROVE  \E m \in S : \A k \in S : ~(k < m)
<1> DEFINE Less == OpToRel(<, Nat)
<1>1. \A x, y \in Nat : x < y => <<x, y>> \in Less
  BY DEF OpToRel
<1>2. IsWellFoundedOn(Less, Nat)
  BY NatLessThanWellFounded
<1> HIDE DEF Less
<1>3. PICK x \in S : \A y \in S : ~(<<y, x>> \in Less)
  BY <1>2, WFMin
<1>4. QED
  BY <1>1, <1>3

(***************************************************************************)
(* A function from the beginning x and one step st for each element of a   *)
(* sequence.  There is one up to any length: no length is the least one    *)
(* without.                                                                *)
(***************************************************************************)
Steps(x, st, s, N, g) ==
  \A n \in 0 .. N : g[n] = IF n = 0 THEN x ELSE st[<<g[n - 1], s[n]>>]

LEMMA StepsExist ==
  ASSUME NEW X, NEW Y, NEW x \in X, NEW st \in [X \X Y -> X], NEW s \in Seq(Y)
  PROVE  \E g \in [0 .. Len(s) -> X] : Steps(x, st, s, Len(s), g)
<1> DEFINE Bad == {N \in 0 .. Len(s) :
                     ~\E g \in [0 .. N -> X] : Steps(x, st, s, N, g)}
<1>0. Len(s) \in Nat
  BY LenProperties
<1>1. SUFFICES ASSUME NEW b \in Bad
               PROVE  FALSE
  BY <1>0
<1>2. Bad \in SUBSET Nat
  BY <1>0
<1>3. PICK m \in Bad : \A k \in Bad : ~(k < m)
  <2> HIDE DEF Bad
  <2>1. QED
    BY <1>1, <1>2, HasLeast
<1>4. m # 0
  <2>1. [n \in 0 .. 0 |-> x] \in [0 .. 0 -> X]
    OBVIOUS
  <2>2. Steps(x, st, s, 0, [n \in 0 .. 0 |-> x])
    BY DEF Steps
  <2>3. QED
    BY <2>1, <2>2
<1>5. PICK g \in [0 .. m - 1 -> X] : Steps(x, st, s, m - 1, g)
  <2>1. m - 1 \in 0 .. Len(s) /\ m - 1 < m
    BY <1>0, <1>2, <1>4
  <2>2. QED
    BY <1>3, <2>1
<1> DEFINE last == st[<<g[m - 1], s[m]>>]
           h    == [n \in 0 .. m |-> IF n = m THEN last ELSE g[n]]
<1>6. m \in Nat /\ m >= 1 /\ m - 1 \in 0 .. m - 1 /\ m \in 1 .. Len(s)
  BY <1>0, <1>2, <1>4
<1>7. last \in X
  <2>1. s[m] \in Y /\ g[m - 1] \in X
    BY <1>5, <1>6, ElementOfSeq
  <2>2. QED
    BY <2>1
<1>8. h \in [0 .. m -> X]
  <2>1. \A n \in 0 .. m : n = m \/ n \in 0 .. m - 1
    BY <1>6
  <2> HIDE DEF last
  <2>2. QED
    BY <1>5, <1>7, <2>1
<1>9. ASSUME NEW n \in 0 .. m
      PROVE  h[n] = IF n = 0 THEN x ELSE st[<<h[n - 1], s[n]>>]
  <2>1. n = 0 \/ (n - 1 \in 0 .. m - 1 /\ n - 1 # m /\ n - 1 \in 0 .. m)
    BY <1>6
  <2>2. n = 0 \/ h[n - 1] = g[n - 1]
    BY <2>1
  <2>3. n = m \/ n \in 0 .. m - 1
    BY <1>6
  <2>4. n # m => g[n] = IF n = 0 THEN x ELSE st[<<g[n - 1], s[n]>>]
    BY <1>5, <2>3 DEF Steps
  <2>5. h[n] = IF n = m THEN last ELSE g[n]
    OBVIOUS
  <2> HIDE DEF h
  <2>6. CASE n = m
    <3>1. n # 0 /\ h[n] = last /\ h[n - 1] = g[m - 1]
      BY <1>6, <2>2, <2>5, <2>6
    <3>2. QED
      BY <2>6, <3>1
  <2>7. CASE n # m
    BY <2>2, <2>4, <2>5, <2>7
  <2>8. QED
    BY <2>6, <2>7
<1>10. Steps(x, st, s, m, h)
  BY <1>9 DEF Steps
<1>11. QED
  BY <1>8, <1>10

LEMMA WithType ==
  ASSUME NEW x \in Splits, NEW c \in Bytes
  PROVE  With(x, c) \in Splits
<1>1. /\ x.lines \in Seq(Seq(Bytes)) /\ x.part \in Seq(Bytes)
  BY DEF Splits
<1>2. Append(x.lines, x.part) \in Seq(Seq(Bytes))
  BY <1>1, AppendProperties
<1>3. Append(x.part, c) \in Seq(Bytes)
  BY <1>1, AppendProperties
<1>4. <<>> \in Seq(Bytes)
  BY EmptySeq
<1>5. QED
  BY <1>1, <1>2, <1>3, <1>4 DEF With, Splits

LEMMA NoBytesType == NoBytes \in Splits
  BY EmptySeq DEF NoBytes, Splits

LEMMA SplitExists ==
  ASSUME NEW s \in Seq(Bytes)
  PROVE  \E g : SplitsTo(s, Len(s), g)
<1> DEFINE st == [z \in Splits \X Bytes |-> With(z[1], z[2])]
<1>1. st \in [Splits \X Bytes -> Splits]
  BY WithType
<1>2. PICK g \in [0 .. Len(s) -> Splits] : Steps(NoBytes, st, s, Len(s), g)
  <2> HIDE DEF st
  <2>1. QED
    BY <1>1, NoBytesType, StepsExist
<1>3. ASSUME NEW n \in 0 .. Len(s)
      PROVE  g[n] = IF n = 0 THEN NoBytes ELSE With(g[n - 1], s[n])
  <2>1. g[n] = IF n = 0 THEN NoBytes ELSE st[<<g[n - 1], s[n]>>]
    BY <1>2 DEF Steps
  <2>2. CASE n = 0
    BY <2>1, <2>2
  <2>3. CASE n # 0
    <3>1. g[n - 1] \in Splits /\ s[n] \in Bytes
      BY <1>2, <2>3, LenProperties, ElementOfSeq
    <3>2. st[<<g[n - 1], s[n]>>] = With(g[n - 1], s[n])
      BY <3>1
    <3>3. QED
      BY <2>1, <2>3, <3>2
  <2>4. QED
    BY <2>2, <2>3
<1>4. QED
  BY <1>2, <1>3 DEF SplitsTo

LEMMA SplitIs ==
  ASSUME NEW s \in Seq(Bytes)
  PROVE  \E g : SplitsTo(s, Len(s), g) /\ SplitOf(s) = g[Len(s)]
<1> DEFINE split[n \in 0 .. Len(s)] ==
             IF n = 0 THEN NoBytes ELSE With(split[n - 1], s[n])
<1>1. Len(s) \in Nat
  BY LenProperties
<1>2. PICK g : SplitsTo(s, Len(s), g)
  BY <1>1, SplitExists
<1>3. g = [n \in 0 .. Len(s) |->
             IF n = 0 THEN NoBytes ELSE With(g[n - 1], s[n])]
  BY <1>2 DEF SplitsTo
<1>4. split = [n \in 0 .. Len(s) |->
                 IF n = 0 THEN NoBytes ELSE With(split[n - 1], s[n])]
  BY <1>3
<1>5. SplitOf(s) = split[Len(s)]
  BY DEF SplitOf
<1> HIDE DEF split
<1>6. \A n \in 0 .. Len(s) :
        split[n] = IF n = 0 THEN NoBytes ELSE With(split[n - 1], s[n])
  BY <1>4
<1> DEFINE Bad == {n \in 0 .. Len(s) : split[n] \notin Splits}
<1>7. Bad \in SUBSET Nat
  BY <1>1
<1>8. ASSUME Bad # {} PROVE FALSE
  <2>1. PICK m \in Bad : \A k \in Bad : ~(k < m)
    <3> HIDE DEF Bad
    <3>1. QED
      BY <1>7, <1>8, HasLeast
  <2>2. m # 0
    BY <1>1, <1>6, NoBytesType
  <2>3. m \in 1 .. Len(s) /\ m - 1 \in 0 .. Len(s) /\ m - 1 < m
    BY <1>1, <1>7, <2>2
  <2>4. split[m - 1] \in Splits /\ s[m] \in Bytes
    BY <2>1, <2>3, ElementOfSeq
  <2>5. split[m] = With(split[m - 1], s[m])
    BY <1>6, <2>2, <2>3
  <2>6. QED
    BY <2>4, <2>5, WithType
<1>9. split \in [0 .. Len(s) -> Splits]
  BY <1>4, <1>8
<1>10. QED
  BY <1>5, <1>6, <1>9 DEF SplitsTo

(***************************************************************************)
(* The split grows by one byte after the other.                            *)
(***************************************************************************)
LEMMA SplitType ==
  ASSUME NEW s \in Seq(Bytes)
  PROVE  SplitOf(s) \in Splits
<1>1. Len(s) \in 0 .. Len(s)
  BY LenProperties
<1>2. QED
  BY <1>1, SplitIs DEF SplitsTo

LEMMA SplitEmpty == SplitOf(<<>>) = NoBytes
<1>1. <<>> \in Seq(Bytes) /\ Len(<<>>) = 0
  BY EmptySeq
<1>2. PICK g : SplitsTo(<<>>, 0, g) /\ SplitOf(<<>>) = g[0]
  BY <1>1, SplitIs
<1>3. QED
  BY <1>2 DEF SplitsTo

LEMMA SplitAppend ==
  ASSUME NEW s \in Seq(Bytes), NEW c \in Bytes
  PROVE  SplitOf(Append(s, c)) = With(SplitOf(s), c)
<1> DEFINE t == Append(s, c)
<1>1. /\ t \in Seq(Bytes) /\ Len(t) = Len(s) + 1
      /\ \A i \in 1 .. Len(s) : t[i] = s[i]
      /\ t[Len(s) + 1] = c /\ Len(s) \in Nat
  BY AppendProperties, LenProperties
<1> HIDE DEF t
<1>2. PICK g : SplitsTo(s, Len(s), g) /\ SplitOf(s) = g[Len(s)]
  BY SplitIs
<1>3. PICK h : SplitsTo(t, Len(t), h) /\ SplitOf(t) = h[Len(t)]
  BY <1>1, SplitIs
<1> DEFINE Bad == {n \in 0 .. Len(s) : g[n] # h[n]}
<1>4. Bad \in SUBSET Nat
  BY <1>1
<1>5. ASSUME Bad # {} PROVE FALSE
  <2>1. PICK m \in Bad : \A k \in Bad : ~(k < m)
    <3> HIDE DEF Bad
    <3>1. QED
      BY <1>4, <1>5, HasLeast
  <2>2. m \in 0 .. Len(s) /\ m \in 0 .. Len(t)
    BY <1>1
  <2>3. m # 0
    BY <2>1, <2>2, <1>2, <1>3 DEF SplitsTo
  <2>4. m - 1 \in 0 .. Len(s) /\ m - 1 < m /\ m \in 1 .. Len(s)
    BY <1>1, <2>2, <2>3
  <2>5. g[m - 1] = h[m - 1]
    BY <2>1, <2>4
  <2>6. g[m] = With(g[m - 1], s[m]) /\ h[m] = With(h[m - 1], t[m])
    BY <1>2, <1>3, <2>2, <2>3 DEF SplitsTo
  <2>7. QED
    BY <1>1, <2>1, <2>4, <2>5, <2>6
<1>6. Len(s) \in 0 .. Len(s)
  BY <1>1
<1>7. g[Len(s)] = h[Len(s)]
  BY <1>5, <1>6
<1>8. h[Len(t)] = With(h[Len(t) - 1], t[Len(t)])
  <2>1. Len(t) \in 0 .. Len(t) /\ Len(t) # 0
    BY <1>1
  <2>2. QED
    BY <1>3, <2>1 DEF SplitsTo
<1>9. Len(t) - 1 = Len(s)
  BY <1>1
<1>10. QED
  BY <1>1, <1>2, <1>3, <1>7, <1>8, <1>9 DEF t

LEMMA SplitParts ==
  ASSUME NEW x \in Splits
  PROVE  /\ x.lines \in Seq(Seq(Bytes)) /\ x.part \in Seq(Bytes)
         /\ x = [lines |-> x.lines, part |-> x.part]
  BY DEF Splits

\* Empty sequences, and sequences of one element.
LEMMA Associates ==
  ASSUME NEW a \in Seq(Bytes), NEW b \in Seq(Bytes), NEW c \in Seq(Bytes)
  PROVE  (a \o b) \o c = a \o (b \o c)
  BY ConcatAssociative

LEMMA Units ==
  ASSUME NEW S, NEW s \in Seq(S)
  PROVE  <<>> \o s = s /\ s \o <<>> = s
  BY ConcatEmptySeq

LEMMA One ==
  ASSUME NEW S, NEW e \in S
  PROVE  /\ <<e>> \in Seq(S) /\ <<e>> # <<>>
         /\ Len(<<e>>) = 1 /\ Head(<<e>>) = e /\ Tail(<<e>>) = <<>>
         /\ Append(<<>>, e) = <<e>>
  OBVIOUS

\* An element at the end of two sequences is one at the end of the second.
LEMMA AppendToConcat ==
  ASSUME NEW S, NEW s \in Seq(S), NEW t \in Seq(S), NEW e \in S
  PROVE  s \o Append(t, e) = Append(s \o t, e)
<1>1. <<e>> \in Seq(S) /\ s \o t \in Seq(S)
  BY One, ConcatProperties
<1>2. Append(t, e) = t \o <<e>> /\ Append(s \o t, e) = (s \o t) \o <<e>>
  BY <1>1, AppendIsConcat
<1>3. QED
  BY <1>1, <1>2, ConcatAssociative

LEMMA JoinEmpty ==
  ASSUME NEW x, NEW y, y.lines = <<>>
  PROVE  /\ Join(x, y) = [lines |-> x.lines, part |-> x.part \o y.part]
         /\ Join(x, y).lines = x.lines /\ Join(x, y).part = x.part \o y.part
<1> DEFINE q == x.part \o y.part
<1>1. Join(x, y) = [lines |-> x.lines, part |-> q]
  BY DEF Join
<1> HIDE DEF q
<1>2. Join(x, y).lines = x.lines /\ Join(x, y).part = q
  BY <1>1
<1>3. QED
  BY <1>1, <1>2 DEF q

LEMMA JoinMore ==
  ASSUME NEW x, NEW y, y.lines # <<>>
  PROVE  /\ Join(x, y) =
              [lines |-> Merge(x.lines, x.part, y.lines), part |-> y.part]
         /\ Join(x, y).lines = Merge(x.lines, x.part, y.lines)
         /\ Join(x, y).part = y.part
  BY DEF Join

(***************************************************************************)
(* A byte that follows both of two splits follows the second.              *)
(***************************************************************************)
LEMMA JoinWith ==
  ASSUME NEW x \in Splits, NEW y \in Splits, NEW c \in Bytes
  PROVE  Join(x, With(y, c)) = With(Join(x, y), c)
<1> DEFINE w == With(y, c)
           j == Join(x, y)
<1>0. PICK L \in Seq(Seq(Bytes)), p \in Seq(Bytes),
           M \in Seq(Seq(Bytes)), q \in Seq(Bytes) :
        x.lines = L /\ x.part = p /\ y.lines = M /\ y.part = q
  BY SplitParts
<1>2. M = <<>> => j = [lines |-> L, part |-> p \o q]
  BY <1>0, JoinEmpty
<1>3. M # <<>> => j = [lines |-> Merge(L, p, M), part |-> q]
  BY <1>0, JoinMore
<1>4. w.lines = <<>> => Join(x, w) = [lines |-> L, part |-> p \o w.part]
  BY <1>0, JoinEmpty
<1>5. w.lines # <<>> => Join(x, w) =
        [lines |-> Merge(L, p, w.lines), part |-> w.part]
  BY <1>0, JoinMore
<1>6. CASE c = Return
  BY <1>6 DEF With
<1>7. CASE c # Return /\ c = Newline
  <2>1. w.lines = Append(M, q) /\ w.part = <<>>
    BY <1>0, <1>7 DEF With
  <2>2. With(j, c) = [lines |-> Append(j.lines, j.part), part |-> <<>>]
    BY <1>7 DEF With
  <2> HIDE DEF w, j
  <2>3. /\ w.lines # <<>>
        /\ M = <<>> => Merge(L, p, w.lines) = Append(L, p \o q)
        /\ M # <<>> => Merge(L, p, w.lines) = Append(Merge(L, p, M), q)
    <3> DEFINE z == Append(M, q)
    <3>1. z # <<>>
      BY AppendProperties
    <3>2. CASE M = <<>>
      <4>1. Head(z) = q /\ Tail(z) = <<>>
        BY <3>2, HeadTailAppend
      <4>2. p \o q \in Seq(Bytes)
        BY ConcatProperties
      <4> DEFINE r == p \o q
      <4>3. <<r>> \in Seq(Seq(Bytes)) /\ L \o <<r>> = Append(L, r)
        BY <4>2, One, AppendIsConcat
      <4>4. L \o <<r>> \in Seq(Seq(Bytes))
        BY <4>3, ConcatProperties
      <4>5. (L \o <<r>>) \o <<>> = L \o <<r>>
        BY <4>4, Units
      <4>6. QED
        BY <2>1, <3>1, <3>2, <4>1, <4>3, <4>5 DEF Merge
    <3>3. CASE M # <<>>
      <4>1. Head(z) = Head(M) /\ Tail(z) = Append(Tail(M), q)
        BY <3>3, HeadTailAppend
      <4> DEFINE a == L \o <<p \o Head(M)>>
      <4>2. a \in Seq(Seq(Bytes)) /\ Tail(M) \in Seq(Seq(Bytes))
        <5>1. Head(M) \in Seq(Bytes) /\ Tail(M) \in Seq(Seq(Bytes))
          BY <3>3, HeadTailProperties
        <5>2. p \o Head(M) \in Seq(Bytes)
          BY <5>1, ConcatProperties
        <5>3. <<p \o Head(M)>> \in Seq(Seq(Bytes))
          BY <5>2, One
        <5>4. QED
          BY <5>1, <5>3, ConcatProperties
      <4>3. a \o Append(Tail(M), q) = Append(a \o Tail(M), q)
        <5> HIDE DEF a
        <5>1. QED
          BY <4>2, AppendToConcat
      <4>4. QED
        BY <2>1, <3>1, <3>3, <4>1, <4>3 DEF Merge
    <3>4. QED
      BY <2>1, <3>2, <3>3
  <2>4. M = <<>> => j.lines = L /\ j.part = p \o q
    BY <1>2
  <2>5. M # <<>> => j.lines = Merge(L, p, M) /\ j.part = q
    BY <1>3
  <2>6. Append(j.lines, j.part) = Merge(L, p, w.lines)
    BY <2>3, <2>4, <2>5
  <2>7. Join(x, w) = With(j, c)
    BY <1>5, <2>1, <2>2, <2>3, <2>6
  <2>8. QED
    BY <2>7 DEF w, j
<1>8. CASE c # Return /\ c # Newline
  <2>1. w.lines = M /\ w.part = Append(q, c)
    BY <1>0, <1>8 DEF With
  <2>2. With(j, c) = [lines |-> j.lines, part |-> Append(j.part, c)]
    BY <1>8 DEF With
  <2> HIDE DEF w, j
  <2>3. p \o Append(q, c) = Append(p \o q, c)
    BY AppendToConcat
  <2>4. M = <<>> => j.lines = L /\ j.part = p \o q
    BY <1>2
  <2>5. M # <<>> => j.lines = Merge(L, p, M) /\ j.part = q
    BY <1>3
  <2>6. Join(x, w) = With(j, c)
    BY <1>4, <1>5, <2>1, <2>2, <2>3, <2>4, <2>5
  <2>7. QED
    BY <2>6 DEF w, j
<1>9. QED
  BY <1>6, <1>7, <1>8

(***************************************************************************)
(* The split of one sequence and another after it.                         *)
(***************************************************************************)
LEMMA Joining ==
  ASSUME NEW a \in Seq(Bytes), NEW b \in Seq(Bytes)
  PROVE  SplitOf(a \o b) = Join(SplitOf(a), SplitOf(b))
<1> DEFINE Up(n) == SubSeq(b, 1, n)
           Bad == {n \in 0 .. Len(b) :
                     SplitOf(a \o Up(n)) # Join(SplitOf(a), SplitOf(Up(n)))}
<1>1. Len(b) \in Nat
  BY LenProperties
<1>2. Up(0) = <<>>
  BY SubSeqEmpty
<1>3. SplitOf(a \o <<>>) = Join(SplitOf(a), SplitOf(<<>>))
  <2>1. a \o <<>> = a
    BY Units
  <2>2. SplitOf(a) \in Splits
    BY SplitType
  <2>3. SplitOf(a).part \o <<>> = SplitOf(a).part
    BY <2>2, SplitParts, Units
  <2>4. SplitOf(<<>>).lines = <<>> /\ SplitOf(<<>>).part = <<>>
    BY SplitEmpty DEF NoBytes
  <2> DEFINE x == SplitOf(a)
             y == SplitOf(<<>>)
  <2>5. x = [lines |-> x.lines, part |-> x.part]
    BY <2>2, SplitParts
  <2> HIDE DEF x, y
  <2>6. y.lines = <<>> /\ x.part \o y.part = x.part
    BY <2>3, <2>4 DEF x, y
  <2>7. Join(x, y) = [lines |-> x.lines, part |-> x.part \o y.part]
    BY <2>6, JoinEmpty
  <2>8. Join(x, y) = x
    BY <2>5, <2>6, <2>7
  <2>9. QED
    BY <2>1, <2>8 DEF x, y
<1>4. ASSUME NEW n \in 1 .. Len(b), n - 1 \notin Bad PROVE n \notin Bad
  <2>1. n - 1 \in 0 .. Len(b) /\ n \in Nat /\ n - 1 \in Nat /\ b[n] \in Bytes
    BY <1>1, ElementOfSeq
  <2>2. Up(n - 1) \in Seq(Bytes)
    <3>1. \A i \in 1 .. n - 1 : b[i] \in Bytes
      BY <1>1, ElementOfSeq
    <3>2. QED
      BY <2>1, <3>1, SubSeqProperties
  <2>3. Up(n) = Append(Up(n - 1), b[n])
    <3>1. 1 \in 1 .. Len(b) /\ n \in 1 .. Len(b)
      BY <1>1
    <3>2. Up(n) = Up(n - 1) \o <<b[n]>>
      BY <3>1, SubSeqRecursiveSecond
    <3>3. Append(Up(n - 1), b[n]) = Up(n - 1) \o <<b[n]>>
      BY <2>1, <2>2, AppendIsConcat
    <3>4. QED
      BY <3>2, <3>3
  <2>4. SplitOf(a \o Up(n - 1)) = Join(SplitOf(a), SplitOf(Up(n - 1)))
    BY <1>4, <2>1
  <2> HIDE DEF Up
  <2>5. a \o Up(n) = Append(a \o Up(n - 1), b[n])
    BY <2>1, <2>2, <2>3, AppendToConcat
  <2>6. a \o Up(n - 1) \in Seq(Bytes)
    BY <2>2, ConcatProperties
  <2>7. SplitOf(a \o Up(n)) = With(SplitOf(a \o Up(n - 1)), b[n])
    BY <2>1, <2>5, <2>6, SplitAppend
  <2>8. SplitOf(Up(n)) = With(SplitOf(Up(n - 1)), b[n])
    BY <2>1, <2>2, <2>3, SplitAppend
  <2>9. SplitOf(a) \in Splits /\ SplitOf(Up(n - 1)) \in Splits
    BY <2>2, SplitType
  <2>10. QED
    BY <2>1, <2>4, <2>7, <2>8, <2>9, JoinWith
<1>5. ASSUME Bad # {} PROVE FALSE
  <2>1. Bad \in SUBSET Nat
    BY <1>1
  <2>2. PICK m \in Bad : \A k \in Bad : ~(k < m)
    <3> HIDE DEF Bad
    <3>1. QED
      BY <1>5, <2>1, HasLeast
  <2>3. m # 0
    BY <1>2, <1>3, <2>2
  <2>4. m \in 0 .. Len(b) /\ m \in Nat
    BY <1>1
  <2>5. m \in 1 .. Len(b) /\ m - 1 < m /\ m - 1 \in Nat
    BY <1>1, <2>3, <2>4
  <2> HIDE DEF Bad
  <2>6. QED
    BY <1>4, <2>2, <2>5
<1>6. Up(Len(b)) = b
  BY SubSeqFull
<1>7. Len(b) \in 0 .. Len(b)
  BY <1>1
<1>8. QED
  BY <1>5, <1>6, <1>7

(***************************************************************************)
(* Bytes without a newline, and those of them that are no return.          *)
(***************************************************************************)
LEMMA NoNewline ==
  ASSUME NEW s \in Seq(Bytes), \A i \in 1 .. Len(s) : s[i] # Newline
  PROVE  /\ SplitOf(s).lines = <<>>
         /\ (\A i \in 1 .. Len(s) : s[i] # Return) => SplitOf(s).part = s
<1> DEFINE Up(n) == SubSeq(s, 1, n)
           Good(n) == /\ SplitOf(Up(n)).lines = <<>>
                      /\ (\A i \in 1 .. n : s[i] # Return) =>
                           SplitOf(Up(n)).part = Up(n)
           Bad == {n \in 0 .. Len(s) : ~Good(n)}
<1>1. Len(s) \in Nat
  BY LenProperties
<1>2. Good(0)
  <2>1. Up(0) = <<>>
    BY SubSeqEmpty
  <2>2. SplitOf(<<>>).lines = <<>> /\ SplitOf(<<>>).part = <<>>
    BY SplitEmpty DEF NoBytes
  <2>3. QED
    BY <2>1, <2>2
<1>3. ASSUME NEW n \in 1 .. Len(s), Good(n - 1) PROVE Good(n)
  <2>1. n - 1 \in 0 .. Len(s) /\ n \in Nat /\ n - 1 \in Nat /\ s[n] \in Bytes
    BY <1>1, ElementOfSeq
  <2>2. Up(n - 1) \in Seq(Bytes)
    <3>1. \A i \in 1 .. n - 1 : s[i] \in Bytes
      BY <1>1, ElementOfSeq
    <3>2. QED
      BY <2>1, <3>1, SubSeqProperties
  <2>3. Up(n) = Append(Up(n - 1), s[n])
    <3>1. 1 \in 1 .. Len(s) /\ n \in 1 .. Len(s)
      BY <1>1
    <3>2. Up(n) = Up(n - 1) \o <<s[n]>>
      BY <3>1, SubSeqRecursiveSecond
    <3>3. Append(Up(n - 1), s[n]) = Up(n - 1) \o <<s[n]>>
      BY <2>1, <2>2, AppendIsConcat
    <3>4. QED
      BY <3>2, <3>3
  <2>4. s[n] # Newline
    OBVIOUS
  <2>5. \A i \in 1 .. n - 1 : i \in 1 .. n
    BY <2>1
  <2>6. n \in 1 .. n
    BY <2>1
  <2>7. /\ SplitOf(Up(n - 1)).lines = <<>>
        /\ (\A i \in 1 .. n - 1 : s[i] # Return) =>
             SplitOf(Up(n - 1)).part = Up(n - 1)
    BY <1>3
  <2> HIDE DEF Up
  <2>8. SplitOf(Up(n)) = With(SplitOf(Up(n - 1)), s[n])
    BY <2>1, <2>2, <2>3, SplitAppend
  <2>9. QED
    BY <2>3, <2>4, <2>5, <2>6, <2>7, <2>8 DEF With
<1>4. ASSUME Bad # {} PROVE FALSE
  <2>1. Bad \in SUBSET Nat
    BY <1>1
  <2>2. PICK m \in Bad : \A k \in Bad : ~(k < m)
    <3> HIDE DEF Bad
    <3>1. QED
      BY <1>4, <2>1, HasLeast
  <2> HIDE DEF Good
  <2>3. m # 0 /\ m \in 0 .. Len(s) /\ ~Good(m)
    BY <1>2, <2>2
  <2>4. m \in 1 .. Len(s) /\ m - 1 < m /\ m - 1 \in 0 .. Len(s)
    BY <1>1, <2>3
  <2>5. Good(m - 1)
    BY <2>2, <2>4
  <2>6. QED
    BY <1>3, <2>3, <2>4, <2>5
<1>5. Up(Len(s)) = s
  BY SubSeqFull
<1>6. Len(s) \in 0 .. Len(s)
  BY <1>1
<1>7. Good(Len(s))
  <2> HIDE DEF Good
  <2>1. QED
    BY <1>4, <1>6
<1>8. QED
  BY <1>5, <1>7

----------------------------------------------------------------------------
(* The queue of lines.                                                     *)

\* What has been read of a line is on the line alone, and is given up when no
\* read goes on; what the kernel has yet to take is the end of one line, and
\* only an open utility waits for that.
QueueInv ==
  /\ Len(net) <= Capacity
  /\ \A i \in 1 .. Len(line) : line[i] # Newline /\ line[i] # Return
  /\ ~reading => line = <<>>
  /\ todo # <<>> =>
       /\ ~down /\ ~closed
       /\ todo[Len(todo)] = Newline
       /\ \A i \in 1 .. Len(todo) - 1 : todo[i] # Newline

\* A part of a line, and the end of one, after anything.
LEMMA PartGrows ==
  ASSUME NEW a \in Seq(Bytes), NEW u \in Seq(Bytes),
         \A i \in 1 .. Len(u) : u[i] # Newline
  PROVE  /\ SplitOf(a \o u).lines = SplitOf(a).lines
         /\ SplitOf(a \o u).part = SplitOf(a).part \o SplitOf(u).part
<1>1. SplitOf(u).lines = <<>>
  BY NoNewline
<1>2. SplitOf(a \o u) = Join(SplitOf(a), SplitOf(u))
  BY Joining
<1>3. PICK x, y : x = SplitOf(a) /\ y = SplitOf(u)
  OBVIOUS
<1>4. Join(x, y).lines = x.lines /\ Join(x, y).part = x.part \o y.part
  BY <1>1, <1>3, JoinEmpty
<1>5. QED
  BY <1>2, <1>3, <1>4

LEMMA LineEnds ==
  ASSUME NEW a \in Seq(Bytes), NEW u \in Seq(Bytes), NEW nl, nl = Newline,
         \A i \in 1 .. Len(u) : u[i] # Newline
  PROVE  /\ SplitOf(a \o Append(u, nl)).lines =
              Append(SplitOf(a).lines, SplitOf(a).part \o SplitOf(u).part)
         /\ SplitOf(a \o Append(u, nl)).part = <<>>
<1>1. Newline \in Bytes /\ a \o u \in Seq(Bytes)
  BY ConcatProperties DEF Bytes
<1>2. a \o Append(u, nl) = Append(a \o u, nl)
  BY <1>1, AppendToConcat
<1>3. SplitOf(a \o Append(u, nl)) = With(SplitOf(a \o u), Newline)
  BY <1>1, <1>2, SplitAppend
<1>4. Newline # Return
  BY LineIOAssumption DEF LineIOAssumption
<1> DEFINE v == SplitOf(a \o u)
<1>5. v.lines = SplitOf(a).lines /\ v.part = SplitOf(a).part \o SplitOf(u).part
  BY PartGrows
<1>6. With(v, Newline) = [lines |-> Append(v.lines, v.part), part |-> <<>>]
  BY <1>4 DEF With
<1> HIDE DEF v
<1>7. /\ With(v, Newline).lines = Append(v.lines, v.part)
      /\ With(v, Newline).part = <<>>
  BY <1>6
<1>8. QED
  BY <1>3, <1>5, <1>7 DEF v

\* The first line, when it has no return, and what follows it.
LEMMA FirstLine ==
  ASSUME NEW a \in Seq(Bytes), NEW b \in Seq(Bytes),
         \A i \in 1 .. Len(a) : a[i] # Newline /\ a[i] # Return
  PROVE  /\ SplitOf(Append(a, Newline) \o b).lines = <<a>> \o SplitOf(b).lines
         /\ SplitOf(Append(a, Newline) \o b).part = SplitOf(b).part
<1>1. Newline \in Bytes /\ Newline # Return
  BY LineIOAssumption DEF Bytes, LineIOAssumption
<1>2. SplitOf(a).lines = <<>> /\ SplitOf(a).part = a
  BY NoNewline
<1> DEFINE x == SplitOf(Append(a, Newline))
           y == SplitOf(b)
           w == SplitOf(Append(a, Newline) \o b)
<1>3. x.lines = <<a>> /\ x.part = <<>>
  <2>1. x = With(SplitOf(a), Newline)
    BY <1>1, SplitAppend
  <2>2. Append(<<>>, a) = <<a>>
    BY One
  <2>3. QED
    BY <1>1, <1>2, <2>1, <2>2 DEF With
<1>4. w = Join(x, y)
  <2>1. Append(a, Newline) \in Seq(Bytes)
    BY <1>1, AppendProperties
  <2>2. QED
    BY <2>1, Joining
<1>5. y \in Splits
  BY SplitType
<1> HIDE DEF x, y, w
<1>6. y.lines \in Seq(Seq(Bytes)) /\ y.part \in Seq(Bytes)
  BY <1>5, SplitParts
<1>7. <<a>> \in Seq(Seq(Bytes))
  BY One
<1>8. CASE y.lines = <<>>
  <2>1. w.lines = x.lines /\ w.part = x.part \o y.part
    BY <1>4, <1>8, JoinEmpty
  <2>2. <<a>> \o <<>> = <<a>> /\ <<>> \o y.part = y.part
    BY <1>6, <1>7, Units
  <2>3. QED
    BY <1>3, <1>8, <2>1, <2>2 DEF w, y
<1>9. CASE y.lines # <<>>
  <2>1. w.lines = Merge(x.lines, x.part, y.lines) /\ w.part = y.part
    BY <1>4, <1>9, JoinMore
  <2> DEFINE h == Head(y.lines)
             m == Tail(y.lines)
  <2>2. h \in Seq(Bytes) /\ m \in Seq(Seq(Bytes)) /\ y.lines = <<h>> \o m
    BY <1>6, <1>9, HeadTailProperties
  <2> HIDE DEF h, m
  <2>3. <<>> \o h = h
    BY <2>2, Units
  <2>4. <<h>> \in Seq(Seq(Bytes))
    BY <2>2, One
  <2>5. Merge(x.lines, x.part, y.lines) = <<a>> \o <<h>> \o m
    BY <1>3, <2>3 DEF Merge, h, m
  <2>6. (<<a>> \o <<h>>) \o m = <<a>> \o (<<h>> \o m)
    BY <1>7, <2>2, <2>4, ConcatAssociative
  <2>7. QED
    BY <2>1, <2>2, <2>5, <2>6 DEF w, y
<1>10. QED
  BY <1>8, <1>9

LEMMA Streams ==
  ASSUME LineInv
  PROVE  /\ line \in Seq(Bytes) /\ net \in Seq(Bytes) /\ todo \in Seq(Bytes)
         /\ Len(line) \in Nat /\ Len(net) \in Nat /\ Len(todo) \in Nat
         /\ line \o net \in Seq(Bytes)
         /\ Split = SplitOf((line \o net) \o todo)
         /\ Split' = SplitOf((line' \o net') \o todo')
         /\ Split \in Splits
<1>1. line \in Seq(Bytes) /\ net \in Seq(Bytes) /\ todo \in Seq(Bytes)
  BY DEF LineInv
<1>2. line \o net \in Seq(Bytes)
  BY <1>1, ConcatProperties
<1>3. (line \o net) \o todo \in Seq(Bytes)
  BY <1>1, <1>2, ConcatProperties
<1>4. Split = SplitOf((line \o net) \o todo)
  BY DEF Split, Stream
<1>5. QED
  BY <1>1, <1>2, <1>3, <1>4, SplitType, LenProperties DEF Split, Stream

LEMMA TextsAre ==
  ASSUME NEW t \in Texts
  PROVE  t \in Seq(Bytes) /\ \A i \in 1 .. Len(t) : t[i] # Newline
  BY LineIOAssumption DEF LineIOAssumption

\* The two parts of a sequence.
LEMMA Fore ==
  ASSUME NEW S, NEW s \in Seq(S), NEW t \in Seq(S)
  PROVE  /\ Len(s) \in 0 .. Len(s \o t)
         /\ SubSeq(s \o t, 1, Len(s)) = s
         /\ SubSeq(s \o t, Len(s) + 1, Len(s \o t)) = t
<1>1. /\ s \o t \in Seq(S) /\ Len(s \o t) = Len(s) + Len(t)
      /\ Len(s) \in Nat /\ Len(t) \in Nat
      /\ \A i \in 1 .. Len(s) + Len(t) :
           (s \o t)[i] = IF i <= Len(s) THEN s[i] ELSE t[i - Len(s)]
      /\ \A i \in 1 .. Len(s) + Len(t) : (s \o t)[i] \in S
  BY ConcatProperties, LenProperties, ElementOfSeq
<1> DEFINE w == s \o t
<1> HIDE DEF w
<1>2. SubSeq(w, 1, Len(s)) = s
  <2>1. /\ SubSeq(w, 1, Len(s)) \in Seq(S)
        /\ Len(SubSeq(w, 1, Len(s))) = Len(s)
        /\ \A i \in 1 .. Len(s) : SubSeq(w, 1, Len(s))[i] = w[i]
    BY <1>1, SubSeqProperties DEF w
  <2>2. \A i \in 1 .. Len(s) : w[i] = s[i]
    BY <1>1 DEF w
  <2>3. QED
    BY <2>1, <2>2, SeqEqual
<1>3. SubSeq(w, Len(s) + 1, Len(w)) = t
  <2> DEFINE v == SubSeq(w, Len(s) + 1, Len(w))
  <2>1. /\ v \in Seq(S) /\ Len(v) = Len(t)
        /\ \A i \in 1 .. Len(t) : v[i] = w[Len(s) + i]
    BY <1>1, SubSeqProperties DEF w
  <2>2. \A i \in 1 .. Len(t) : w[Len(s) + i] = t[i]
    BY <1>1 DEF w
  <2> HIDE DEF v
  <2>3. v = t
    BY <2>1, <2>2, SeqEqual
  <2>4. QED
    BY <2>3 DEF v
<1>4. QED
  BY <1>1, <1>2, <1>3 DEF w

\* SocketPrintf adds a line, or the beginning of one.
Printed(t) ==
  LET l == SplitOf(t).part
  IN  \/ /\ Split'.lines = Append(Split.lines, Split.part \o l)
         /\ Split'.part = <<>>
      \/ /\ down /\ Split'.lines = Split.lines
         /\ \E n \in 0 .. Len(l) : Split'.part = Split.part \o SubSeq(l, 1, n)

LEMMA PrintStep ==
  ASSUME LineInv, QueueInv, NEW t \in Texts, SocketPrintf(t)
  PROVE  QueueInv' /\ Printed(t)
<1> DEFINE string == Append(t, Newline)
           n == Least(Room, Len(string))
           a == line \o net
           p == SubSeq(string, 1, n)
<1>1. /\ line \in Seq(Bytes) /\ net \in Seq(Bytes) /\ a \in Seq(Bytes)
      /\ Len(line) \in Nat /\ Len(net) \in Nat
      /\ Split = SplitOf(a \o todo)
      /\ Split' = SplitOf((line' \o net') \o todo')
  BY Streams
<1>2. t \in Seq(Bytes) /\ \A i \in 1 .. Len(t) : t[i] # Newline
  BY TextsAre
<1>3. Newline \in Bytes /\ Capacity \in Nat /\ Newline = Newline
  BY LineIOAssumption DEF Bytes, LineIOAssumption
<1>4. /\ string \in Seq(Bytes) /\ Len(string) = Len(t) + 1
      /\ \A i \in 1 .. Len(t) : string[i] = t[i]
      /\ string[Len(t) + 1] = Newline /\ Len(t) \in Nat /\ string # <<>>
  BY <1>2, <1>3, AppendProperties, LenProperties
<1>5. /\ todo = <<>> /\ line' = line /\ reading' = reading /\ down' = down
      /\ closed' = closed /\ ~closed
  BY DEF SocketPrintf, reader
<1>6. Split = SplitOf(a)
  BY <1>1, <1>5, Units
<1>7. /\ SplitOf(a \o string).lines =
           Append(SplitOf(a).lines, SplitOf(a).part \o SplitOf(t).part)
      /\ SplitOf(a \o string).part = <<>>
  BY <1>1, <1>2, LineEnds
<1>8. CASE ~down
  <2>1. net' = net /\ todo' = string
    BY <1>8 DEF SocketPrintf
  <2>2. Split' = SplitOf(a \o string)
    BY <1>1, <1>5, <2>1
  <2> HIDE DEF string, a
  <2>3. QueueInv'
    BY <1>2, <1>4, <1>5, <1>8, <2>1 DEF QueueInv
  <2>4. QED
    BY <1>6, <1>7, <2>2, <2>3 DEF Printed
<1>9. CASE down
  <2>1. net' = net \o p /\ todo' = todo
    BY <1>9 DEF SocketPrintf
  <2>2. n \in 0 .. Len(string) /\ n <= Capacity - Len(net) /\ Room \in Nat
    BY <1>1, <1>3, <1>4 DEF Least, Room, QueueInv
  <2>3. p \in Seq(Bytes) /\ Len(p) = n
    <3> HIDE DEF string, n
    <3>1. \A i \in 1 .. n : string[i] \in Bytes
      BY <1>4, <2>2, ElementOfSeq
    <3>2. n \in Nat
      BY <1>4, <2>2
    <3>3. QED
      BY <3>1, <3>2, SubSeqProperties
  <2>4. QueueInv'
    <3> HIDE DEF p, n
    <3>1. Len(net') = Len(net) + n
      BY <1>1, <2>1, <2>3, ConcatProperties
    <3>2. Len(net') <= Capacity
      BY <1>1, <1>3, <1>4, <2>2, <3>1
    <3>3. QED
      BY <1>5, <2>1, <3>2 DEF QueueInv
  <2>5. Split' = SplitOf(a \o p)
    <3> HIDE DEF p
    <3>1. (line \o (net \o p)) \o <<>> = line \o (net \o p)
      <4>1. line \o (net \o p) \in Seq(Bytes)
        BY <1>1, <2>3, ConcatProperties
      <4>2. QED
        BY <4>1, Units
    <3>2. (line \o net) \o p = line \o (net \o p)
      <4>1. line \in Seq(Bytes) /\ net \in Seq(Bytes) /\ p \in Seq(Bytes)
        BY <1>1, <2>3
      <4>2. QED
        BY <4>1, Associates
    <3>3. QED
      BY <1>1, <1>5, <2>1, <3>1, <3>2
  <2>6. CASE n = Len(string)
    <3>1. p = string
      <4> HIDE DEF string, n
      <4>1. SubSeq(string, 1, Len(string)) = string
        BY <1>4, SubSeqFull
      <4>2. QED
        BY <2>6, <4>1
    <3>2. QED
      BY <1>6, <1>7, <2>4, <2>5, <3>1 DEF Printed
  <2>7. CASE n # Len(string)
    <3> DEFINE u == SubSeq(t, 1, n)
               v == SubSeq(t, n + 1, Len(t))
    <3>1. n \in 0 .. Len(t) /\ n \in Nat /\ n + 1 \in 1 .. Len(t) + 1
      BY <1>4, <2>2, <2>7
    <3>2. /\ u \in Seq(Bytes) /\ Len(u) = n
          /\ \A i \in 1 .. n : u[i] = t[i]
      <4> HIDE DEF n
      <4>1. \A i \in 1 .. n : t[i] \in Bytes
        BY <1>2, <1>4, <3>1, ElementOfSeq
      <4>2. QED
        BY <3>1, <4>1, SubSeqProperties
    <3>3. p = u
      <4> HIDE DEF string, n
      <4>1. \A i \in 1 .. n : string[i] = t[i]
        BY <1>4, <3>1
      <4>2. \A i \in 1 .. n : string[i] \in Bytes
        BY <1>4, <3>1, ElementOfSeq
      <4>3. \A i \in 1 .. n : p[i] = string[i]
        BY <3>1, <4>2, SubSeqProperties
      <4>4. QED
        <5> HIDE DEF p, u
        <5>1. QED
          BY <2>3, <3>2, <4>1, <4>3, SeqEqual
    <3>4. v \in Seq(Bytes)
      <4> HIDE DEF n
      <4>1. \A i \in n + 1 .. Len(t) : t[i] \in Bytes
        BY <1>2, <1>4, <3>1, ElementOfSeq
      <4>2. QED
        BY <1>4, <3>1, <4>1, SubSeqProperties
    <3>5. t = u \o v
      <4> HIDE DEF n
      <4>1. /\ 1 \in 1 .. Len(t) + 1 /\ n \in 1 - 1 .. Len(t)
            /\ Len(t) \in n .. Len(t)
        BY <1>4, <3>1
      <4>2. u \o v = SubSeq(t, 1, Len(t))
        BY <1>2, <4>1, ConcatAdjacentSubSeq, Zenon
      <4>3. QED
        BY <1>2, <4>2, SubSeqFull
    <3>6. \A i \in 1 .. Len(v) : v[i] # Newline
      <4> HIDE DEF n
      <4>1. \A i \in n + 1 .. Len(t) : t[i] \in Bytes
        BY <1>2, <1>4, <3>1, ElementOfSeq
      <4>2. /\ Len(v) = IF n + 1 <= Len(t) THEN Len(t) - n ELSE 0
            /\ \A i \in 1 .. Len(t) - n : v[i] = t[n + i]
        BY <1>4, <3>1, <4>1, SubSeqProperties
      <4>3. \A i \in 1 .. Len(t) - n : n + i \in 1 .. Len(t)
        BY <1>4, <3>1
      <4>4. QED
        BY <1>2, <1>4, <3>1, <4>2, <4>3
    <3>7. \A i \in 1 .. Len(u) : u[i] # Newline
      <4> HIDE DEF n, u
      <4>1. QED
        BY <1>2, <1>4, <3>1, <3>2
    <3> DEFINE c == SplitOf(u).part
               d == SplitOf(v).part
    <3> HIDE DEF u, v, p, n, string, a
    <3>8. c \in Seq(Bytes) /\ d \in Seq(Bytes)
      BY <3>2, <3>4, SplitType, SplitParts
    <3>9. SplitOf(t).part = c \o d
      BY <3>2, <3>4, <3>5, <3>6, PartGrows
    <3>10. /\ SplitOf(a \o u).lines = SplitOf(a).lines
           /\ SplitOf(a \o u).part = SplitOf(a).part \o c
      BY <1>1, <3>2, <3>7, PartGrows
    <3> HIDE DEF c, d
    <3>11. Len(c) \in 0 .. Len(c \o d) /\ SubSeq(c \o d, 1, Len(c)) = c
      BY <3>8, Fore
    <3>12. /\ Split'.lines = Split.lines
           /\ Split'.part = Split.part \o c
      BY <1>6, <2>5, <3>3, <3>10
    <3> DEFINE l == SplitOf(t).part
    <3>13. Len(c) \in 0 .. Len(l) /\ SubSeq(l, 1, Len(c)) = c
      BY <3>9, <3>11
    <3>14. QED
      BY <1>9, <2>4, <3>12, <3>13 DEF Printed
  <2>8. QED
    BY <2>6, <2>7
<1>10. QED
  BY <1>8, <1>9

\* What is left of the end of a line.
LEMMA Rest ==
  ASSUME NEW s \in Seq(Bytes), NEW n \in 1 .. Len(s),
         s[Len(s)] = Newline, \A i \in 1 .. Len(s) - 1 : s[i] # Newline
  PROVE  LET r == SubSeq(s, n + 1, Len(s))
         IN  r # <<>> => /\ r[Len(r)] = Newline
                         /\ \A i \in 1 .. Len(r) - 1 : r[i] # Newline
<1> DEFINE r == SubSeq(s, n + 1, Len(s))
<1>1. Len(s) \in Nat /\ n \in Nat /\ 1 <= n /\ n <= Len(s)
  BY LenProperties
<1>2. \A i \in n + 1 .. Len(s) : s[i] \in Bytes
  BY <1>1, ElementOfSeq
<1>3. /\ r \in Seq(Bytes)
      /\ Len(r) = IF n + 1 <= Len(s) THEN Len(s) - n ELSE 0
      /\ \A i \in 1 .. Len(s) - n : r[i] = s[n + i]
  BY <1>1, <1>2, SubSeqProperties
<1> HIDE DEF r
<1>4. SUFFICES ASSUME r # <<>>
               PROVE  /\ r[Len(r)] = Newline
                      /\ \A i \in 1 .. Len(r) - 1 : r[i] # Newline
  BY DEF r
<1>5. Len(r) # 0
  BY <1>3, <1>4, EmptySeq
<1>6. Len(r) = Len(s) - n /\ n < Len(s)
  BY <1>1, <1>3, <1>5
<1>7. r[Len(r)] = s[Len(s)]
  BY <1>1, <1>3, <1>6
<1>8. \A i \in 1 .. Len(r) - 1 :
        i \in 1 .. Len(s) - n /\ n + i \in 1 .. Len(s) - 1
  BY <1>1, <1>6
<1>9. QED
  BY <1>3, <1>7, <1>8

LEMMA PushStep ==
  ASSUME LineInv, QueueInv, Push
  PROVE  QueueInv' /\ Split' = Split
<1> DEFINE m == Least(Room, Len(todo))
<1>1. PICK n \in 1 .. m : /\ net' = net \o SubSeq(todo, 1, n)
                          /\ todo' = SubSeq(todo, n + 1, Len(todo))
  BY DEF Push
<1>2. /\ line \in Seq(Bytes) /\ net \in Seq(Bytes) /\ todo \in Seq(Bytes)
      /\ Len(net) \in Nat /\ Len(todo) \in Nat
      /\ Split = SplitOf((line \o net) \o todo)
      /\ Split' = SplitOf((line' \o net') \o todo')
  BY Streams
<1>3. /\ todo # <<>> /\ line' = line /\ reading' = reading
      /\ down' = down /\ closed' = closed
  BY DEF Push, reader
<1>4. /\ n \in Nat /\ 1 <= n /\ n <= Len(todo) /\ n <= Capacity - Len(net)
      /\ Capacity \in Nat
  <2>1. Capacity \in Nat
    BY LineIOAssumption DEF LineIOAssumption
  <2>2. m \in Int /\ m <= Len(todo) /\ m <= Capacity - Len(net)
    BY <1>2, <2>1 DEF Least, Room
  <2> HIDE DEF m
  <2>3. QED
    BY <1>2, <2>1, <2>2
<1> DEFINE p == SubSeq(todo, 1, n)
           r == SubSeq(todo, n + 1, Len(todo))
<1>5. p \in Seq(Bytes) /\ Len(p) = n
  <2>1. \A i \in 1 .. n : todo[i] \in Bytes
    BY <1>2, <1>4, ElementOfSeq
  <2>2. QED
    BY <1>4, <2>1, SubSeqProperties
<1>6. r \in Seq(Bytes)
  <2>1. \A i \in n + 1 .. Len(todo) : todo[i] \in Bytes
    BY <1>2, <1>4, ElementOfSeq
  <2>2. QED
    BY <1>2, <1>4, <2>1, SubSeqProperties
<1>7. todo = p \o r
  <2>1. /\ 1 \in 1 .. Len(todo) + 1 /\ n \in 1 - 1 .. Len(todo)
        /\ Len(todo) \in n .. Len(todo)
    BY <1>2, <1>4
  <2>2. p \o r = SubSeq(todo, 1, Len(todo))
    BY <1>2, <2>1, ConcatAdjacentSubSeq, Zenon
  <2>3. QED
    BY <1>2, <2>2, SubSeqFull
<1>8. r # <<>> => /\ r[Len(r)] = Newline
                  /\ \A i \in 1 .. Len(r) - 1 : r[i] # Newline
  <2>1. /\ todo[Len(todo)] = Newline
        /\ \A i \in 1 .. Len(todo) - 1 : todo[i] # Newline
    BY <1>3 DEF QueueInv
  <2>2. n \in 1 .. Len(todo)
    BY <1>2, <1>4
  <2>3. QED
    BY <1>2, <2>1, <2>2, Rest
<1> HIDE DEF p, r
<1>9. net' = net \o p /\ todo' = r
  BY <1>1 DEF p, r
<1>10. Len(net') <= Capacity
  <2>1. Len(net') = Len(net) + n
    BY <1>2, <1>5, <1>9, ConcatProperties
  <2>2. QED
    BY <1>2, <1>4, <2>1
<1>11. QueueInv'
  BY <1>3, <1>8, <1>9, <1>10 DEF QueueInv
<1>12. (line \o (net \o p)) \o r = (line \o net) \o (p \o r)
  <2>1. line \o net \in Seq(Bytes)
    BY <1>2, ConcatProperties
  <2>2. line \o (net \o p) = (line \o net) \o p
    <3>1. line \in Seq(Bytes) /\ net \in Seq(Bytes) /\ p \in Seq(Bytes)
      BY <1>2, <1>5
    <3>2. QED
      BY <3>1, Associates
  <2>3. ((line \o net) \o p) \o r = (line \o net) \o (p \o r)
    BY <1>5, <1>6, <2>1, ConcatAssociative
  <2>4. QED
    BY <2>2, <2>3
<1>13. Split' = Split
  BY <1>2, <1>3, <1>7, <1>9, <1>12
<1>14. QED
  BY <1>11, <1>13

\* The end of a line as a line before its end.
LEMMA Body ==
  ASSUME NEW s \in Seq(Bytes), s # <<>>,
         s[Len(s)] = Newline, \A i \in 1 .. Len(s) - 1 : s[i] # Newline
  PROVE  \E u \in Seq(Bytes) :
           s = Append(u, Newline) /\ \A i \in 1 .. Len(u) : u[i] # Newline
<1>1. PICK u \in Seq(Bytes), c \in Bytes : s = Append(u, c)
  BY SequenceEmptyOrAppend
<1>2. /\ Len(s) = Len(u) + 1 /\ s[Len(u) + 1] = c
      /\ \A i \in 1 .. Len(u) : s[i] = u[i]
      /\ Len(u) \in Nat
  BY <1>1, AppendProperties, LenProperties
<1>3. c = Newline
  BY <1>2
<1>4. \A i \in 1 .. Len(u) : u[i] # Newline
  BY <1>2
<1>5. QED
  BY <1>1, <1>3, <1>4

\* A line that was to be printed is cut off.
Broken ==
  \/ Split' = Split
  \/ /\ ~down /\ Split.lines # <<>>
     /\ Split'.lines = SubSeq(Split.lines, 1, Len(Split.lines) - 1)
     /\ \E n \in 0 .. Len(Split.lines[Len(Split.lines)]) :
          Split'.part = SubSeq(Split.lines[Len(Split.lines)], 1, n)

LEMMA CloseStep ==
  ASSUME LineInv, QueueInv, Close
  PROVE  QueueInv' /\ Broken
<1>1. /\ line \in Seq(Bytes) /\ net \in Seq(Bytes) /\ todo \in Seq(Bytes)
      /\ line \o net \in Seq(Bytes)
      /\ Split = SplitOf((line \o net) \o todo)
      /\ Split' = SplitOf((line' \o net') \o todo')
  BY Streams
<1>2. /\ line' = line /\ net' = net /\ reading' = reading /\ down' = down
      /\ todo' = <<>>
  BY DEF Close, reader
<1>3. QueueInv'
  BY <1>2 DEF QueueInv
<1> DEFINE a == line \o net
<1>4. Split' = SplitOf(a)
  <2>1. a \o <<>> = a
    BY <1>1, Units
  <2>2. QED
    BY <1>1, <1>2, <2>1
<1>5. CASE todo = <<>>
  <2>1. Split' = Split
    BY <1>1, <1>2, <1>5
  <2>2. QED
    BY <1>3, <2>1 DEF Broken
<1>6. CASE todo # <<>>
  <2>1. PICK u \in Seq(Bytes) :
          todo = Append(u, Newline) /\ \A i \in 1 .. Len(u) : u[i] # Newline
    <3>1. /\ todo[Len(todo)] = Newline
          /\ \A i \in 1 .. Len(todo) - 1 : todo[i] # Newline
      BY <1>6 DEF QueueInv
    <3>2. QED
      BY <1>1, <1>6, <3>1, Body
  <2> DEFINE L == SplitOf(a).lines
             p == SplitOf(a).part
             q == SplitOf(u).part
             e == p \o q
  <2>2. a \in Seq(Bytes)
    BY <1>1
  <2>3. Split.lines = Append(L, e)
    <3> HIDE DEF a
    <3>1. SplitOf(a \o Append(u, Newline)).lines = Append(L, e)
      BY <2>1, <2>2, LineEnds
    <3>2. QED
      BY <1>1, <2>1, <3>1 DEF a
  <2> HIDE DEF a
  <2>4. L \in Seq(Seq(Bytes)) /\ p \in Seq(Bytes) /\ q \in Seq(Bytes)
    BY <2>1, <2>2, SplitType, SplitParts
  <2> HIDE DEF L, p, q
  <2>5. e \in Seq(Bytes)
    BY <2>4, ConcatProperties
  <2>6. Len(p) \in 0 .. Len(e) /\ SubSeq(e, 1, Len(p)) = p
    BY <2>4, Fore
  <2> HIDE DEF e
  <2> DEFINE z == Append(L, e)
  <2>7. /\ z # <<>> /\ Len(z) = Len(L) + 1 /\ Len(L) \in Nat
        /\ z[Len(z)] = e
    BY <2>4, <2>5, AppendProperties, LenProperties
  <2>8. SubSeq(z, 1, Len(L)) = L
    <3>1. z = L \o <<e>> /\ <<e>> \in Seq(Seq(Bytes))
      BY <2>4, <2>5, AppendIsConcat, One
    <3>2. QED
      BY <2>4, <3>1, Fore
  <2> HIDE DEF z
  <2>9. Len(z) - 1 = Len(L)
    BY <2>7
  <2>10. ~down
    BY <1>6 DEF QueueInv
  <2>11. Split.lines = z
    BY <2>3 DEF z
  <2>12. Split'.lines = L /\ Split'.part = p
    BY <1>4 DEF L, p
  <2>13. Broken
    BY <2>6, <2>7, <2>8, <2>9, <2>10, <2>11, <2>12 DEF Broken
  <2>14. QED
    BY <1>3, <2>13
<1>7. QED
  BY <1>5, <1>6

\* A byte that is sent alone belongs to a line without an end, or is ignored.
LEMMA DripStep ==
  ASSUME LineInv, QueueInv, NEW c \in Bytes, Drip(c)
  PROVE  /\ QueueInv'
         /\ Split'.lines = Split.lines
         /\ Split'.part = IF c = Return THEN Split.part ELSE Append(Split.part, c)
<1>1. /\ line \in Seq(Bytes) /\ net \in Seq(Bytes)
      /\ line \o net \in Seq(Bytes) /\ Len(net) \in Nat
      /\ Split = SplitOf((line \o net) \o todo)
      /\ Split' = SplitOf((line' \o net') \o todo')
  BY Streams
<1>2. /\ line' = line /\ net' = Append(net, c) /\ reading' = reading
      /\ down' = down /\ todo = <<>> /\ todo' = <<>> /\ c # Newline
      /\ closed' = closed
  BY DEF Drip, reader
<1>3. Capacity \in Nat
  BY LineIOAssumption DEF LineIOAssumption
<1>4. Len(net') = Len(net) + 1 /\ net' \in Seq(Bytes)
  BY <1>1, <1>2, AppendProperties
<1>5. Len(net') <= Capacity
  BY <1>1, <1>3, <1>4 DEF Drip, Room
<1>6. QueueInv'
  BY <1>2, <1>5 DEF QueueInv
<1> DEFINE a == line \o net
<1>7. a \in Seq(Bytes)
  BY <1>1
<1>8. line \o Append(net, c) = Append(a, c)
  BY <1>1, AppendToConcat
<1>9. Append(a, c) \in Seq(Bytes)
  BY <1>7, AppendProperties
<1>10. Split = SplitOf(a)
  <2>1. a \o <<>> = a
    BY <1>7, Units
  <2>2. QED
    BY <1>1, <1>2, <2>1
<1>11. Split' = SplitOf(Append(a, c))
  <2>1. Append(a, c) \o <<>> = Append(a, c)
    BY <1>9, Units
  <2>2. QED
    BY <1>1, <1>2, <1>8, <2>1
<1> HIDE DEF a
<1>12. Split' = With(Split, c)
  BY <1>7, <1>10, <1>11, SplitAppend
<1>13. QED
  BY <1>2, <1>6, <1>12 DEF With

LEMMA BeginReadStep ==
  ASSUME LineInv, QueueInv, BeginRead
  PROVE  QueueInv' /\ Split' = Split
<1>1. /\ ~reading /\ line' = <<>> /\ net' = net /\ todo' = todo
      /\ down' = down /\ closed' = closed
  BY DEF BeginRead, writer
<1>2. line = <<>>
  BY <1>1 DEF QueueInv
<1>3. Split' = Split
  BY <1>1, <1>2, Streams
<1>4. QED
  BY <1>1, <1>2, <1>3 DEF QueueInv

\* A read goes on, or returns the first line.
Taken ==
  \/ Split' = Split /\ result' = result
  \/ /\ Split.lines # <<>>
     /\ result' = Head(Split.lines)
     /\ Split'.lines = Tail(Split.lines) /\ Split'.part = Split.part

LEMMA ReadByteStep ==
  ASSUME LineInv, QueueInv, ReadByte
  PROVE  QueueInv' /\ Taken
<1> DEFINE c == Head(net)
           r == Tail(net)
           b == r \o todo
<1>1. /\ line \in Seq(Bytes) /\ net \in Seq(Bytes) /\ todo \in Seq(Bytes)
      /\ Len(line) \in Nat /\ Len(net) \in Nat
      /\ Split = SplitOf((line \o net) \o todo)
      /\ Split' = SplitOf((line' \o net') \o todo')
  BY Streams
<1>2. /\ net # <<>> /\ net' = r /\ todo' = todo /\ down' = down
      /\ closed' = closed /\ reading
  BY DEF ReadByte
<1>3. /\ c \in Bytes /\ r \in Seq(Bytes) /\ Len(r) = Len(net) - 1
      /\ net = <<c>> \o r
  BY <1>1, <1>2, HeadTailProperties
<1>4. Newline # Return /\ Newline \in Bytes /\ Capacity \in Nat
  BY LineIOAssumption DEF LineIOAssumption, Bytes
<1>5. /\ c = Return => line' = line /\ result' = result /\ reading' = reading
      /\ c = Newline => line' = <<>> /\ result' = line
      /\ c # Return /\ c # Newline =>
           line' = Append(line, c) /\ result' = result /\ reading' = reading
  BY <1>4, Zenon DEF ReadByte, Returns, Ignored
<1> HIDE DEF c, r
<1>6. b \in Seq(Bytes)
  BY <1>1, <1>3, ConcatProperties
<1>7. (line \o net) \o todo = Append(line, c) \o b
  <2>1. <<c>> \in Seq(Bytes) /\ line \o <<c>> \in Seq(Bytes)
    BY <1>1, <1>3, One, ConcatProperties
  <2>2. line \o (<<c>> \o r) = (line \o <<c>>) \o r
    BY <1>1, <1>3, <2>1, ConcatAssociative
  <2>3. ((line \o <<c>>) \o r) \o todo = (line \o <<c>>) \o (r \o todo)
    BY <1>1, <1>3, <2>1, ConcatAssociative
  <2>4. line \o <<c>> = Append(line, c)
    BY <1>1, <1>3, AppendIsConcat
  <2>5. QED
    BY <1>3, <2>2, <2>3, <2>4
<1>8. line' \in Seq(Bytes) => (line' \o r) \o todo = line' \o b
  BY <1>1, <1>3, ConcatAssociative
<1>9. Len(net') <= Capacity
  BY <1>1, <1>2, <1>3, <1>4 DEF QueueInv
<1>10. \A i \in 1 .. Len(line) : line[i] # Newline /\ line[i] # Return
  BY DEF QueueInv
<1> HIDE DEF b
<1>11. CASE c = Return
  <2>1. line' = line /\ result' = result /\ reading' = reading
    BY <1>5, <1>11
  <2>2. SplitOf(Append(line, c)) = SplitOf(line)
    BY <1>1, <1>3, <1>11, SplitAppend DEF With
  <2>3. Append(line, c) \in Seq(Bytes)
    BY <1>1, <1>3, AppendProperties
  <2>4. /\ SplitOf(Append(line, c) \o b)
             = Join(SplitOf(Append(line, c)), SplitOf(b))
        /\ SplitOf(line \o b) = Join(SplitOf(line), SplitOf(b))
    BY <1>1, <1>6, <2>3, Joining
  <2>5. Split' = SplitOf(line \o b)
    BY <1>1, <1>2, <1>8, <2>1
  <2>6. Split' = Split
    BY <1>1, <1>7, <2>2, <2>4, <2>5
  <2>7. QueueInv'
    BY <1>2, <1>9, <1>10, <2>1 DEF QueueInv
  <2>8. QED
    BY <2>1, <2>6, <2>7 DEF Taken
<1>12. CASE c = Newline
  <2>1. line' = <<>> /\ result' = line
    BY <1>5, <1>12
  <2>2. /\ SplitOf(Append(line, Newline) \o b).lines
             = <<line>> \o SplitOf(b).lines
        /\ SplitOf(Append(line, Newline) \o b).part = SplitOf(b).part
    BY <1>1, <1>6, <1>10, FirstLine
  <2>3. /\ Split.lines = <<line>> \o SplitOf(b).lines
        /\ Split.part = SplitOf(b).part
    BY <1>1, <1>7, <1>12, <2>2
  <2>4. Split' = SplitOf(b)
    <3>1. <<>> \o b = b /\ <<>> \in Seq(Bytes)
      BY <1>6, Units, EmptySeq
    <3>2. QED
      BY <1>1, <1>2, <1>8, <2>1, <3>1
  <2> DEFINE m == SplitOf(b).lines
  <2>5. m \in Seq(Seq(Bytes))
    BY <1>6, SplitType, SplitParts
  <2> HIDE DEF m
  <2>6. /\ <<line>> \o m # <<>>
        /\ Head(<<line>> \o m) = line /\ Tail(<<line>> \o m) = m
    BY <1>1, <2>5
  <2>7. Taken
    BY <2>1, <2>3, <2>4, <2>6 DEF Taken, m
  <2>8. QueueInv'
    BY <1>2, <1>9, <2>1, EmptySeq DEF QueueInv
  <2>9. QED
    BY <2>7, <2>8
<1>13. CASE c # Return /\ c # Newline
  <2>1. line' = Append(line, c) /\ result' = result /\ reading' = reading
    BY <1>5, <1>13
  <2>2. /\ Append(line, c) \in Seq(Bytes)
        /\ Len(Append(line, c)) = Len(line) + 1
        /\ \A i \in 1 .. Len(line) : Append(line, c)[i] = line[i]
        /\ Append(line, c)[Len(line) + 1] = c
    BY <1>1, <1>3, AppendProperties
  <2>3. Split' = Split
    BY <1>1, <1>2, <1>7, <1>8, <2>1, <2>2
  <2>4. \A i \in 1 .. Len(line') : line'[i] # Newline /\ line'[i] # Return
    BY <1>1, <1>10, <1>13, <2>1, <2>2
  <2>5. QueueInv'
    BY <1>2, <1>9, <2>1, <2>4 DEF QueueInv
  <2>6. QED
    BY <2>1, <2>3, <2>5 DEF Taken
<1>14. QED
  BY <1>11, <1>12, <1>13

\* At the end of the connection what was read of a line is dropped.
Ended ==
  /\ closed /\ Split.lines = <<>> /\ result' = <<>>
  /\ Split'.lines = <<>> /\ Split'.part = <<>>

LEMMA ReadEOFStep ==
  ASSUME LineInv, QueueInv, ReadEOF
  PROVE  QueueInv' /\ Ended
<1>1. /\ net = <<>> /\ closed /\ reading' = FALSE /\ result' = <<>>
      /\ line' = <<>> /\ down' = down /\ net' = net /\ todo' = todo
      /\ closed' = closed
  BY DEF ReadEOF, Returns, writer
<1>2. /\ line \in Seq(Bytes)
      /\ Split = SplitOf((line \o net) \o todo)
      /\ Split' = SplitOf((line' \o net') \o todo')
  BY Streams
<1>3. todo = <<>>
  BY <1>1 DEF QueueInv
<1>4. Split = SplitOf(line)
  <2>1. line \o <<>> = line
    BY <1>2, Units
  <2>2. QED
    BY <1>1, <1>2, <1>3, <2>1
<1>5. Split.lines = <<>>
  BY <1>2, <1>4, NoNewline DEF QueueInv
<1>6. Split' = SplitOf(<<>>)
  <2>1. <<>> \o <<>> = <<>>
    BY <1>2, Units, EmptySeq
  <2>2. QED
    BY <1>1, <1>2, <1>3, <2>1
<1>7. Split'.lines = <<>> /\ Split'.part = <<>>
  BY <1>6, SplitEmpty DEF NoBytes
<1>8. QueueInv'
  BY <1>1, EmptySeq DEF QueueInv
<1>9. QED
  BY <1>1, <1>5, <1>7, <1>8 DEF Ended

\* A reset loses what was not read.
LEMMA ReadErrorStep ==
  ASSUME LineInv, QueueInv, ReadError
  PROVE  QueueInv' /\ Split'.lines = <<>> /\ Split'.part = <<>>
<1>1. /\ closed /\ reading' = FALSE /\ line' = <<>> /\ down' = down
      /\ net' = <<>> /\ todo' = todo /\ closed' = closed
  BY DEF ReadError, Returns
<1>2. Split' = SplitOf((line' \o net') \o todo')
  BY Streams
<1>3. todo = <<>>
  BY <1>1 DEF QueueInv
<1>4. Split' = SplitOf(<<>>)
  <2>1. <<>> \o <<>> = <<>>
    BY Units, EmptySeq
  <2>2. QED
    BY <1>1, <1>2, <1>3, <2>1
<1>5. Split'.lines = <<>> /\ Split'.part = <<>>
  BY <1>4, SplitEmpty DEF NoBytes
<1>6. Len(net') <= Capacity
  BY <1>1, EmptySeq, LineIOAssumption DEF LineIOAssumption
<1>7. QueueInv'
  BY <1>1, <1>3, <1>6, EmptySeq DEF QueueInv
<1>8. QED
  BY <1>5, <1>7

\* What was read of a line is lost when the rest of it does not arrive.
Lost ==
  /\ ~down /\ result' = NoLine
  /\ \/ Split'.lines = Split.lines /\ Split'.part = Split.part
     \/ /\ Split.lines # <<>>
        /\ \E n \in 1 .. Len(Head(Split.lines)) :
             Split'.lines =
               <<SubSeq(Head(Split.lines), n + 1, Len(Head(Split.lines)))>>
                 \o Tail(Split.lines)
        /\ Split'.part = Split.part
     \/ /\ Split.lines = <<>>
        /\ \E n \in 1 .. Len(Split.part) :
             Split'.part = SubSeq(Split.part, n + 1, Len(Split.part))
        /\ Split'.lines = Split.lines

LEMMA ReadTimeOutStep ==
  ASSUME LineInv, QueueInv, ReadTimeOut
  PROVE  QueueInv' /\ Lost
<1>1. /\ net = <<>> /\ ~down /\ reading' = FALSE /\ result' = NoLine
      /\ line' = <<>> /\ down' = down /\ net' = net /\ todo' = todo
      /\ closed' = closed
  BY DEF ReadTimeOut, Returns, writer, TimesOut
<1>2. /\ line \in Seq(Bytes) /\ todo \in Seq(Bytes) /\ Len(line) \in Nat
      /\ Split = SplitOf((line \o net) \o todo)
      /\ Split' = SplitOf((line' \o net') \o todo')
      /\ Split \in Splits
  BY Streams
<1>3. /\ <<>> \in Seq(Bytes) /\ <<>> \o <<>> = <<>> /\ line \o <<>> = line
      /\ <<>> \o todo = todo
  BY <1>2, Units, EmptySeq
<1>4. Split = SplitOf(line \o todo) /\ Split' = SplitOf(<<>> \o todo)
  BY <1>1, <1>2, <1>3
<1>5. QueueInv'
  BY <1>1, EmptySeq DEF QueueInv
<1>6. \A i \in 1 .. Len(line) : line[i] # Newline /\ line[i] # Return
  BY DEF QueueInv
<1>7. SplitOf(line).lines = <<>> /\ SplitOf(line).part = line
  BY <1>2, <1>6, NoNewline
<1>8. SplitOf(<<>>).lines = <<>> /\ SplitOf(<<>>).part = <<>>
  BY SplitEmpty DEF NoBytes
<1>9. CASE line = <<>>
  <2>1. Split' = Split
    BY <1>4, <1>9
  <2>2. QED
    BY <1>1, <1>5, <2>1 DEF Lost
<1>10. ASSUME line # <<>> PROVE Len(line) >= 1 /\ Len(line) \in 1 .. Len(line)
  BY <1>2, <1>10, EmptySeq
<1>11. CASE line # <<>> /\ todo = <<>>
  <2>1. Split.lines = <<>> /\ Split.part = line
    BY <1>3, <1>4, <1>7, <1>11
  <2>2. Split'.lines = <<>> /\ Split'.part = <<>>
    BY <1>3, <1>4, <1>8, <1>11
  <2>3. SubSeq(line, Len(line) + 1, Len(line)) = <<>>
    BY <1>2, SubSeqEmpty
  <2>4. Lost
    BY <1>1, <1>10, <1>11, <2>1, <2>2, <2>3 DEF Lost
  <2>5. QED
    BY <1>5, <2>4
<1>12. CASE line # <<>> /\ todo # <<>>
  <2>1. PICK u \in Seq(Bytes) :
          todo = Append(u, Newline) /\ \A i \in 1 .. Len(u) : u[i] # Newline
    <3>1. /\ todo[Len(todo)] = Newline
          /\ \A i \in 1 .. Len(todo) - 1 : todo[i] # Newline
      BY <1>12 DEF QueueInv
    <3>2. QED
      BY <1>2, <1>12, <3>1, Body
  <2> DEFINE q == SplitOf(u).part
             e == line \o q
  <2>2. q \in Seq(Bytes)
    BY <2>1, SplitType, SplitParts
  <2>3. Split.lines = Append(<<>>, e) /\ Split.part = <<>>
    <3>1. /\ SplitOf(line \o Append(u, Newline)).lines =
               Append(SplitOf(line).lines,
                      SplitOf(line).part \o SplitOf(u).part)
          /\ SplitOf(line \o Append(u, Newline)).part = <<>>
      BY <1>2, <2>1, LineEnds
    <3>2. QED
      BY <1>4, <1>7, <2>1, <3>1
  <2>4. Split'.lines = Append(<<>>, <<>> \o q) /\ Split'.part = <<>>
    <3>1. /\ SplitOf(<<>> \o Append(u, Newline)).lines =
               Append(SplitOf(<<>>).lines,
                      SplitOf(<<>>).part \o SplitOf(u).part)
          /\ SplitOf(<<>> \o Append(u, Newline)).part = <<>>
      BY <1>3, <2>1, LineEnds
    <3>2. QED
      BY <1>4, <1>8, <2>1, <3>1
  <2> HIDE DEF q
  <2>5. e \in Seq(Bytes) /\ <<>> \o q = q
    BY <1>2, <2>2, ConcatProperties, Units
  <2>6. Len(line) \in 0 .. Len(e) /\ SubSeq(e, Len(line) + 1, Len(e)) = q
    BY <1>2, <2>2, Fore
  <2> HIDE DEF e
  <2>7. /\ Append(<<>>, e) = <<e>> /\ <<e>> # <<>>
        /\ Head(<<e>>) = e /\ Tail(<<e>>) = <<>>
        /\ Append(<<>>, q) = <<q>> /\ <<q>> \in Seq(Seq(Bytes))
    BY <2>2, <2>5, One
  <2>8. <<q>> \o <<>> = <<q>>
    BY <2>7, Units
  <2>9. Len(line) \in 1 .. Len(e)
    BY <1>2, <1>10, <1>12, <2>6
  <2>10. /\ Split.lines # <<>> /\ Head(Split.lines) = e
         /\ Split'.lines = <<SubSeq(e, Len(line) + 1, Len(e))>>
                             \o Tail(Split.lines)
    BY <2>3, <2>4, <2>5, <2>6, <2>7, <2>8
  <2>11. Split'.part = Split.part
    BY <2>3, <2>4
  <2>12. Lost
    BY <1>1, <2>9, <2>10, <2>11 DEF Lost
  <2>13. QED
    BY <1>5, <2>12
<1>13. QED
  BY <1>9, <1>11, <1>12

LEMMA InitQueue == Init => QueueInv /\ Channel!Init
<1> SUFFICES ASSUME Init PROVE QueueInv /\ Channel!Init
  OBVIOUS
<1>1. /\ net = <<>> /\ todo = <<>> /\ line = <<>> /\ result = NoLine
      /\ down \in BOOLEAN /\ closed = FALSE
  BY DEF Init, InitIO
<1>2. Len(<<>>) = 0 /\ Capacity \in Nat
  BY EmptySeq, LineIOAssumption DEF LineIOAssumption
<1>3. QueueInv
  BY <1>1, <1>2 DEF QueueInv
<1>4. Stream = <<>>
  <2>1. <<>> \o <<>> = <<>>
    BY Units, EmptySeq
  <2>2. QED
    BY <1>1, <2>1 DEF Stream
<1>5. Split.lines = <<>> /\ Split.part = <<>>
  BY <1>4, SplitEmpty DEF Split, NoBytes
<1>6. QED
  BY <1>1, <1>3, <1>5 DEF Channel!Init

(***************************************************************************)
(* Each step of the two ends is one of the queue, or none.                 *)
(***************************************************************************)
LEMMA ChannelStep ==
  LineInv /\ QueueInv /\ [Next]_vars =>
    QueueInv' /\ [Channel!Next]_(Channel!vars)
<1> SUFFICES ASSUME LineInv, QueueInv, [Next]_vars
             PROVE  QueueInv' /\ [Channel!Next]_(Channel!vars)
  OBVIOUS
<1>1. ASSUME UNCHANGED io PROVE QueueInv' /\ [Channel!Next]_(Channel!vars)
  <2>1. /\ net' = net /\ todo' = todo /\ line' = line /\ result' = result
        /\ down' = down /\ closed' = closed /\ reading' = reading
    BY <1>1 DEF io, writer, reader
  <2>2. Split' = Split
    BY <2>1 DEF Split, Stream
  <2>3. QED
    BY <2>1, <2>2 DEF QueueInv, Channel!vars
<1>2. ASSUME NEW t \in Texts, SocketPrintf(t)
      PROVE  QueueInv' /\ [Channel!Next]_(Channel!vars)
  <2>1. QueueInv' /\ Printed(t)
    BY <1>2, PrintStep
  <2> DEFINE l == SplitOf(t).part
  <2>2. l \in {SplitOf(s).part : s \in Texts}
    OBVIOUS
  <2>3. ~closed /\ down' = down /\ closed' = closed /\ result' = result
    BY <1>2 DEF SocketPrintf, reader
  <2>4. Channel!PrintLine(l) \/ Channel!Cut(l)
    BY <2>1, <2>3 DEF Printed, Channel!PrintLine, Channel!Cut, Channel!Prefix
  <2> HIDE DEF l
  <2>5. Channel!Next
    BY <2>2, <2>4 DEF Channel!Next
  <2>6. QED
    BY <2>1, <2>5
<1>3. ASSUME Push PROVE QueueInv' /\ [Channel!Next]_(Channel!vars)
  <2>1. QueueInv' /\ Split' = Split
    BY <1>3, PushStep
  <2>2. down' = down /\ closed' = closed /\ result' = result
    BY <1>3 DEF Push, reader
  <2>3. QED
    BY <2>1, <2>2 DEF Channel!vars
<1>4. ASSUME Close PROVE QueueInv' /\ [Channel!Next]_(Channel!vars)
  <2>1. QueueInv' /\ Broken
    BY <1>4, CloseStep
  <2>2. ~closed /\ closed' = TRUE /\ down' = down /\ result' = result
    BY <1>4 DEF Close, reader
  <2>3. Channel!Close
    BY <2>1, <2>2 DEF Broken, Channel!Close, Channel!Prefix
  <2>4. QED
    BY <2>1, <2>3 DEF Channel!Next
<1>5. ASSUME BeginRead PROVE QueueInv' /\ [Channel!Next]_(Channel!vars)
  <2>1. QueueInv' /\ Split' = Split
    BY <1>5, BeginReadStep
  <2>2. down' = down /\ closed' = closed /\ result' = result
    BY <1>5 DEF BeginRead, writer
  <2>3. QED
    BY <2>1, <2>2 DEF Channel!vars
<1>6. ASSUME ReadByte PROVE QueueInv' /\ [Channel!Next]_(Channel!vars)
  <2>1. QueueInv' /\ Taken
    BY <1>6, ReadByteStep
  <2>2. down' = down /\ closed' = closed
    BY <1>6 DEF ReadByte
  <2>3. CASE Split' = Split /\ result' = result
    BY <2>1, <2>2, <2>3 DEF Channel!vars
  <2>4. CASE ~(Split' = Split /\ result' = result)
    <3>1. Channel!Take
      BY <2>1, <2>2, <2>4 DEF Taken, Channel!Take
    <3>2. QED
      BY <2>1, <3>1 DEF Channel!Next
  <2>5. QED
    BY <2>3, <2>4
<1>7. ASSUME ReadEOF PROVE QueueInv' /\ [Channel!Next]_(Channel!vars)
  <2>1. QueueInv' /\ Ended
    BY <1>7, ReadEOFStep
  <2>2. down' = down /\ closed' = closed
    BY <1>7 DEF ReadEOF, writer
  <2>3. Channel!TakeEnd
    BY <2>1, <2>2 DEF Ended, Channel!TakeEnd
  <2>4. QED
    BY <2>1, <2>3 DEF Channel!Next
<1>8. ASSUME ReadTimeOut PROVE QueueInv' /\ [Channel!Next]_(Channel!vars)
  <2>1. QueueInv' /\ Lost
    BY <1>8, ReadTimeOutStep
  <2>2. down' = down /\ closed' = closed
    BY <1>8 DEF ReadTimeOut, writer
  <2>3. Channel!TimeOut
    BY <2>1, <2>2 DEF Lost, Channel!TimeOut, Channel!Suffix
  <2>4. QED
    BY <2>1, <2>3 DEF Channel!Next
<1>9. ASSUME NEW c \in Bytes, Drip(c)
      PROVE  QueueInv' /\ [Channel!Next]_(Channel!vars)
  <2>1. /\ QueueInv'
        /\ Split'.lines = Split.lines
        /\ Split'.part = IF c = Return THEN Split.part ELSE Append(Split.part, c)
    BY <1>9, DripStep
  <2>2. /\ ~down /\ ~closed /\ c # Newline
        /\ down' = down /\ closed' = closed /\ result' = result
    BY <1>9 DEF Drip, reader
  <2>3. CASE c = Return
    BY <2>1, <2>2, <2>3 DEF Channel!vars
  <2>4. CASE c # Return
    <3>1. Channel!PrintByte(c)
      BY <2>1, <2>2, <2>4 DEF Channel!PrintByte
    <3>2. c \in Bytes \ {Newline, Return}
      BY <2>2, <2>4
    <3>3. QED
      BY <2>1, <3>1, <3>2 DEF Channel!Next
  <2>5. QED
    BY <2>3, <2>4
<1>10. ASSUME ReadError PROVE QueueInv' /\ [Channel!Next]_(Channel!vars)
  <2>1. QueueInv' /\ Split'.lines = <<>> /\ Split'.part = <<>>
    BY <1>10, ReadErrorStep
  <2>2. /\ closed /\ down' = down /\ closed' = closed /\ result' = NoLine
    BY <1>10 DEF ReadError, Returns
  <2>3. Channel!Reset
    BY <2>1, <2>2 DEF Channel!Reset
  <2>4. QED
    BY <2>1, <2>3 DEF Channel!Next
<1>11. QED
  BY <1>1, <1>2, <1>3, <1>4, <1>5, <1>6, <1>7, <1>8, <1>9, <1>10
     DEF Next, Start, Connect, Transfer, NextIO, Read, vars

(***************************************************************************)
(* ImplementsLines for all lines, pieces and sizes of the kernel's         *)
(* buffers: SocketPrintf and SocketReadLine are the queue of lines, with   *)
(* the exceptions that LineChannel names.                                  *)
(***************************************************************************)
THEOREM LinesImplemented == Spec => ImplementsLines
<1>1. LineInv /\ QueueInv /\ [Next]_vars =>
        QueueInv' /\ [Channel!Next]_(Channel!vars)
  BY ChannelStep
<1>2. QED
  BY InitLine, InitQueue, LineKept, <1>1, PTL
     DEF Spec, ImplementsLines, Channel!Spec

----------------------------------------------------------------------------
(* Masks of whole octets.                                                  *)

LEMMA Grow ==
  ASSUME NEW b \in Nat, NEW p \in Nat, NEW q \in Nat, p <= q
  PROVE  p * b \in Nat /\ p * b <= q * b
  OBVIOUS

LEMMA Divided ==
  ASSUME NEW b \in Nat, b # 0, NEW i \in Nat
  PROVE  /\ i % b \in 0 .. b - 1 /\ i % b <= i
         /\ \E q \in Nat : q * b \in Nat /\ i = q * b + (i % b)
<1> DEFINE q == i \div b
           r == i % b
<1>1. q \in Nat /\ r \in 0 .. b - 1 /\ i = q * b + r
  OBVIOUS
<1> HIDE DEF q
<1>2. q * b \in Nat
  BY <1>1, Grow
<1>3. \E k \in Nat : k * b \in Nat /\ i = k * b + r
  BY <1>1, <1>2
<1> DEFINE o == q * b
<1>4. o \in Nat /\ i = o + r
  BY <1>1, <1>2
<1> HIDE DEF r, o
<1>5. r <= i
  BY <1>1, <1>4
<1>6. QED
  BY <1>1, <1>3, <1>5 DEF r

LEMMA Remainder ==
  ASSUME NEW b \in Nat, NEW q \in Nat, NEW r \in 0 .. b - 1
  PROVE  q * b + r \in Nat /\ (q * b + r) % b = r
<1> DEFINE n == q * b + r
<1>1. b # 0 /\ r \in Nat /\ r < b /\ q * b \in Nat
  BY Grow
<1>2. n \in Nat
  BY <1>1
<1>3. PICK p \in Nat : n = p * b + (n % b) /\ p * b \in Nat
  <2> HIDE DEF n
  <2>1. QED
    BY <1>1, <1>2, Divided
<1>4. n % b \in 0 .. b - 1
  <2> HIDE DEF n
  <2>1. QED
    BY <1>1, <1>2, Divided
<1> DEFINE s == n % b
<1>5. q * b + r = p * b + s /\ s \in 0 .. b - 1
  BY <1>3, <1>4
<1> HIDE DEF s
<1>6. ASSUME q < p PROVE FALSE
  <2>1. (q + 1) * b <= p * b
    BY <1>6, Grow
  <2>2. (q + 1) * b = q * b + b
    OBVIOUS
  <2>3. QED
    BY <1>1, <1>3, <1>5, <2>1, <2>2
<1>7. ASSUME p < q PROVE FALSE
  <2>1. (p + 1) * b <= q * b
    BY <1>7, Grow
  <2>2. (p + 1) * b = p * b + b
    OBVIOUS
  <2>3. QED
    BY <1>1, <1>3, <1>5, <2>1, <2>2
<1>8. p = q
  BY <1>6, <1>7
<1>9. s = r
  BY <1>1, <1>5, <1>8
<1>10. QED
  BY <1>2, <1>9 DEF s

LEMMA WholeMask ==
  ASSUME NEW n \in Nat, n % OctetBits = 0
  PROVE  {LastOfOctet(i) - (i % OctetBits) : i \in 0 .. n - 1} = 0 .. n - 1
<1> DEFINE b == OctetBits
<1>1. b \in Nat /\ b # 0
  BY AccessAssumption DEF AccessAssumption
<1> HIDE DEF b
<1>a. \A i : LastOfOctet(i) = i - (i % b) + b - 1
  BY DEF LastOfOctet, b
<1>2. PICK m \in Nat : n = m * b /\ m * b \in Nat
  <2>1. PICK m \in Nat : m * b \in Nat /\ n = m * b + (n % b)
    BY <1>1, Divided
  <2>2. n % b = 0
    BY DEF b
  <2>3. n = m * b
    BY <2>1, <2>2
  <2>4. QED
    BY <2>1, <2>3
<1>3. ASSUME NEW q \in Nat, q * b \in Nat, q * b < n
      PROVE  q * b + b <= n
  <2>1. q < m
    <3>1. m <= q => m * b <= q * b
      BY <1>1, Grow
    <3>2. QED
      BY <1>2, <1>3, <3>1
  <2>2. (q + 1) * b <= m * b
    BY <1>1, <2>1, Grow
  <2>3. (q + 1) * b = q * b + b
    BY <1>1
  <2>4. QED
    BY <1>2, <2>2, <2>3
<1>4. ASSUME NEW i \in 0 .. n - 1
      PROVE  LastOfOctet(i) - (i % b) \in 0 .. n - 1
  <2>1. i % b \in 0 .. b - 1 /\ i \in Nat
    BY <1>1, Divided
  <2>2. PICK q \in Nat : q * b \in Nat /\ i = q * b + (i % b)
    BY <1>1, <2>1, Divided
  <2> DEFINE r == i % b
             o == q * b
  <2>3. o \in Nat /\ i = o + r /\ r \in 0 .. b - 1
    BY <2>1, <2>2
  <2>4. o + b <= n
    <3>1. o < n
      BY <1>1, <2>3
    <3>2. QED
      BY <1>3, <2>3, <3>1
  <2>5. LastOfOctet(i) - (i % b) = (i - r + b - 1) - r
    BY <1>a, Zenon
  <2> HIDE DEF r, o
  <2>6. (i - r + b - 1) - r \in 0 .. n - 1
    BY <1>1, <2>3, <2>4
  <2>7. QED
    BY <2>5, <2>6
<1>5. ASSUME NEW j \in 0 .. n - 1
      PROVE  \E i \in 0 .. n - 1 : j = LastOfOctet(i) - (i % b)
  <2>1. j % b \in 0 .. b - 1 /\ j \in Nat
    BY <1>1, Divided
  <2>2. PICK q \in Nat : q * b \in Nat /\ j = q * b + (j % b)
    BY <1>1, <2>1, Divided
  <2> DEFINE s == j % b
             o == q * b
             r == b - 1 - s
             i == q * b + r
  <2>3. o \in Nat /\ j = o + s /\ s \in 0 .. b - 1 /\ r \in 0 .. b - 1
    BY <1>1, <2>1, <2>2
  <2>4. o + b <= n
    <3>1. o < n
      BY <1>1, <2>3
    <3>2. QED
      BY <1>3, <2>3, <3>1
  <2>5. i % b = r
    <3>1. b \in Nat /\ q \in Nat /\ r \in 0 .. b - 1
      BY <1>1, <2>3
    <3> HIDE DEF r
    <3>2. (q * b + r) % b = r
      BY <3>1, Remainder
    <3>3. QED
      BY <3>2
  <2>6. LastOfOctet(i) - (i % b) = (i - r + b - 1) - r
    BY <1>a, <2>5, Zenon
  <2>7. i = o + r /\ r = b - 1 - s
    OBVIOUS
  <2> HIDE DEF s, o, r, i
  <2>8. i \in 0 .. n - 1 /\ (i - r + b - 1) - r = j
    BY <1>1, <2>3, <2>4, <2>7
  <2>9. QED
    BY <2>6, <2>8
<1>6. QED
  BY <1>4, <1>5 DEF b

----------------------------------------------------------------------------
(* Access control lists.                                                   *)

\* The width of an address is a number of whole octets.
LEMMA Widths ==
  \A f :
    /\ Width(f) \in Nat /\ Width(f) % OctetBits = 0
    /\ Width(f) <= Width("v6")
<1> SUFFICES ASSUME NEW f
             PROVE  /\ Width(f) \in Nat /\ Width(f) % OctetBits = 0
                    /\ Width(f) <= Width("v6")
  OBVIOUS
<1> DEFINE b == OctetBits
           q == IF f = "v4" THEN V4Octets ELSE V6Octets
<1>1. b \in Nat /\ b # 0 /\ V6Octets \in Nat /\ q \in Nat /\ q <= V6Octets
  BY AccessAssumption DEF AccessAssumption
<1>2. Width(f) = b * q /\ Width("v6") = b * V6Octets
  BY DEF Width
<1> HIDE DEF b, q
<1>3. b * q = q * b + 0 /\ b * V6Octets = V6Octets * b
  <2>1. q * b \in Nat /\ b * q = q * b
    BY <1>1, Grow
  <2>2. b * V6Octets = V6Octets * b
    BY <1>1
  <2>3. QED
    BY <2>1, <2>2
<1>4. q * b + 0 \in Nat /\ (q * b + 0) % b = 0
  BY <1>1, Remainder
<1>5. q * b <= V6Octets * b /\ q * b = q * b + 0
  BY <1>1, Grow
<1>6. QED
  BY <1>2, <1>3, <1>4, <1>5 DEF b

\* The bits that are compared are those that the text says.
LEMMA EntryCovers ==
  ASSUME NEW t \in Networks, Parses(t), NEW a,
         t.slash = "bits" => t.bits % OctetBits = 0
  PROVE  SameNet(a, Entry(t).check, Entry(t).mask) <=> Covers(t, a)
<1> DEFINE f == t.check.family
           w == Width(f)
           m == MaskLength(t)
           l == IF m > w THEN w ELSE m
           n == IF t.slash = "none" THEN Width(a.family) ELSE t.bits
<1>1. /\ t.check \in IPs /\ t.slash \in {"none", "bits"} /\ t.bits \in Nat
      /\ t.slash = "bits" => t.bits <= w
  BY DEF Networks, Parses
<1>2. w \in Nat /\ w % OctetBits = 0 /\ w <= Width("v6") /\ Width("v6") \in Nat
  BY Widths
<1> HIDE DEF w
<1>3. l = IF t.slash = "none" THEN w ELSE t.bits
  BY <1>1, <1>2 DEF MaskLength
<1>4. l \in Nat /\ l % OctetBits = 0
  BY <1>1, <1>2, <1>3
<1>5. Entry(t).mask = {LastOfOctet(i) - (i % OctetBits) : i \in 0 .. l - 1}
  BY DEF Entry, Mask, w
<1> HIDE DEF l
<1>6. Entry(t).mask = 0 .. l - 1
  BY <1>4, <1>5, WholeMask
<1>7. Entry(t).check = t.check
  BY DEF Entry
<1>8. f = a.family => n = l
  BY <1>1, <1>3 DEF w
<1>9. QED
  BY <1>6, <1>7, <1>8 DEF SameNet, Covers

LEMMA EntryType ==
  ASSUME NEW t \in Networks, Parses(t)
  PROVE  Entry(t) \in ACLEntries
<1> DEFINE m == Mask(t.check.family, MaskLength(t))
           f == t.check.family
           l == IF MaskLength(t) > Width(f) THEN Width(f) ELSE MaskLength(t)
<1>1. t.check \in IPs /\ t.bits \in Nat
  BY DEF Networks, Parses
<1>2. m = {LastOfOctet(i) - (i % OctetBits) : i \in 0 .. l - 1}
  BY DEF Mask
<1>3. \A i \in Int : LastOfOctet(i) - (i % OctetBits) \in Int
  <2>1. OctetBits \in Nat /\ OctetBits # 0
    BY AccessAssumption DEF AccessAssumption
  <2>2. QED
    BY <2>1 DEF LastOfOctet
<1>4. m \in SUBSET Int
  <2> HIDE DEF l
  <2>1. QED
    BY <1>2, <1>3
<1> HIDE DEF m
<1>5. QED
  BY <1>1, <1>4 DEF Entry, ACLEntries, m

\* Every mask of the value ends with an octet.
Whole(value) ==
  \A t \in TextsOf(value) : t.slash = "bits" => t.bits % OctetBits = 0

LEMMA ListCovers ==
  ASSUME NEW value \in Values \union {None}, ListParses(value)
  PROVE  /\ Entries(value) \in SUBSET ACLEntries
         /\ Whole(value) =>
              \A a : Matches(Entries(value), a) <=> CoveredBy(value, a)
<1>1. ASSUME NEW t \in TextsOf(value) PROVE t \in Networks /\ Parses(t)
  <2>1. value \in Values \ {None, All}
    BY <1>1 DEF TextsOf
  <2>2. value \subseteq Networks
    BY <2>1, AccessAssumption DEF AccessAssumption
  <2>3. QED
    BY <1>1, <2>1, <2>2 DEF TextsOf, ListParses
<1>2. Entries(value) \in SUBSET ACLEntries
  BY <1>1, EntryType DEF Entries
<1>3. ASSUME Whole(value), NEW a
      PROVE  Matches(Entries(value), a) <=> CoveredBy(value, a)
  <2>1. \A t \in TextsOf(value) :
          SameNet(a, Entry(t).check, Entry(t).mask) <=> Covers(t, a)
    BY <1>1, <1>3, EntryCovers DEF Whole
  <2>2. QED
    BY <2>1 DEF Matches, CoveredBy, Entries
<1>4. QED
  BY <1>2, <1>3

(***************************************************************************)
(* SocketCheckACL with the list that SocketGenACL makes.                   *)
(***************************************************************************)
LEMMA ListsDecide ==
  ASSUME NEW allow \in Values \union {None}, NEW deny \in Values \union {None},
         GenOK(allow, deny), Whole(allow), Whole(deny), NEW a
  PROVE  CheckACL(GenACL(allow, deny), a) <=>
           \/ deny = None
           \/ deny # All /\ ~CoveredBy(deny, a)
           \/ CoveredBy(allow, a)
<1>1. ListParses(allow) /\ (deny = All \/ ListParses(deny))
  BY DEF GenOK
<1>2. /\ Entries(allow) \in SUBSET ACLEntries
      /\ Matches(Entries(allow), a) <=> CoveredBy(allow, a)
  BY <1>1, ListCovers
<1>3. /\ Entries(deny) \in SUBSET ACLEntries
      /\ Matches(Entries(deny), a) <=> CoveredBy(deny, a)
  <2>1. CASE deny = All
    BY <2>1 DEF Entries, TextsOf, Matches, CoveredBy
  <2>2. CASE deny # All
    BY <1>1, <2>2, ListCovers
  <2>3. QED
    BY <2>1, <2>2
<1>4. ~CoveredBy(None, a)
  BY DEF CoveredBy, TextsOf
<1>5. CASE allow = None /\ deny = None
  BY <1>5 DEF GenACL, CheckACL
<1>6. CASE ~(allow = None /\ deny = None)
  <2> DEFINE al == [allow |-> Entries(allow), deny |-> Entries(deny),
                    denyAll |-> deny = All]
  <2>1. GenACL(allow, deny) = al
    BY <1>6 DEF GenACL
  <2>2. al \in ACLs
    <3>1. (deny = All) \in BOOLEAN
      OBVIOUS
    <3>2. QED
      BY <1>2, <1>3, <3>1 DEF ACLs
  <2>3. al # None
    BY <2>2, AccessAssumption DEF AccessAssumption
  <2>4. /\ al.allow = Entries(allow) /\ al.deny = Entries(deny)
        /\ al.denyAll <=> deny = All
    OBVIOUS
  <2> HIDE DEF al
  <2>5. CheckACL(al, a) <=>
          \/ ~Matches(Entries(deny), a) /\ deny # All
          \/ Matches(Entries(allow), a)
    BY <2>3, <2>4 DEF CheckACL
  <2>7. deny = None => deny # All
    BY AccessAssumption DEF AccessAssumption
  <2>8. QED
    BY <1>2, <1>3, <1>4, <2>1, <2>5, <2>7
<1>7. QED
  BY <1>5, <1>6

----------------------------------------------------------------------------
\* The first of the places, if it is known.
LEMMA FirstIs ==
  ASSUME NEW S \in SUBSET Nat, NEW p \in S, \A q \in S : p <= q
  PROVE  First(S) = p
<1>1. \A i \in S : (\A j \in S : i <= j) => i = p
  <2> SUFFICES ASSUME NEW i \in S, \A j \in S : i <= j PROVE i = p
    OBVIOUS
  <2>1. i <= p /\ p <= i /\ i \in Nat /\ p \in Nat
    OBVIOUS
  <2>2. QED
    BY <2>1
<1>2. QED
  BY <1>1 DEF First

LEMMA FirstIn ==
  ASSUME NEW S \in SUBSET Nat, S # {}
  PROVE  First(S) \in S /\ \A q \in S : First(S) <= q
<1>1. PICK p \in S : \A q \in S : ~(q < p)
  BY HasLeast
<1>2. \A q \in S : p <= q
  <2>1. \A q \in S : q \in Nat /\ p \in Nat
    OBVIOUS
  <2>2. QED
    BY <1>1, <2>1
<1>3. QED
  BY <1>2, FirstIs

----------------------------------------------------------------------------
(* The reader of the configuration file.                                   *)

Scans == Seq(Sections) \union {None}

\* What has been scanned of the lines f, after n of them.
ScansTo(f, g) ==
  /\ g \in [0 .. Len(f) -> Scans]
  /\ \A n \in 0 .. Len(f) :
       g[n] = IF n = 0 THEN NoSections ELSE ScanLine(g[n - 1], f[n])

\* Sections are a sequence, and not None if a test of Len would tell.
LEMMA SectionAdded ==
  ASSUME NEW ce \in Seq(Sections), NEW name \in Words
  PROVE  AddSection(ce, name) \in Seq(Sections)
<1>1. [name |-> name, keys |-> <<>>] \in Sections
  <2>1. <<>> \in Seq(Keys)
    BY EmptySeq
  <2>2. QED
    BY <2>1 DEF Sections
<1>2. QED
  BY <1>1, AppendProperties DEF AddSection

\* The last section gets the key.
LEMMA KeyAdded ==
  ASSUME NEW ce \in Seq(Sections), NEW key \in Words, NEW value \in Values,
         ce # NoSections
  PROVE  /\ Len(ce) \in Nat /\ Len(ce) \in 1 .. Len(ce)
         /\ AddKey(ce, key, value) \in Seq(Sections)
         /\ Len(AddKey(ce, key, value)) = Len(ce)
         /\ \A i \in 1 .. Len(ce) :
              i # Len(ce) => AddKey(ce, key, value)[i] = ce[i]
         /\ AddKey(ce, key, value)[Len(ce)].name = ce[Len(ce)].name
         /\ AddKey(ce, key, value)[Len(ce)].keys =
              Append(ce[Len(ce)].keys, [key |-> key, value |-> value])
<1>0. PICK n, kv, s :
        /\ n = Len(ce) /\ kv = [key |-> key, value |-> value]
        /\ s = [ce[n] EXCEPT !.keys = Append(@, kv)]
  OBVIOUS
<1>1. n \in Nat /\ n # 0 /\ n \in 1 .. n
  BY <1>0, LenProperties, EmptySeq DEF NoSections
<1>2. ce[n] \in Sections
  BY <1>0, <1>1, ElementOfSeq
<1>3. kv \in Keys
  BY <1>0 DEF Keys
<1>4. Append(ce[n].keys, kv) \in Seq(Keys)
  <2>1. ce[n].keys \in Seq(Keys)
    BY <1>2 DEF Sections
  <2>2. QED
    BY <1>3, <2>1, AppendProperties
<1>5. s.name = ce[n].name /\ s.keys = Append(ce[n].keys, kv) /\ s \in Sections
  BY <1>0, <1>2, <1>4 DEF Sections
<1>6. AddKey(ce, key, value) = [ce EXCEPT ![n] = s]
  BY <1>0 DEF AddKey, NoSections
<1>7. /\ [ce EXCEPT ![n] = s] \in Seq(Sections)
      /\ Len([ce EXCEPT ![n] = s]) = n
      /\ \A i \in 1 .. n : [ce EXCEPT ![n] = s][i] = IF i = n THEN s ELSE ce[i]
  BY <1>0, <1>1, <1>5, ExceptSeq
<1>8. QED
  BY <1>0, <1>1, <1>5, <1>6, <1>7

LEMMA ScanLineType ==
  ASSUME NEW ce \in Scans, NEW l \in FileLines
  PROVE  ScanLine(ce, l) \in Scans
<1>1. /\ l.kind \in {"comment", "section", "key", "broken"}
      /\ l.name \in Words /\ l.value \in Values
  BY DEF FileLines
<1>2. CASE ce = None \/ ~WellFormed(l)
  BY <1>2 DEF ScanLine, Scans
<1>3. CASE ~(ce = None \/ ~WellFormed(l))
  <2>1. ce \in Seq(Sections) /\ l.kind \in {"comment", "section", "key"}
    BY <1>3 DEF Scans, WellFormed
  <2>2. CASE l.kind = "comment"
    BY <1>3, <2>2 DEF ScanLine
  <2>3. CASE l.kind = "section"
    BY <1>1, <1>3, <2>1, <2>3, SectionAdded DEF ScanLine, Scans
  <2>4. CASE l.kind = "key"
    <3>1. AddKey(ce, l.name, l.value) \in Seq(Sections)
      <4>1. CASE ce = NoSections
        BY <2>1, <4>1 DEF AddKey
      <4>2. CASE ce # NoSections
        BY <1>1, <2>1, <4>2, KeyAdded
      <4>3. QED
        BY <4>1, <4>2
    <3>2. QED
      BY <1>3, <2>4, <3>1 DEF ScanLine, Scans
  <2>5. QED
    BY <2>1, <2>2, <2>3, <2>4
<1>4. QED
  BY <1>2, <1>3

LEMMA ScanIs ==
  ASSUME NEW f \in Seq(FileLines)
  PROVE  \E g : ScansTo(f, g) /\ ConfReadScan(f) = g[Len(f)]
<1> DEFINE scan[n \in 0 .. Len(f)] ==
             IF n = 0 THEN NoSections ELSE ScanLine(scan[n - 1], f[n])
           st == [z \in Scans \X FileLines |-> ScanLine(z[1], z[2])]
<1>1. Len(f) \in Nat
  BY LenProperties
<1>2. NoSections \in Scans
  BY EmptySeq DEF NoSections, Scans
<1>3. st \in [Scans \X FileLines -> Scans]
  BY ScanLineType
<1>4. PICK g \in [0 .. Len(f) -> Scans] : Steps(NoSections, st, f, Len(f), g)
  <2> HIDE DEF st
  <2>1. QED
    BY <1>2, <1>3, StepsExist
<1>5. ASSUME NEW n \in 0 .. Len(f)
      PROVE  g[n] = IF n = 0 THEN NoSections ELSE ScanLine(g[n - 1], f[n])
  <2>1. g[n] = IF n = 0 THEN NoSections ELSE st[<<g[n - 1], f[n]>>]
    BY <1>4 DEF Steps
  <2>2. CASE n = 0
    BY <2>1, <2>2
  <2>3. CASE n # 0
    <3>1. g[n - 1] \in Scans /\ f[n] \in FileLines
      BY <1>1, <1>4, <2>3, ElementOfSeq
    <3>2. st[<<g[n - 1], f[n]>>] = ScanLine(g[n - 1], f[n])
      BY <3>1
    <3>3. QED
      BY <2>1, <2>3, <3>2
  <2>4. QED
    BY <2>2, <2>3
<1>6. g = [n \in 0 .. Len(f) |->
             IF n = 0 THEN NoSections ELSE ScanLine(g[n - 1], f[n])]
  BY <1>5
<1>7. scan = [n \in 0 .. Len(f) |->
                IF n = 0 THEN NoSections ELSE ScanLine(scan[n - 1], f[n])]
  BY <1>6
<1>8. ConfReadScan(f) = scan[Len(f)]
  BY DEF ConfReadScan
<1> HIDE DEF scan
<1>9. ASSUME NEW n \in 0 .. Len(f), n # 0, scan[n - 1] \in Scans
      PROVE  scan[n] \in Scans
  <2>1. f[n] \in FileLines
    BY <1>1, <1>9, ElementOfSeq
  <2>2. scan[n] = ScanLine(scan[n - 1], f[n])
    BY <1>7, <1>9
  <2>3. QED
    BY <1>9, <2>1, <2>2, ScanLineType
<1> DEFINE Bad == {n \in 0 .. Len(f) : scan[n] \notin Scans}
<1>10. Bad \in SUBSET Nat
  BY <1>1
<1>11. ASSUME Bad # {} PROVE FALSE
  <2>1. PICK m \in Bad : \A k \in Bad : ~(k < m)
    <3> HIDE DEF Bad
    <3>1. QED
      BY <1>10, <1>11, HasLeast
  <2>2. m # 0
    BY <1>2, <1>7
  <2>3. m \in 0 .. Len(f) /\ m - 1 \in 0 .. Len(f) /\ m - 1 < m
    BY <1>1, <2>2
  <2>4. scan[m - 1] \in Scans
    BY <2>1, <2>3
  <2>5. QED
    BY <1>9, <2>1, <2>2, <2>3, <2>4
<1>12. scan \in [0 .. Len(f) -> Scans]
  BY <1>7, <1>11
<1>13. ScansTo(f, scan)
  BY <1>7, <1>12 DEF ScansTo
<1>14. QED
  BY <1>8, <1>13

----------------------------------------------------------------------------
(* What the sections say of the lines before.                              *)

ControlAt(ce) == {i \in 1 .. Len(ce) : ce[i].name = "control"}

KeysAt(s, key) == {i \in 1 .. Len(s.keys) : s.keys[i].key = key}

IsControl(l) == l.kind = "section" /\ l.name = "control"

\* After n lines the first section "control" is the last one of all.
Current(f, n) ==
  \E j \in 1 .. n :
    /\ IsControl(f[j])
    /\ \A k \in (1 .. n) \ {j} :
         f[k].kind = "section" => k < j /\ f[k].name # "control"

AssignedAt(f, n, key) == {i \in 1 .. n : Assigns(f, i, key)}

\* The first key of a section and the first line that assigns a value to it.
SameFirst(f, n, s, key) ==
  \/ KeysAt(s, key) = {} /\ AssignedAt(f, n, key) = {}
  \/ \E i \in KeysAt(s, key), j \in AssignedAt(f, n, key) :
       /\ \A x \in KeysAt(s, key) : i <= x
       /\ \A y \in AssignedAt(f, n, key) : j <= y
       /\ s.keys[i].value = f[j].value

Scanned(f, n, ce) ==
  /\ ce \in Seq(Sections)
  /\ ControlAt(ce) = {} <=> \A k \in 1 .. n : ~IsControl(f[k])
  /\ Current(f, n) <=> ControlAt(ce) = {Len(ce)}
  /\ \A p \in ControlAt(ce) :
       (\A q \in ControlAt(ce) : p <= q) =>
         \A key : SameFirst(f, n, ce[p], key)

LEMMA AssignedAfter ==
  ASSUME NEW f, NEW m \in Nat, NEW key
  PROVE  AssignedAt(f, m + 1, key) =
           AssignedAt(f, m, key)
             \union IF f[m + 1].kind = "key" /\ f[m + 1].name = key
                        /\ Current(f, m)
                    THEN {m + 1} ELSE {}
<1>1. (m + 1) - 1 = m
  OBVIOUS
<1>2. Assigns(f, m + 1, key) <=>
        f[m + 1].kind = "key" /\ f[m + 1].name = key /\ Current(f, m)
  BY <1>1 DEF Assigns, Current, IsControl
<1>3. \A i : i \in 1 .. m + 1 <=> i \in 1 .. m \/ i = m + 1
  OBVIOUS
<1> HIDE <1>1
<1>4. QED
  BY <1>2, <1>3 DEF AssignedAt

LEMMA CurrentAfter ==
  ASSUME NEW f, NEW m \in Nat
  PROVE  /\ f[m + 1].kind # "section" => (Current(f, m + 1) <=> Current(f, m))
         /\ IsControl(f[m + 1]) =>
              (Current(f, m + 1) <=> \A k \in 1 .. m : ~IsControl(f[k]))
         /\ f[m + 1].kind = "section" /\ ~IsControl(f[m + 1]) =>
              ~Current(f, m + 1)
<1>1. \A i : i \in 1 .. m + 1 <=> i \in 1 .. m \/ i = m + 1
  OBVIOUS
<1>2. m + 1 \notin 1 .. m
  OBVIOUS
<1>3. ASSUME f[m + 1].kind # "section" PROVE Current(f, m + 1) <=> Current(f, m)
  BY <1>1, <1>2, <1>3 DEF Current, IsControl
<1>4. ASSUME IsControl(f[m + 1])
      PROVE  Current(f, m + 1) <=> \A k \in 1 .. m : ~IsControl(f[k])
  <2>1. ASSUME Current(f, m + 1) PROVE \A k \in 1 .. m : ~IsControl(f[k])
    BY <1>1, <1>2, <1>4, <2>1 DEF Current, IsControl
  <2>2. ASSUME \A k \in 1 .. m : ~IsControl(f[k]) PROVE Current(f, m + 1)
    <3>1. \A k \in 1 .. m + 1 : k # m + 1 => k \in 1 .. m /\ k < m + 1
      OBVIOUS
    <3>2. m + 1 \in 1 .. m + 1
      OBVIOUS
    <3>3. QED
      BY <1>4, <2>2, <3>1, <3>2 DEF Current, IsControl
  <2>3. QED
    BY <2>1, <2>2
<1>5. ASSUME f[m + 1].kind = "section", ~IsControl(f[m + 1]), Current(f, m + 1)
      PROVE  FALSE
  <2>1. PICK j \in 1 .. m + 1 :
          /\ IsControl(f[j])
          /\ \A k \in (1 .. m + 1) \ {j} :
               f[k].kind = "section" => k < j /\ f[k].name # "control"
    BY <1>5 DEF Current
  <2>2. j # m + 1 /\ m + 1 \in 1 .. m + 1
    BY <1>5, <2>1
  <2>3. m + 1 < j
    BY <1>5, <2>1, <2>2
  <2>4. QED
    BY <2>3
<1>6. QED
  BY <1>3, <1>4, <1>5
LEMMA NothingScanned ==
  ASSUME NEW f
  PROVE  Scanned(f, 0, NoSections)
<1>1. NoSections \in Seq(Sections) /\ Len(NoSections) = 0
  BY EmptySeq DEF NoSections
<1>2. ControlAt(NoSections) = {}
  BY <1>1 DEF ControlAt
<1>3. ~Current(f, 0) /\ \A k \in 1 .. 0 : ~IsControl(f[k])
  BY DEF Current
<1>4. QED
  BY <1>1, <1>2, <1>3 DEF Scanned

LEMMA CommentScanned ==
  ASSUME NEW f, NEW m \in Nat, NEW ce, Scanned(f, m, ce),
         f[m + 1].kind = "comment"
  PROVE  Scanned(f, m + 1, ce)
<1>1. \A key : AssignedAt(f, m + 1, key) = AssignedAt(f, m, key)
  <2> SUFFICES ASSUME NEW key
               PROVE  AssignedAt(f, m + 1, key) = AssignedAt(f, m, key)
    OBVIOUS
  <2>1. f[m + 1].kind # "key"
    OBVIOUS
  <2>2. AssignedAt(f, m + 1, key) =
          AssignedAt(f, m, key)
            \union IF f[m + 1].kind = "key" /\ f[m + 1].name = key
                       /\ Current(f, m)
                   THEN {m + 1} ELSE {}
    BY AssignedAfter
  <2>3. QED
    BY <2>1, <2>2
<1>2. Current(f, m + 1) <=> Current(f, m)
  BY CurrentAfter
<1>3. \A i : i \in 1 .. m + 1 <=> i \in 1 .. m \/ i = m + 1
  OBVIOUS
<1>4. ~IsControl(f[m + 1])
  BY DEF IsControl
<1>5. \A s, key : SameFirst(f, m, s, key) => SameFirst(f, m + 1, s, key)
  BY <1>1 DEF SameFirst
<1>6. (\A k \in 1 .. m : ~IsControl(f[k]))
        <=> (\A k \in 1 .. m + 1 : ~IsControl(f[k]))
  BY <1>3, <1>4
<1>7. QED
  BY <1>2, <1>5, <1>6 DEF Scanned

\* Nothing is assigned before there is a section "control".
LEMMA NothingAssigned ==
  ASSUME NEW f, NEW m \in Nat, \A k \in 1 .. m : ~IsControl(f[k]), NEW key
  PROVE  AssignedAt(f, m, key) = {}
<1>1. \A i \in 1 .. m : \A j \in 1 .. i - 1 : j \in 1 .. m
  OBVIOUS
<1>2. QED
  BY <1>1 DEF AssignedAt, Assigns, IsControl

LEMMA SectionScanned ==
  ASSUME NEW f, NEW m \in Nat, NEW ce, Scanned(f, m, ce),
         f[m + 1].kind = "section", f[m + 1].name \in Words
  PROVE  Scanned(f, m + 1, AddSection(ce, f[m + 1].name))
<1> DEFINE name == f[m + 1].name
           new  == [name |-> name, keys |-> <<>>]
           cs   == AddSection(ce, name)
           n    == Len(ce)
<1>0. new.name = name /\ new.keys = <<>> /\ new \in Sections
  <2>1. <<>> \in Seq(Keys)
    BY EmptySeq
  <2>2. QED
    BY <2>1 DEF Sections
<1>1. ce \in Seq(Sections) /\ n \in Nat
  BY LenProperties DEF Scanned
<1>2. cs = Append(ce, new)
  BY DEF AddSection
<1> HIDE DEF new, cs
<1>3. /\ cs \in Seq(Sections) /\ Len(cs) = n + 1 /\ cs[n + 1] = new
      /\ \A i \in 1 .. n : cs[i] = ce[i]
  BY <1>0, <1>1, <1>2, AppendProperties
<1>4. ControlAt(cs) =
        ControlAt(ce) \union IF name = "control" THEN {n + 1} ELSE {}
  <2>1. \A i : i \in 1 .. n + 1 <=> i \in 1 .. n \/ i = n + 1
    BY <1>1
  <2>2. \A i : i \in 1 .. n => i # n + 1
    <3> HIDE DEF n
    <3>1. QED
      BY <1>1
  <2>3. \A i \in 1 .. n : cs[i].name = ce[i].name
    BY <1>3
  <2>4. cs[n + 1].name = name
    BY <1>0, <1>3
  <2> HIDE DEF name
  <2>5. ASSUME NEW i \in 1 .. n
        PROVE  i \in ControlAt(cs) <=> i \in ControlAt(ce)
    BY <1>3, <2>1, <2>3 DEF ControlAt
  <2>6. n + 1 \in ControlAt(cs) <=> name = "control"
    BY <1>3, <2>1, <2>4 DEF ControlAt
  <2>7. ControlAt(cs) \subseteq 1 .. n + 1 /\ ControlAt(ce) \subseteq 1 .. n
    BY <1>3 DEF ControlAt
  <2> HIDE DEF n
  <2>8. n + 1 \notin ControlAt(ce)
    BY <2>2, <2>7
  <2>9. \A i : i \in ControlAt(cs)
                 <=> i \in ControlAt(ce) \/ (i = n + 1 /\ name = "control")
    BY <2>1, <2>2, <2>5, <2>6, <2>7, <2>8, Zenon
  <2>10. QED
    BY <2>9
<1>5. IsControl(f[m + 1]) <=> name = "control"
  BY DEF IsControl
<1>6. \A i : i \in 1 .. m + 1 <=> i \in 1 .. m \/ i = m + 1
  OBVIOUS
<1>7. \A key : AssignedAt(f, m + 1, key) = AssignedAt(f, m, key)
  <2> SUFFICES ASSUME NEW key
               PROVE  AssignedAt(f, m + 1, key) = AssignedAt(f, m, key)
    OBVIOUS
  <2> HIDE DEF name
  <2>1. f[m + 1].kind # "key"
    OBVIOUS
  <2>2. AssignedAt(f, m + 1, key) =
          AssignedAt(f, m, key)
            \union IF f[m + 1].kind = "key" /\ f[m + 1].name = key
                       /\ Current(f, m)
                   THEN {m + 1} ELSE {}
    BY AssignedAfter
  <2>3. QED
    BY <2>1, <2>2
<1>8. ControlAt(ce) \subseteq 1 .. n /\ n + 1 \notin ControlAt(ce)
  <2>1. ControlAt(ce) \subseteq 1 .. n
    BY DEF ControlAt
  <2>2. n + 1 \notin 1 .. n
    <3> HIDE DEF n
    <3>1. QED
      BY <1>1
  <2>3. QED
    BY <2>1, <2>2
<1>a. /\ ControlAt(ce) = {} <=> \A k \in 1 .. m : ~IsControl(f[k])
      /\ Current(f, m) <=> ControlAt(ce) = {n}
      /\ \A p \in ControlAt(ce) :
           (\A q \in ControlAt(ce) : p <= q) =>
             \A key : SameFirst(f, m, ce[p], key)
  BY DEF Scanned
<1> HIDE DEF n, name
<1>9. ControlAt(cs) = {} <=> \A k \in 1 .. m + 1 : ~IsControl(f[k])
  BY <1>4, <1>5, <1>6, <1>a
<1>10. Current(f, m + 1) <=> ControlAt(cs) = {n + 1}
  <2>1. CASE name = "control"
    <3>1. Current(f, m + 1) <=> ControlAt(ce) = {}
      BY <1>5, <1>a, <2>1, CurrentAfter
    <3>2. ControlAt(cs) = {n + 1} <=> ControlAt(ce) = {}
      BY <1>4, <1>8, <2>1
    <3>3. QED
      BY <3>1, <3>2
  <2>2. CASE name # "control"
    <3>1. ~Current(f, m + 1)
      BY <1>5, <2>2, CurrentAfter
    <3>2. ControlAt(cs) # {n + 1}
      BY <1>4, <1>8, <2>2
    <3>3. QED
      BY <3>1, <3>2
  <2>3. QED
    BY <2>1, <2>2
<1>11. ASSUME NEW p \in ControlAt(cs), \A q \in ControlAt(cs) : p <= q, NEW key
       PROVE  SameFirst(f, m + 1, cs[p], key)
  <2>1. CASE p \in ControlAt(ce)
    <3>1. cs[p] = ce[p] /\ \A q \in ControlAt(ce) : p <= q
      BY <1>3, <1>4, <1>8, <1>11, <2>1
    <3>2. SameFirst(f, m, ce[p], key)
      BY <1>a, <2>1, <3>1
    <3>3. QED
      BY <1>7, <3>1, <3>2 DEF SameFirst
  <2>2. CASE p \notin ControlAt(ce)
    <3>1. name = "control" /\ p = n + 1
      BY <1>4, <1>11, <2>2
    <3>2. ControlAt(ce) = {}
      <4>1. ASSUME NEW q \in ControlAt(ce) PROVE FALSE
        <5>1. q \in 1 .. n /\ n + 1 <= q
          BY <1>4, <1>8, <1>11, <3>1
        <5>2. n \in Nat
          BY <1>1 DEF n
        <5>3. QED
          BY <5>1, <5>2
      <4>2. QED
        BY <4>1
    <3>3. AssignedAt(f, m + 1, key) = {}
      BY <1>7, <1>a, <3>2, NothingAssigned
    <3>4. KeysAt(cs[p], key) = {}
      <4>1. cs[p].keys = <<>> /\ Len(<<>>) = 0
        BY <1>0, <1>3, <3>1, EmptySeq
      <4>2. QED
        BY <4>1 DEF KeysAt
    <3>5. QED
      BY <3>3, <3>4 DEF SameFirst
  <2>3. QED
    BY <2>1, <2>2
<1>12. QED
  BY <1>3, <1>9, <1>10, <1>11 DEF Scanned, cs, name

\* A key without a section.
LEMMA KeyDropped ==
  ASSUME NEW f, NEW m \in Nat, NEW ce, Scanned(f, m, ce),
         f[m + 1].kind = "key", ce = NoSections
  PROVE  Scanned(f, m + 1, ce)
<1>1. Len(ce) = 0 /\ ControlAt(ce) = {}
  BY EmptySeq DEF NoSections, ControlAt
<1>2. ~Current(f, m)
  BY <1>1 DEF Scanned
<1>3. ~Current(f, m + 1)
  BY <1>2, CurrentAfter
<1>4. \A i : i \in 1 .. m + 1 <=> i \in 1 .. m \/ i = m + 1
  OBVIOUS
<1>5. ~IsControl(f[m + 1])
  BY DEF IsControl
<1>6. QED
  BY <1>1, <1>3, <1>4, <1>5 DEF Scanned

\* A key in the last section.
LEMMA KeyScanned ==
  ASSUME NEW f, NEW m \in Nat, NEW ce, Scanned(f, m, ce),
         f[m + 1].kind = "key", f[m + 1].name \in Words,
         f[m + 1].value \in Values, ce # NoSections
  PROVE  Scanned(f, m + 1, AddKey(ce, f[m + 1].name, f[m + 1].value))
<1>1. ce \in Seq(Sections)
  BY DEF Scanned
<1>2. PICK word, value : word = f[m + 1].name /\ value = f[m + 1].value
  OBVIOUS
<1>3. PICK n, kv, ck, s :
        /\ n = Len(ce) /\ kv = [key |-> word, value |-> value]
        /\ ck = AddKey(ce, word, value) /\ s = ck[n]
  OBVIOUS
<1>4. /\ n \in Nat /\ n \in 1 .. n /\ kv \in Keys /\ s.name = ce[n].name
      /\ s.keys = Append(ce[n].keys, kv) /\ ce[n].keys \in Seq(Keys)
      /\ ck \in Seq(Sections) /\ Len(ck) = n
      /\ \A i \in 1 .. n : ck[i] = IF i = n THEN s ELSE ce[i]
  <2>1. word \in Words /\ value \in Values
    BY <1>2
  <2>2. /\ n \in Nat /\ n \in 1 .. n /\ ck \in Seq(Sections) /\ Len(ck) = n
        /\ s.name = ce[n].name /\ s.keys = Append(ce[n].keys, kv)
        /\ \A i \in 1 .. n : i # n => ck[i] = ce[i]
    BY <1>1, <1>3, <2>1, KeyAdded
  <2>3. kv \in Keys
    BY <1>3, <2>1 DEF Keys
  <2>4. ce[n].keys \in Seq(Keys)
    <3>1. ce[n] \in Sections
      BY <1>1, <1>3, <2>2, ElementOfSeq
    <3>2. QED
      BY <3>1 DEF Sections
  <2>5. QED
    BY <1>3, <2>2, <2>3, <2>4
<1>5. ControlAt(ck) = ControlAt(ce)
  <2>1. \A i \in 1 .. n : ck[i].name = ce[i].name
    BY <1>4
  <2>2. QED
    BY <1>3, <1>4, <2>1 DEF ControlAt
<1>6. Current(f, m + 1) <=> Current(f, m)
  BY CurrentAfter
<1>7. ControlAt(ce) = {} <=> \A k \in 1 .. m + 1 : ~IsControl(f[k])
  <2>1. \A i : i \in 1 .. m + 1 <=> i \in 1 .. m \/ i = m + 1
    OBVIOUS
  <2>2. ~IsControl(f[m + 1])
    BY DEF IsControl
  <2>3. QED
    BY <2>1, <2>2 DEF Scanned
<1>8. ASSUME NEW p \in ControlAt(ce), \A q \in ControlAt(ce) : p <= q, NEW key
      PROVE  SameFirst(f, m + 1, ck[p], key)
  <2>1. SameFirst(f, m, ce[p], key)
    BY <1>8 DEF Scanned
  <2>3. p \in 1 .. n
    BY <1>3, <1>8 DEF ControlAt
  <2>4. AssignedAt(f, m + 1, key) =
          AssignedAt(f, m, key)
            \union IF f[m + 1].kind = "key" /\ f[m + 1].name = key
                       /\ Current(f, m)
                   THEN {m + 1} ELSE {}
    BY AssignedAfter
  <2>5. CASE p # n
    <3>1. ck[p] = ce[p]
      BY <1>4, <2>3, <2>5
    <3>2. ControlAt(ce) # {n}
      BY <1>8, <2>5
    <3>3. ~Current(f, m)
      BY <1>3, <3>2 DEF Scanned
    <3>4. AssignedAt(f, m + 1, key) = AssignedAt(f, m, key)
      BY <2>4, <3>3
    <3>5. QED
      BY <2>1, <3>1, <3>4 DEF SameFirst
  <2>6. CASE p = n
    <3>1. ck[p] = s
      BY <1>4, <2>3, <2>6
    <3>2. ControlAt(ce) = {n}
      <4>1. \A q \in ControlAt(ce) : q = n
        <5>1. \A q \in ControlAt(ce) : q \in 1 .. n /\ n <= q
          BY <1>3, <1>8, <2>6 DEF ControlAt
        <5>2. QED
          BY <1>4, <5>1
      <4>2. QED
        BY <1>8, <2>6, <4>1
    <3>3. Current(f, m)
      BY <1>3, <3>2 DEF Scanned
    <3>4. AssignedAt(f, m + 1, key) =
            AssignedAt(f, m, key) \union IF word = key THEN {m + 1} ELSE {}
      <4>1. (f[m + 1].kind = "key" /\ f[m + 1].name = key /\ Current(f, m))
              <=> word = key
        BY <1>2, <3>3
      <4>2. QED
        BY <2>4, <4>1
    <3>5. PICK ks, l : ks = ce[n].keys /\ l = Len(ks)
      OBVIOUS
    <3>6. /\ ks \in Seq(Keys) /\ l \in Nat /\ Len(s.keys) = l + 1
          /\ \A i \in 1 .. l : s.keys[i] = ks[i]
          /\ s.keys[l + 1] = kv
      <4>1. ks \in Seq(Keys) /\ s.keys = Append(ks, kv)
        BY <1>4, <3>5
      <4>2. QED
        BY <1>4, <3>5, <4>1, AppendProperties, LenProperties
    <3>7. KeysAt(s, key) =
            KeysAt(ce[n], key) \union IF word = key THEN {l + 1} ELSE {}
      <4>1. \A i : i \in 1 .. l + 1 <=> i \in 1 .. l \/ i = l + 1
        BY <3>6
      <4>2. kv.key = word
        BY <1>3
      <4>3. \A i : i \in KeysAt(s, key)
                     <=> i \in KeysAt(ce[n], key) \/ (i = l + 1 /\ word = key)
        BY <3>5, <3>6, <4>1, <4>2 DEF KeysAt
      <4>4. QED
        BY <4>3
    <3>8. /\ \A x \in KeysAt(ce[n], key) : x \in 1 .. l
          /\ \A y \in AssignedAt(f, m, key) : y \in 1 .. m
      BY <3>5 DEF KeysAt, AssignedAt
    <3>9. CASE word # key
      <4>1. /\ KeysAt(s, key) = KeysAt(ce[n], key)
            /\ AssignedAt(f, m + 1, key) = AssignedAt(f, m, key)
        BY <3>4, <3>7, <3>9
      <4>2. \A i \in KeysAt(ce[n], key) : s.keys[i] = ce[n].keys[i]
        BY <3>5, <3>6, <3>8
      <4>3. QED
        BY <2>1, <2>6, <3>1, <4>1, <4>2 DEF SameFirst
    <3>10. CASE word = key /\ KeysAt(ce[n], key) = {}
      <4>1. AssignedAt(f, m, key) = {}
        BY <2>1, <2>6, <3>10 DEF SameFirst
      <4>2. KeysAt(s, key) = {l + 1} /\ AssignedAt(f, m + 1, key) = {m + 1}
        BY <3>4, <3>7, <3>10, <4>1
      <4>3. s.keys[l + 1].value = f[m + 1].value
        BY <1>2, <1>3, <3>6
      <4>4. l + 1 <= l + 1 /\ m + 1 <= m + 1
        BY <3>6
      <4>5. QED
        BY <3>1, <4>2, <4>3, <4>4 DEF SameFirst
    <3>11. CASE word = key /\ KeysAt(ce[n], key) # {}
      <4>1. PICK i \in KeysAt(ce[n], key), j \in AssignedAt(f, m, key) :
              /\ \A x \in KeysAt(ce[n], key) : i <= x
              /\ \A y \in AssignedAt(f, m, key) : j <= y
              /\ ce[n].keys[i].value = f[j].value
        BY <2>1, <2>6, <3>11 DEF SameFirst
      <4>2. i \in 1 .. l /\ j \in 1 .. m /\ i <= l + 1 /\ j <= m + 1
        BY <3>6, <3>8
      <4>3. /\ i \in KeysAt(s, key) /\ j \in AssignedAt(f, m + 1, key)
            /\ \A x \in KeysAt(s, key) : i <= x
            /\ \A y \in AssignedAt(f, m + 1, key) : j <= y
        BY <3>4, <3>7, <3>11, <4>1, <4>2
      <4>4. s.keys[i].value = f[j].value
        BY <3>5, <3>6, <4>1, <4>2
      <4>5. QED
        BY <3>1, <4>3, <4>4 DEF SameFirst
    <3>12. QED
      BY <3>9, <3>10, <3>11
  <2>7. QED
    BY <2>5, <2>6
<1>9. Scanned(f, m + 1, ck)
  <2>1. Current(f, m + 1) <=> ControlAt(ck) = {Len(ck)}
    BY <1>3, <1>4, <1>5, <1>6 DEF Scanned
  <2>2. QED
    BY <1>4, <1>5, <1>7, <1>8, <2>1 DEF Scanned
<1>10. QED
  BY <1>2, <1>3, <1>9

LEMMA LineScanned ==
  ASSUME NEW f \in Seq(FileLines), NEW m \in Nat, m + 1 \in 1 .. Len(f),
         NEW ce, Scanned(f, m, ce), ScanLine(ce, f[m + 1]) # None
  PROVE  Scanned(f, m + 1, ScanLine(ce, f[m + 1]))
<1>1. f[m + 1] \in FileLines
  BY ElementOfSeq
<1>2. f[m + 1].name \in Words /\ f[m + 1].value \in Values
  BY <1>1 DEF FileLines
<1>3. ce # None /\ WellFormed(f[m + 1])
  BY DEF ScanLine
<1>4. f[m + 1].kind \in {"comment", "section", "key"}
  BY <1>3 DEF WellFormed
<1>5. CASE f[m + 1].kind = "comment"
  BY <1>3, <1>5, CommentScanned DEF ScanLine
<1>6. CASE f[m + 1].kind = "section"
  <2>1. ScanLine(ce, f[m + 1]) = AddSection(ce, f[m + 1].name)
    BY <1>3, <1>6 DEF ScanLine
  <2>2. QED
    BY <1>2, <1>6, <2>1, SectionScanned
<1>7. CASE f[m + 1].kind = "key"
  <2>1. ScanLine(ce, f[m + 1]) = AddKey(ce, f[m + 1].name, f[m + 1].value)
    BY <1>3, <1>7 DEF ScanLine
  <2>2. CASE ce = NoSections
    <3>1. ScanLine(ce, f[m + 1]) = ce
      BY <2>1, <2>2 DEF AddKey
    <3>2. QED
      BY <1>7, <2>2, <3>1, KeyDropped
  <2>3. CASE ce # NoSections
    BY <1>2, <1>7, <2>1, <2>3, KeyScanned
  <2>4. QED
    BY <2>2, <2>3
<1>8. QED
  BY <1>4, <1>5, <1>6, <1>7

LEMMA AllScanned ==
  ASSUME NEW f \in Seq(FileLines), ConfReadScan(f) # None
  PROVE  Scanned(f, Len(f), ConfReadScan(f))
<1>1. PICK g : ScansTo(f, g) /\ ConfReadScan(f) = g[Len(f)]
  BY ScanIs
<1>2. Len(f) \in Nat
  BY LenProperties
<1> DEFINE Bad == {n \in 0 .. Len(f) : g[n] # None /\ ~Scanned(f, n, g[n])}
<1>3. Bad \in SUBSET Nat
  BY <1>2
<1>4. ASSUME Bad # {} PROVE FALSE
  <2>1. PICK n \in Bad : \A k \in Bad : ~(k < n)
    <3> HIDE DEF Bad
    <3>1. QED
      BY <1>3, <1>4, HasLeast
  <2>2. n \in 0 .. Len(f) /\ g[n] # None /\ ~Scanned(f, n, g[n])
    BY <2>1
  <2>3. n # 0
    BY <1>1, <1>2, <2>2, NothingScanned DEF ScansTo
  <2>4. PICK m \in Nat : n = m + 1 /\ m \in 0 .. Len(f) /\ m + 1 \in 1 .. Len(f)
    <3>1. n - 1 \in Nat /\ n = (n - 1) + 1
      BY <1>2, <2>2, <2>3
    <3>2. QED
      BY <1>2, <2>2, <2>3, <3>1
  <2>5. g[n] = ScanLine(g[m], f[m + 1])
    <3>1. g[n] = ScanLine(g[n - 1], f[n])
      BY <1>1, <2>2, <2>3 DEF ScansTo
    <3>2. QED
      BY <2>4, <3>1
  <2>6. g[m] # None
    BY <2>2, <2>5 DEF ScanLine
  <2>7. Scanned(f, m, g[m])
    <3>1. m < n
      BY <2>4
    <3>2. QED
      BY <2>1, <2>4, <2>6, <3>1
  <2>8. Scanned(f, m + 1, ScanLine(g[m], f[m + 1]))
    BY <2>2, <2>4, <2>5, <2>7, LineScanned
  <2>9. QED
    BY <2>2, <2>4, <2>5, <2>8
<1>5. QED
  BY <1>1, <1>2, <1>4

(***************************************************************************)
(* What ConfReadValueBySectKey finds in the sections is what the lines     *)
(* say.                                                                    *)
(***************************************************************************)
LEMMA ValueIsAssigned ==
  ASSUME NEW f \in Seq(FileLines), ConfReadScan(f) # None, NEW key
  PROVE  ValueBySectKey(ConfReadScan(f), "control", key) = Assigned(f, key)
<1>1. PICK ce, n : ce = ConfReadScan(f) /\ n = Len(f)
  OBVIOUS
<1>2. Scanned(f, n, ce)
  BY <1>1, AllScanned
<1>3. ce \in Seq(Sections) /\ n \in Nat /\ Len(ce) \in Nat
  BY <1>1, <1>2, LenProperties DEF Scanned
<1>4. /\ FindSection(ce, "control") =
           IF ControlAt(ce) = {} THEN None ELSE ce[First(ControlAt(ce))]
      /\ ControlAt(ce) \in SUBSET Nat
  BY DEF FindSection, ControlAt
<1>5. /\ Assigned(f, key) = IF AssignedAt(f, n, key) = {} THEN None
                            ELSE f[First(AssignedAt(f, n, key))].value
      /\ AssignedAt(f, n, key) \in SUBSET Nat
  BY <1>1 DEF Assigned, AssignedAt
<1>6. CASE ControlAt(ce) = {}
  <2>1. AssignedAt(f, n, key) = {}
    BY <1>2, <1>3, <1>6, NothingAssigned DEF Scanned
  <2>2. QED
    BY <1>1, <1>4, <1>5, <1>6, <2>1 DEF ValueBySectKey
<1>7. CASE ControlAt(ce) # {}
  <2>1. PICK p, s : p = First(ControlAt(ce)) /\ s = ce[p]
    OBVIOUS
  <2>2. p \in ControlAt(ce) /\ \A q \in ControlAt(ce) : p <= q
    BY <1>4, <1>7, <2>1, FirstIn
  <2>3. SameFirst(f, n, s, key)
    BY <1>2, <2>1, <2>2 DEF Scanned
  <2>4. s \in Sections
    BY <1>3, <2>1, <2>2, ElementOfSeq DEF ControlAt
  <2>5. s # None
    BY <2>4, ConfReadAssumption DEF ConfReadAssumption
  <2>6. ValueBySectKey(ce, "control", key) = FindKey(s, key)
    BY <1>4, <1>7, <2>1, <2>5 DEF ValueBySectKey
  <2>7. /\ FindKey(s, key) = IF KeysAt(s, key) = {} THEN None
                             ELSE s.keys[First(KeysAt(s, key))].value
        /\ KeysAt(s, key) \in SUBSET Nat
    BY DEF FindKey, KeysAt
  <2>8. CASE KeysAt(s, key) = {} /\ AssignedAt(f, n, key) = {}
    BY <1>1, <1>5, <2>6, <2>7, <2>8
  <2>9. CASE ~(KeysAt(s, key) = {} /\ AssignedAt(f, n, key) = {})
    <3>1. PICK i \in KeysAt(s, key), j \in AssignedAt(f, n, key) :
            /\ \A x \in KeysAt(s, key) : i <= x
            /\ \A y \in AssignedAt(f, n, key) : j <= y
            /\ s.keys[i].value = f[j].value
      BY <2>3, <2>9 DEF SameFirst
    <3>2. First(KeysAt(s, key)) = i
      BY <2>7, <3>1, FirstIs
    <3>3. First(AssignedAt(f, n, key)) = j
      BY <1>5, <3>1, FirstIs
    <3>4. QED
      BY <1>1, <1>5, <2>6, <2>7, <3>1, <3>2, <3>3
  <2>10. QED
    BY <2>8, <2>9
<1>8. QED
  BY <1>6, <1>7

----------------------------------------------------------------------------
(* Who is served.                                                          *)

\* The list is that of the file, and the decision that of the list.
AccessInv ==
  /\ files \in FileLists
  /\ state = "serves" =>
       /\ Config # None /\ GenOK(Control("allow"), Control("deny"))
       /\ acl = GenACL(Control("allow"), Control("deny"))
  /\ conn # "none" =>
       /\ state = "serves"
       /\ conn = IF CheckACL(acl, peer) THEN "served" ELSE "denied"

LEMMA InitAccess == Init => AccessInv
  BY DEF Init, AccessInv

LEMMA AccessKept == AccessInv /\ [Next]_vars => AccessInv'
<1> SUFFICES ASSUME AccessInv, [Next]_vars PROVE AccessInv'
  OBVIOUS
<1>1. ASSUME UNCHANGED <<daemon, conn, peer>> PROVE AccessInv'
  BY <1>1 DEF AccessInv, daemon, Config, FileIndex, Control
<1>2. ASSUME Start PROVE AccessInv'
  <2>1. files' = files /\ conn' = conn /\ conn = "none"
    BY <1>2 DEF Start, AccessInv
  <2>2. state' = "serves" =>
          /\ Config # None /\ GenOK(Control("allow"), Control("deny"))
          /\ acl' = GenACL(Control("allow"), Control("deny"))
    BY <1>2 DEF Start, Become
  <2>3. QED
    BY <2>1, <2>2 DEF AccessInv, Config, FileIndex, Control
<1>3. ASSUME NEW a \in Peers, Connect(a) PROVE AccessInv'
  BY <1>3 DEF Connect, AccessInv, daemon, Config, FileIndex, Control
<1>4. QED
  BY <1>1, <1>2, <1>3 DEF Next, Transfer, vars

LEMMA AssignedType ==
  ASSUME NEW f \in Seq(FileLines), NEW key
  PROVE  Assigned(f, key) \in Values \union {None}
<1> DEFINE is == {i \in 1 .. Len(f) : Assigns(f, i, key)}
<1>1. Assigned(f, key) = IF is = {} THEN None ELSE f[First(is)].value
  BY DEF Assigned
<1>2. is \in SUBSET Nat /\ is \subseteq 1 .. Len(f)
  OBVIOUS
<1> HIDE DEF is
<1>3. ASSUME is # {} PROVE f[First(is)].value \in Values
  <2>1. First(is) \in 1 .. Len(f)
    BY <1>2, <1>3, FirstIn
  <2>2. f[First(is)] \in FileLines
    BY <2>1, ElementOfSeq
  <2>3. QED
    BY <2>2 DEF FileLines
<1>4. QED
  BY <1>1, <1>3

\* No file: nothing is assigned, and everybody is served.
LEMMA NoFile ==
  ASSUME FileIndex = 0, NEW key
  PROVE  Control(key) = None
<1>1. Config = NoSections /\ Len(NoSections) = 0
  BY EmptySeq DEF Config, NoSections
<1>2. FindSection(NoSections, "control") = None
  BY <1>1 DEF FindSection
<1>3. QED
  BY <1>1, <1>2 DEF Control, ValueBySectKey

LEMMA TheFile ==
  ASSUME AccessInv, FileIndex # 0
  PROVE  /\ files[FileIndex] \in Seq(FileLines)
         /\ Config = ConfReadScan(files[FileIndex])
<1> DEFINE is == {i \in 1 .. Len(files) : files[i] # None}
<1>1. is \in SUBSET Nat
  OBVIOUS
<1>2. is # {} /\ FileIndex = First(is)
  BY DEF FileIndex
<1>3. FileIndex \in is
  <2> HIDE DEF is
  <2>1. QED
    BY <1>1, <1>2, FirstIn
<1>4. FileIndex \in 1 .. Len(files) /\ files[FileIndex] # None
  BY <1>3
<1>5. files \in Seq(Seq(FileLines) \union {None})
  BY CommandSocketAssumption DEF CommandSocketAssumption, AccessInv
<1>6. files[FileIndex] \in Seq(FileLines)
  BY <1>4, <1>5, ElementOfSeq
<1>7. QED
  BY <1>6 DEF Config

LEMMA Decided == AccessInv => AccessRight
<1> SUFFICES ASSUME AccessInv, conn # "none",
                    FileIndex # 0 => WholeOctets(files[FileIndex])
             PROVE  conn = "served"
                      <=> FileIndex = 0 \/ Permitted(files[FileIndex], peer)
  BY DEF AccessRight
<1> DEFINE allow == Control("allow")
           deny  == Control("deny")
<1>1. /\ Config # None /\ GenOK(allow, deny)
      /\ conn = "served" <=> CheckACL(GenACL(allow, deny), peer)
  BY DEF AccessInv
<1>2. CASE FileIndex = 0
  <2>1. allow = None /\ deny = None
    BY <1>2, NoFile
  <2>2. CheckACL(GenACL(allow, deny), peer)
    BY <2>1 DEF GenACL, CheckACL
  <2>3. QED
    BY <1>1, <1>2, <2>2
<1>3. CASE FileIndex # 0
  <2>1. PICK f : f = files[FileIndex]
    OBVIOUS
  <2>2. f \in Seq(FileLines) /\ Config = ConfReadScan(f) /\ WholeOctets(f)
    BY <1>3, <2>1, TheFile
  <2>3. \A key : Control(key) = Assigned(f, key)
    BY <1>1, <2>2, ValueIsAssigned DEF Control
  <2>4. /\ allow \in Values \union {None} /\ Whole(allow)
        /\ deny \in Values \union {None} /\ Whole(deny)
    BY <2>2, <2>3, AssignedType DEF WholeOctets, Whole
  <2>5. allow = Assigned(f, "allow") /\ deny = Assigned(f, "deny")
    BY <2>3
  <2> HIDE DEF allow, deny
  <2>6. CheckACL(GenACL(allow, deny), peer) <=>
          \/ deny = None
          \/ deny # All /\ ~CoveredBy(deny, peer)
          \/ CoveredBy(allow, peer)
    BY <1>1, <2>4, ListsDecide
  <2>7. QED
    BY <1>1, <1>3, <2>1, <2>5, <2>6 DEF Permitted
<1>4. QED
  BY <1>2, <1>3

(***************************************************************************)
(* AccessRight for all files, networks and addresses, and every width of   *)
(* an address: ConfReadScan, SocketGenACL and SocketCheckACL serve whom    *)
(* the first section [control] of the first file permits.                  *)
(***************************************************************************)
THEOREM AccessIsRight == Spec => []AccessRight
  BY InitAccess, AccessKept, Decided, PTL DEF Spec

----------------------------------------------------------------------------
(* Types.                                                                  *)

LEMMA InitType == Init => TypeOK
<1> SUFFICES ASSUME Init PROVE TypeOK
  OBVIOUS
<1>1. MaxPrints \in Nat /\ Capacity \in Nat /\ net = <<>> /\ Len(net) = 0
  BY EmptySeq, LineIOAssumption DEF Init, InitIO, LineIOAssumption
<1>2. QED
  BY <1>1 DEF Init, InitIO, TypeOK

LEMMA TypeKept == TypeOK /\ QueueInv' /\ [Next]_vars => TypeOK'
<1> SUFFICES ASSUME TypeOK, QueueInv', [Next]_vars PROVE TypeOK'
  OBVIOUS
<1>1. Len(net') <= Capacity
  BY DEF QueueInv
<1>2. ASSUME UNCHANGED <<daemon, conn, peer>>, printed' \in 0 .. MaxPrints
      PROVE  TypeOK'
  BY <1>1, <1>2 DEF TypeOK, daemon
<1>3. ASSUME UNCHANGED vars PROVE TypeOK'
  BY <1>3 DEF TypeOK, vars, daemon, io, writer
<1>4. ASSUME Start PROVE TypeOK'
  <2>1. /\ state' \in {"serves", "fatal", "aborted"}
        /\ listening' \subseteq Families
        /\ UNCHANGED <<files, conn, peer, io>>
    BY <1>4 DEF Start, Become
  <2>2. QED
    BY <1>1, <2>1 DEF TypeOK, io, writer
<1>5. ASSUME NEW a \in Peers, Connect(a) PROVE TypeOK'
  BY <1>1, <1>5 DEF Connect, TypeOK, daemon, io, writer
<1>6. ASSUME Transfer(NextIO) PROVE TypeOK'
  <2>1. UNCHANGED <<daemon, conn, peer>> /\ NextIO
    BY <1>6 DEF Transfer
  <2>2. printed \in 0 .. MaxPrints
    BY DEF TypeOK
  <2>3. \/ printed' = printed
        \/ printed < MaxPrints /\ printed' = printed + 1
    BY <2>1 DEF NextIO, SocketPrintf, Push, Close, BeginRead, Read, ReadByte,
                ReadEOF, ReadError, ReadTimeOut, Drip, writer
  <2>4. printed' \in 0 .. MaxPrints
    BY <2>2, <2>3, LineIOAssumption DEF LineIOAssumption
  <2>5. QED
    BY <1>2, <2>1, <2>4
<1>7. QED
  BY <1>3, <1>4, <1>5, <1>6 DEF Next

(***************************************************************************)
(* TypeOK for all values of the constants: what main, the listener and the *)
(* two ends of a connection set their variables to, and that no more bytes *)
(* are on their way than the kernel's buffers hold.                        *)
(***************************************************************************)
THEOREM TypeCorrect == Spec => []TypeOK
<1>1. LineInv /\ QueueInv /\ [Next]_vars => QueueInv'
  BY ChannelStep
<1>2. QED
  BY InitLine, InitQueue, InitType, LineKept, TypeKept, <1>1, PTL DEF Spec

============================================================================

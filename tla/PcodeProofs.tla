---------------------------- MODULE PcodeProofs -----------------------------
(***************************************************************************)
(* Theorems about scripts (Pcode), for every script, however its ifs are   *)
(* nested and follow each other: the jumps that the parser installs by     *)
(* searching backwards make the loop of ParserExecPcode execute what the   *)
(* text means.                                                             *)
(*                                                                         *)
(* The structure of the code is described by operators on a code c and the *)
(* ifs o that are being read, so that what a step adds to them can be      *)
(* compared with what there was.                                           *)
(***************************************************************************)
EXTENDS Pcode, SequenceTheorems, TLAPS

\* The two branches of an if, and the places in between.
Branches == {"then", "else"}
Parts == Branches \union {"test", "keyword"}

\* The kinds of instructions.
Blocks == {"begin", "end"}
Ops == {"assign", "xplcmd", "spawn", "test2", "exists"} \union Blocks

\* An assignment is to a variable.
Ins == {x \in [op : Ops, a : Operands \union Hashes, b : Operands,
               refs : Nat, skip : Nat, path : SUBSET (Nat \X Parts)] :
          x.op = "assign" => x.a \in Vars}

\* An if that is being read, by the place of its test.
Ifs == [id : Nat, part : Parts]

----------------------------------------------------------------------------
(* The structure of the code.                                              *)

\* The branches among the parts of ifs that an instruction is in.
Real(path) == {q \in path : q[2] \in Branches}

\* The parts of the outermost n ifs.
Outer(o, n) == {<<o[m].id, o[m].part>> : m \in 1 .. n}

\* The path of the instruction after the i-th, which may yet have to come.
Follows(c, o, i) == IF i < Len(c) THEN c[i + 1].path ELSE Outer(o, Len(o))

\* An instruction is in parts of earlier ifs, a statement or test in branches.
Paths(c) ==
  \A i \in 1 .. Len(c) :
    /\ c[i].path \subseteq (1 .. i - 1) \X Parts
    /\ c[i].op \notin Blocks => c[i].path \subseteq Real(c[i].path)

\* A branch is entered at the beginning of a block only.
Flows(c, o) ==
  \A i \in 1 .. Len(c) :
    IF c[i].op # "begin"
    THEN Real(Follows(c, o, i)) \subseteq c[i].path
    ELSE /\ i > 1
         /\ \/ c[i - 1].op = "end"
            \/ /\ IsTest(c[i - 1])
               /\ Real(Follows(c, o, i))
                    \subseteq c[i].path \union {<<i - 1, "then">>}

\* The instructions from i to j are in the branch q.
Within(c, q, i, j) == \A k \in i .. j : q \in c[k].path

\* The first block of the test t ends at e.
FirstBlock(c, t, e) ==
  /\ e \in t + 2 .. Len(c)
  /\ c[t + 1].op = "begin" /\ c[e].op = "end"
  /\ Within(c, <<t, "then">>, t + 2, e)

\* A second block begins after e.
SecondBlock(c, o, t, e) ==
  /\ FirstBlock(c, t, e) /\ e < Len(c) /\ c[e + 1].op = "begin"
  /\ c[t].path \subseteq c[e].path
  /\ Real(Follows(c, o, e + 1)) \subseteq c[t].path \union {<<t, "else">>}

\* The if of the test t ends at k: what follows is where the test was.
Closes(c, o, t, k) ==
  /\ k \in t + 1 .. Len(c)
  /\ c[k].op = "end" /\ c[k].skip = Nowhere /\ c[k].refs = c[t].refs
  /\ \A i \in t + 1 .. k : IsTest(c[i]) => c[i].refs > c[t].refs
  /\ Real(Follows(c, o, k)) \subseteq c[t].path

\* An if without else: its test jumps to the end of its block.
WholeIf(c, o, t, e) ==
  c[t].skip = e /\ FirstBlock(c, t, e) /\ Closes(c, o, t, e)

\* An if with else: its test jumps to the beginning of the second block, and
\* the end of the first over the second.
WholeElse(c, o, t, e, k) ==
  /\ c[t].skip = e + 1 /\ c[e].skip = k
  /\ SecondBlock(c, o, t, e)
  /\ k \in e + 2 .. Len(c) /\ Closes(c, o, t, k)
  /\ Within(c, <<t, "else">>, e + 2, k)

\* The if of the test t has been read to its end, and has its jumps.
Whole(c, o, t) ==
  \E e \in 1 .. Len(c) :
    WholeIf(c, o, t, e) \/ \E k \in 1 .. Len(c) : WholeElse(c, o, t, e, k)

\* The ends of blocks after the test t, of ifs of n levels.
EndsOf(c, t, n) ==
  {i \in t + 1 .. Len(c) : c[i].op = "end" /\ c[i].refs = n}

\* The parts of an if that is being read: its test was the last to come; its
\* first block is open; the keyword else has come.
InTest(c, t) == t = Len(c)

InThen(c, t, n) ==
  /\ t < Len(c) /\ c[t + 1].op = "begin"
  /\ Within(c, <<t, "then">>, t + 2, Len(c))
  /\ EndsOf(c, t, n) = {}

AtKeyword(c, t, n) ==
  /\ FirstBlock(c, t, Len(c)) /\ c[Len(c)].skip = Nowhere
  /\ EndsOf(c, t, n) = {Len(c)}

\* The first block has ended at e.
Elsewhere(c, o, t, n, e) ==
  /\ SecondBlock(c, o, t, e) /\ c[e].skip = Nowhere
  /\ EndsOf(c, t, n) = {e}
  /\ Within(c, <<t, "else">>, e + 2, Len(c))

InElse(c, o, t, n) == \E e \in 1 .. Len(c) : Elsewhere(c, o, t, n, e)

\* The test of the n-th if that is being read, and what came since.
Begun(c, o, t, n) ==
  /\ t \in 1 .. Len(c) /\ IsTest(c[t]) /\ c[t].refs = n
  /\ c[t].skip = Nowhere
  /\ c[t].path = Outer(o, n - 1)
  /\ \A i \in t .. Len(c) : c[i].refs >= n /\ c[t].path \subseteq c[i].path
  /\ \A i \in t + 1 .. Len(c) : IsTest(c[i]) => c[i].refs > n

\* The n-th if is where the parser has it, and all outside of it are in blocks.
Opened(c, o, n) ==
  LET t == o[n].id
  IN /\ Begun(c, o, t, n)
     /\ n < Len(o) => o[n].part \in Branches
     /\ \/ o[n].part = "test" /\ InTest(c, t)
        \/ o[n].part = "then" /\ InThen(c, t, n)
        \/ o[n].part = "keyword" /\ AtKeyword(c, t, n)
        \/ o[n].part = "else" /\ InElse(c, o, t, n)

\* So is each if that is being read.
OpenIfs(c, o) == \A n \in 1 .. Len(o) : Opened(c, o, n)

\* An if is being read or whole.
Tested(c, o) ==
  \A t \in 1 .. Len(c) :
    IsTest(c[t]) => Whole(c, o, t) \/ \E n \in 1 .. Len(o) : t = o[n].id

\* A jump from the end of a block leads over the second block of an if, and
\* is there unless the if is being read.
Jumps(c, o) ==
  \A i \in 1 .. Len(c) :
    c[i].op = "end" =>
      IF c[i].skip # Nowhere
      THEN /\ i < Len(c) /\ c[i + 1].op = "begin"
           /\ \E t \in 1 .. i : IsTest(c[t]) /\ c[t].skip = i + 1
      ELSE i < Len(c) /\ c[i + 1].op = "begin" =>
             \E n \in 1 .. Len(o) :
               o[n].part = "else" /\ i \in EndsOf(c, o[n].id, n)

\* No jump goes back, or out of the code.
Forward(c) ==
  \A i \in 1 .. Len(c) : c[i].skip # Nowhere => c[i].skip \in i + 1 .. Len(c)

\* The structure of the code.
Struct(c, o) ==
  /\ Paths(c) /\ Flows(c, o) /\ OpenIfs(c, o) /\ Tested(c, o) /\ Jumps(c, o)
  /\ Forward(c)

----------------------------------------------------------------------------
(* Operations on codes.                                                    *)

\* d is c with one more instruction; jumps apart, the others are the same.
Emits(c, o, d, op, r) ==
  /\ d \in Seq(Ins) /\ Len(d) = Len(c) + 1
  /\ \A i \in 1 .. Len(c) :
       d[i].op = c[i].op /\ d[i].refs = c[i].refs /\ d[i].path = c[i].path
  /\ d[Len(d)].op = op /\ d[Len(d)].refs = r
  /\ d[Len(d)].path = Outer(o, Len(o)) /\ d[Len(d)].skip = Nowhere

\* The jumps are the same, but at the instructions in S.
SkipsStay(c, d, S) == \A i \in (1 .. Len(c)) \ S : d[i].skip = c[i].skip

\* What is known of an instruction of a code.
LEMMA InsType ==
  ASSUME NEW c \in Seq(Ins), NEW i \in 1 .. Len(c)
  PROVE  /\ c[i] \in Ins /\ c[i].op \in Ops /\ c[i].refs \in Nat
         /\ c[i].skip \in Nat /\ c[i].path \subseteq Nat \X Parts
<1>1. c[i] \in Ins
  BY ElementOfSeq
<1>2. QED
  BY <1>1 DEF Ins

\* The path of what is emitted is that of the ifs that are being read.
LEMMA OuterType ==
  ASSUME NEW o \in Seq(Ifs), NEW n \in 0 .. Len(o)
  PROVE  Outer(o, n) \subseteq Nat \X Parts
<1>1. \A m \in 1 .. n : o[m] \in Ifs
  BY ElementOfSeq, LenProperties
<1>2. \A m \in 1 .. n : o[m].id \in Nat /\ o[m].part \in Parts
  BY <1>1 DEF Ifs
<1>3. QED
  BY <1>2 DEF Outer

\* ParserPcodeEmit.
LEMMA EmittedIs ==
  ASSUME code \in Seq(Ins), open \in Seq(Ifs), NEW x, NEW r \in Nat,
         x.op \in Ops, x.a \in Operands \union Hashes, x.b \in Operands,
         x.op = "assign" => x.a \in Vars
  PROVE  /\ Emits(code, open, Emitted(x, r), x.op, r)
         /\ SkipsStay(code, Emitted(x, r), {})
<1> DEFINE y == [op |-> x.op, a |-> x.a, b |-> x.b, refs |-> r,
                 skip |-> Nowhere, path |-> Path]
<1>1. Path = Outer(open, Len(open))
  BY DEF Path, Outer
<1>2. Path \subseteq Nat \X Parts
  BY <1>1, OuterType, LenProperties
<1>3. y \in Ins
  BY <1>2 DEF Ins, Nowhere
<1>4. Emitted(x, r) = Append(code, y)
  BY DEF Emitted
<1>5. y.op = x.op /\ y.refs = r /\ y.path = Path /\ y.skip = Nowhere
  OBVIOUS
<1> HIDE DEF y
<1>6. /\ Append(code, y) \in Seq(Ins) /\ Len(Append(code, y)) = Len(code) + 1
      /\ \A i \in 1 .. Len(code) : Append(code, y)[i] = code[i]
      /\ Append(code, y)[Len(code) + 1] = y
  BY <1>3, AppendProperties
<1>7. QED
  BY <1>1, <1>4, <1>5, <1>6 DEF Emits, SkipsStay

\* Setting a jump.
LEMMA JumpSet ==
  ASSUME NEW c \in Seq(Ins), NEW j \in 1 .. Len(c), NEW v \in Nat
  PROVE  LET d == [c EXCEPT ![j].skip = v]
         IN  /\ d \in Seq(Ins) /\ Len(d) = Len(c)
             /\ \A i \in 1 .. Len(c) :
                  /\ d[i].op = c[i].op /\ d[i].refs = c[i].refs
                  /\ d[i].path = c[i].path
                  /\ d[i].skip = IF i = j THEN v ELSE c[i].skip
<1> DEFINE d == [c EXCEPT ![j].skip = v]
           x == [c[j] EXCEPT !.skip = v]
<1>1. c[j] \in Ins
  BY ElementOfSeq
<1>2. /\ x \in Ins /\ x.skip = v /\ x.op = c[j].op /\ x.refs = c[j].refs
      /\ x.path = c[j].path
  BY <1>1 DEF Ins
<1>3. d = [c EXCEPT ![j] = x]
  OBVIOUS
<1> HIDE DEF x, d
<1>4. d \in Seq(Ins) /\ Len(d) = Len(c)
  BY <1>2, <1>3, ExceptSeq
<1>5. \A i \in 1 .. Len(c) : d[i] = IF i = j THEN x ELSE c[i]
  BY <1>3, LenProperties
<1>6. QED
  BY <1>2, <1>4, <1>5 DEF d

\* Last is the greatest element of a set that has one.
LEMMA LastIs ==
  ASSUME NEW S \in SUBSET Nat, NEW m \in S, \A j \in S : j <= m
  PROVE  Last(S) = m
<1>1. \E i \in S : \A j \in S : j <= i
  OBVIOUS
<1>2. Last(S) \in S /\ \A j \in S : j <= Last(S)
  BY <1>1 DEF Last
<1>3. Last(S) \in Nat /\ m \in Nat /\ Last(S) <= m /\ m <= Last(S)
  BY <1>2
<1>4. QED
  BY <1>3

----------------------------------------------------------------------------
(* What stays when an instruction is added.                                *)

\* ParserPcodeEmit appends: what followed an instruction still follows it.
LEMMA FollowsStays ==
  ASSUME NEW c \in Seq(Ins), NEW o, NEW d, NEW op, NEW r, Emits(c, o, d, op, r),
         NEW o2, NEW i \in 1 .. Len(c)
  PROVE  Follows(d, o2, i) = Follows(c, o, i)
<1>1. Len(c) \in Nat /\ i < Len(d) /\ (i < Len(c) => i + 1 \in 1 .. Len(c))
  BY LenProperties DEF Emits
<1>2. CASE i < Len(c)
  BY <1>1, <1>2 DEF Follows, Emits
<1>3. CASE i = Len(c)
  BY <1>1, <1>3 DEF Follows, Emits
<1>4. QED
  BY <1>1, <1>2, <1>3

\* The instructions of a branch stay in it, emitted code is not changed.
LEMMA WithinStays ==
  ASSUME NEW c \in Seq(Ins), NEW o, NEW d, NEW op, NEW r, Emits(c, o, d, op, r),
         NEW i \in Nat, i >= 1, NEW j \in Nat, j <= Len(c),
         NEW q, Within(c, q, i, j)
  PROVE  Within(d, q, i, j)
<1>1. \A k \in i .. j : k \in 1 .. Len(c)
  BY LenProperties
<1>2. \A k \in i .. j : d[k].path = c[k].path
  BY <1>1 DEF Emits
<1>3. QED
  BY <1>2 DEF Within

\* The first block of an if stays where it is.
LEMMA FirstStays ==
  ASSUME NEW c \in Seq(Ins), NEW o, NEW d, NEW op, NEW r, Emits(c, o, d, op, r),
         NEW t \in 1 .. Len(c), NEW e, FirstBlock(c, t, e)
  PROVE  FirstBlock(d, t, e)
<1>1. /\ Len(c) \in Nat /\ t + 1 \in 1 .. Len(c) /\ e \in 1 .. Len(c)
  BY LenProperties DEF FirstBlock
<1>2. d[t + 1].op = "begin" /\ d[e].op = "end" /\ Len(d) = Len(c) + 1
  BY <1>1 DEF FirstBlock, Emits
<1>3. Within(d, <<t, "then">>, t + 2, e)
  BY <1>1, WithinStays, SMTT(20) DEF FirstBlock
<1>4. QED
  BY <1>1, <1>2, <1>3 DEF FirstBlock

\* So does the beginning of its second block.
LEMMA SecondStays ==
  ASSUME NEW c \in Seq(Ins), NEW o, NEW d, NEW op, NEW r, Emits(c, o, d, op, r),
         NEW t \in 1 .. Len(c), NEW e, SecondBlock(c, o, t, e), NEW o2
  PROVE  SecondBlock(d, o2, t, e)
<1>1. FirstBlock(d, t, e)
  BY FirstStays DEF SecondBlock
<1>2. /\ Len(c) \in Nat /\ e \in 1 .. Len(c) /\ e + 1 \in 1 .. Len(c)
      /\ Len(d) = Len(c) + 1
  BY LenProperties DEF FirstBlock, SecondBlock, Emits
<1>3. Follows(d, o2, e + 1) = Follows(c, o, e + 1)
  BY <1>2, FollowsStays
<1>4. d[e + 1].op = "begin" /\ d[t].path = c[t].path /\ d[e].path = c[e].path
  BY <1>2 DEF SecondBlock, Emits
<1>5. QED
  BY <1>1, <1>2, <1>3, <1>4 DEF SecondBlock

\* So does the end of an if, while no jump is set there.
LEMMA ClosesStays ==
  ASSUME NEW c \in Seq(Ins), NEW o, NEW d, NEW op, NEW r, Emits(c, o, d, op, r),
         NEW t \in 1 .. Len(c), NEW k, Closes(c, o, t, k), NEW o2,
         d[k].skip = c[k].skip
  PROVE  Closes(d, o2, t, k)
<1>1. /\ Len(c) \in Nat /\ k \in 1 .. Len(c) /\ Len(d) = Len(c) + 1
      /\ \A i \in t + 1 .. k : i \in 1 .. Len(c)
  BY LenProperties DEF Closes, Emits
<1>2. Follows(d, o2, k) = Follows(c, o, k)
  BY <1>1, FollowsStays
<1>3. /\ d[k].op = "end" /\ d[k].skip = Nowhere /\ d[k].refs = d[t].refs
      /\ d[t].path = c[t].path
      /\ \A i \in t + 1 .. k : IsTest(d[i]) => d[i].refs > d[t].refs
  BY <1>1 DEF Closes, Emits, IsTest
<1>4. QED
  BY <1>1, <1>2, <1>3 DEF Closes

\* A whole if stays one, if no jump of its is set.
LEMMA WholeStays ==
  ASSUME NEW c \in Seq(Ins), NEW o, NEW d, NEW op, NEW r, Emits(c, o, d, op, r),
         NEW S, SkipsStay(c, d, S), NEW o2,
         NEW t \in 1 .. Len(c), Whole(c, o, t),
         \A i \in S : c[i].skip = Nowhere /\ ~Closes(c, o, t, i)
  PROVE  Whole(d, o2, t)
<1>0. Len(c) \in Nat /\ Len(d) = Len(c) + 1 /\ t \in Nat
  BY LenProperties DEF Emits
<1>1. PICK e \in 1 .. Len(c) :
        WholeIf(c, o, t, e) \/ \E k \in 1 .. Len(c) : WholeElse(c, o, t, e, k)
  BY DEF Whole
<1>2. d[t].skip = c[t].skip
  BY <1>0, <1>1 DEF WholeIf, WholeElse, FirstBlock, SkipsStay, Nowhere
<1>3. ASSUME NEW k \in 1 .. Len(c), Closes(c, o, t, k)
      PROVE  Closes(d, o2, t, k)
  BY <1>3, ClosesStays DEF SkipsStay
<1>4. CASE WholeIf(c, o, t, e)
  <2>1. d[t].skip = e /\ FirstBlock(d, t, e) /\ Closes(d, o2, t, e)
    BY <1>2, <1>3, <1>4, FirstStays DEF WholeIf
  <2>2. QED
    BY <1>0, <2>1 DEF Whole, WholeIf
<1>5. ASSUME NEW k \in 1 .. Len(c), WholeElse(c, o, t, e, k)
      PROVE  Whole(d, o2, t)
  <2>1. SecondBlock(d, o2, t, e) /\ Closes(d, o2, t, k)
    BY <1>3, <1>5, SecondStays DEF WholeElse
  <2>2. d[e].skip = k
    BY <1>0, <1>5 DEF WholeElse, SkipsStay, Nowhere
  <2>3. k \in e + 2 .. Len(d) /\ Within(d, <<t, "else">>, e + 2, k)
    <3>1. e + 2 \in Nat /\ e + 2 >= 1 /\ k \in Nat /\ k <= Len(c)
      BY <1>0
    <3>2. QED
      BY <1>0, <1>5, <3>1, WithinStays DEF WholeElse
  <2>4. d[t].skip = e + 1
    BY <1>2, <1>5 DEF WholeElse
  <2>5. QED
    BY <1>0, <2>1, <2>2, <2>3, <2>4 DEF Whole, WholeElse
<1>6. QED
  BY <1>1, <1>4, <1>5

\* The end of a block of an if that is being read closes no other if.
LEMMA ClosesNone ==
  ASSUME NEW c \in Seq(Ins), NEW o,
         NEW u \in Nat, NEW n \in Nat, Begun(c, o, u, n),
         NEW i \in u .. Len(c), c[i].refs = n,
         NEW t \in 1 .. Len(c), IsTest(c[t]), Whole(c, o, t)
  PROVE  ~Closes(c, o, t, i)
<1>0. /\ Len(c) \in Nat /\ t \in Nat /\ i \in Nat /\ u \in 1 .. Len(c)
      /\ i \in 1 .. Len(c)
  BY LenProperties DEF Begun
<1>1. c[t].skip # Nowhere
  BY <1>0 DEF Whole, WholeIf, WholeElse, FirstBlock, Nowhere
<1>2. SUFFICES ASSUME Closes(c, o, t, i) PROVE FALSE
  OBVIOUS
<1>3. c[t].refs = n /\ i > t
  BY <1>0, <1>2 DEF Closes
<1>4. t # u /\ IsTest(c[u]) /\ c[u].refs = n
  BY <1>1 DEF Begun
<1>5. CASE t < u
  BY <1>0, <1>2, <1>3, <1>4, <1>5 DEF Closes
<1>6. CASE t > u
  BY <1>0, <1>3, <1>6 DEF Begun
<1>7. QED
  BY <1>0, <1>4, <1>5, <1>6

\* What holds of the rest of the code holds of what is emitted.
LEMMA WithinGrows ==
  ASSUME NEW c \in Seq(Ins), NEW o, NEW d, NEW op, NEW r, Emits(c, o, d, op, r),
         NEW i \in Nat, i >= 1,
         NEW q, Within(c, q, i, Len(c)), q \in Outer(o, Len(o))
  PROVE  Within(d, q, i, Len(d))
<1>1. Len(c) \in Nat /\ Len(d) = Len(c) + 1
  BY LenProperties DEF Emits
<1>2. Within(d, q, i, Len(c))
  BY <1>1, WithinStays
<1>3. q \in d[Len(d)].path
  BY DEF Emits
<1>4. \A k \in i .. Len(d) : k \in i .. Len(c) \/ k = Len(d)
  BY <1>1
<1>5. QED
  BY <1>2, <1>3, <1>4 DEF Within

\* The ends of blocks of an if that is being read.
LEMMA EndsGrow ==
  ASSUME NEW c \in Seq(Ins), NEW o, NEW d, NEW op, NEW r, Emits(c, o, d, op, r),
         NEW t \in 1 .. Len(c), NEW n
  PROVE  /\ op = "end" /\ r = n
              => EndsOf(d, t, n) = EndsOf(c, t, n) \union {Len(d)}
         /\ op # "end" \/ r # n => EndsOf(d, t, n) = EndsOf(c, t, n)
<1>1. Len(c) \in Nat /\ Len(d) = Len(c) + 1
  BY LenProperties DEF Emits
<1>2. \A i : i \in t + 1 .. Len(d) <=> i \in t + 1 .. Len(c) \/ i = Len(d)
  BY <1>1
<1>3. \A i \in t + 1 .. Len(c) : i \in 1 .. Len(c)
  BY <1>1
<1>4. QED
  BY <1>2, <1>3 DEF EndsOf, Emits

\* The ifs around an if stay.
LEMMA OuterStays ==
  ASSUME NEW o, NEW o2, NEW n \in Nat, \A m \in 1 .. n : o2[m] = o[m]
  PROVE  Outer(o2, n) = Outer(o, n)
  BY DEF Outer

\* The branches around the n-th if are among those around what comes next.
LEMMA OuterGrows ==
  ASSUME NEW o \in Seq(Ifs), NEW n \in 1 .. Len(o)
  PROVE  /\ Outer(o, n - 1) \subseteq Outer(o, Len(o))
         /\ <<o[n].id, o[n].part>> \in Outer(o, Len(o))
         /\ Outer(o, n) = Outer(o, n - 1) \union {<<o[n].id, o[n].part>>}
<1>1. Len(o) \in Nat
  BY LenProperties
<1>2. \A m : m \in 1 .. n <=> m \in 1 .. n - 1 \/ m = n
  BY <1>1
<1>3. \A m \in 1 .. n : m \in 1 .. Len(o)
  BY <1>1
<1>4. QED
  BY <1>2, <1>3 DEF Outer

\* The test of an if that is being read.
LEMMA BegunStays ==
  ASSUME NEW c \in Seq(Ins), NEW o \in Seq(Ifs), NEW d, NEW op, NEW r \in Nat,
         Emits(c, o, d, op, r),
         NEW n \in 1 .. Len(o), NEW t, Begun(c, o, t, n), d[t].skip = Nowhere,
         NEW o2, \A m \in 1 .. n - 1 : o2[m] = o[m],
         r >= n, op \in {"test2", "exists"} => r > n
  PROVE  Begun(d, o2, t, n)
<1>1. /\ Len(c) \in Nat /\ Len(d) = Len(c) + 1 /\ t \in 1 .. Len(c)
      /\ n \in Nat
  BY LenProperties DEF Emits, Begun
<1>2. /\ t \in 1 .. Len(d) /\ IsTest(d[t])
      /\ d[t].refs = n /\ d[t].path = c[t].path
  BY <1>1 DEF Emits, Begun, IsTest
<1>3. d[t].path = Outer(o2, n - 1)
  <2>1. n - 1 \in Nat
    BY <1>1
  <2>2. Outer(o2, n - 1) = Outer(o, n - 1)
    BY <2>1, OuterStays
  <2>3. QED
    BY <1>2, <2>2 DEF Begun
<1>4. /\ d[t].path \subseteq d[Len(d)].path
      /\ d[Len(d)].refs = r /\ d[Len(d)].op = op
  <2>0. Outer(o, n - 1) \subseteq Outer(o, Len(o))
    BY OuterGrows
  <2>1. c[t].path \subseteq Outer(o, Len(o))
    BY <2>0 DEF Begun
  <2>2. QED
    BY <1>2, <2>1 DEF Emits
<1>5. \A i \in t .. Len(d) :
        (i \in t .. Len(c) /\ i \in 1 .. Len(c)) \/ i = Len(d)
  BY <1>1
<1>6. \A i \in t + 1 .. Len(d) :
        (i \in t + 1 .. Len(c) /\ i \in 1 .. Len(c)) \/ i = Len(d)
  BY <1>1
<1>7. \A i \in t .. Len(d) : d[i].refs >= n /\ d[t].path \subseteq d[i].path
  BY <1>1, <1>2, <1>4, <1>5 DEF Begun, Emits
<1>8. \A i \in t + 1 .. Len(d) : IsTest(d[i]) => d[i].refs > n
  BY <1>1, <1>4, <1>6 DEF Begun, Emits, IsTest
<1>9. QED
  BY <1>2, <1>3, <1>7, <1>8 DEF Begun

\* An if of which a block is being read, when what is emitted is no end of it.
LEMMA LevelStays ==
  ASSUME NEW c \in Seq(Ins), NEW o \in Seq(Ifs), NEW d, NEW op, NEW r \in Nat,
         Emits(c, o, d, op, r),
         NEW n \in 1 .. Len(o), Opened(c, o, n), o[n].part \in Branches,
         NEW o2, \A m \in 1 .. n : o2[m] = o[m],
         r >= n, op \in {"test2", "exists"} => r > n, op = "end" => r # n,
         NEW S, SkipsStay(c, d, S), \A i \in S : c[i].refs # n
  PROVE  Opened(d, o2, n)
<1> DEFINE t == o[n].id
<1>1. /\ Len(c) \in Nat /\ Len(d) = Len(c) + 1 /\ t \in 1 .. Len(c)
      /\ n \in Nat /\ o2[n] = o[n] /\ c[t].refs = n /\ c[t].skip = Nowhere
      /\ Begun(c, o, t, n)
  BY LenProperties DEF Emits, Opened, Begun
<1>2. d[t].skip = Nowhere
  BY <1>1 DEF SkipsStay
<1>3. Begun(d, o2, t, n)
  BY <1>1, <1>2, BegunStays
<1>4. <<t, o[n].part>> \in Outer(o, Len(o))
  BY OuterGrows
<1> HIDE DEF t
<1>5. EndsOf(d, t, n) = EndsOf(c, t, n)
  <2>1. op # "end" \/ r # n
    OBVIOUS
  <2>2. QED
    BY <1>1, <2>1, EndsGrow
<1>6. CASE o[n].part = "then"
  <2>1. InThen(c, t, n)
    BY <1>6 DEF Opened, t
  <2>2. t < Len(c) /\ c[t + 1].op = "begin" /\ t + 1 \in 1 .. Len(c)
    BY <1>1, <2>1 DEF InThen
  <2>3. d[t + 1].op = "begin" /\ t < Len(d)
    BY <1>1, <2>2 DEF Emits
  <2>4. Within(d, <<t, "then">>, t + 2, Len(d))
    <3> DEFINE q == <<t, "then">>
    <3>1. /\ t + 2 \in Nat /\ t + 2 >= 1 /\ q \in Outer(o, Len(o))
          /\ Within(c, q, t + 2, Len(c))
      BY <1>1, <1>4, <1>6, <2>1 DEF InThen
    <3> HIDE DEF q
    <3>2. Within(d, q, t + 2, Len(d))
      BY <3>1, WithinGrows
    <3>3. QED
      BY <3>2 DEF q
  <2>5. InThen(d, t, n)
    BY <1>5, <2>1, <2>3, <2>4 DEF InThen
  <2>6. QED
    BY <1>1, <1>3, <1>6, <2>5 DEF Opened, Branches, t
<1>7. CASE o[n].part = "else"
  <2>1. PICK e \in 1 .. Len(c) :
          /\ SecondBlock(c, o, t, e) /\ c[e].skip = Nowhere
          /\ EndsOf(c, t, n) = {e}
          /\ Within(c, <<t, "else">>, e + 2, Len(c))
    BY <1>7 DEF Opened, InElse, Elsewhere, t
  <2>2. SecondBlock(d, o2, t, e)
    BY <1>1, <2>1, SecondStays
  <2>3. c[e].refs = n
    BY <2>1 DEF EndsOf
  <2>4. d[e].skip = Nowhere
    BY <2>1, <2>3 DEF SkipsStay
  <2>5. Within(d, <<t, "else">>, e + 2, Len(d))
    <3> DEFINE q == <<t, "else">>
    <3>1. /\ e + 2 \in Nat /\ e + 2 >= 1 /\ q \in Outer(o, Len(o))
          /\ Within(c, q, e + 2, Len(c))
      BY <1>1, <1>4, <1>7, <2>1
    <3> HIDE DEF q
    <3>2. Within(d, q, e + 2, Len(d))
      BY <3>1, WithinGrows
    <3>3. QED
      BY <3>2 DEF q
  <2>6. InElse(d, o2, t, n)
    BY <1>1, <1>5, <2>1, <2>2, <2>4, <2>5 DEF InElse, Elsewhere
  <2>7. QED
    BY <1>1, <1>3, <1>7, <2>6 DEF Opened, Branches, t
<1>8. QED
  BY <1>6, <1>7 DEF Branches

----------------------------------------------------------------------------
(* The parts of the structure, when an instruction is added.               *)

\* Each if that is being read is at a block, where a statement can come.
InBranches(o) == \A n \in 1 .. Len(o) : o[n].part \in Branches

\* The ifs that are being read began earlier, in the code.
LEMMA OuterPaths ==
  ASSUME NEW c \in Seq(Ins), NEW o \in Seq(Ifs), OpenIfs(c, o)
  PROVE  /\ Outer(o, Len(o)) \subseteq (1 .. Len(c)) \X Parts
         /\ InBranches(o) => Outer(o, Len(o)) \subseteq Real(Outer(o, Len(o)))
<1>1. \A n \in 1 .. Len(o) : o[n].id \in 1 .. Len(c)
  BY DEF OpenIfs, Opened, Begun
<1>2. \A n \in 1 .. Len(o) : o[n].part \in Parts
  <2>1. \A n \in 1 .. Len(o) : o[n] \in Ifs
    BY ElementOfSeq
  <2>2. QED
    BY <2>1 DEF Ifs
<1>3. QED
  BY <1>1, <1>2 DEF Outer, Real, InBranches

\* ParserPcodeEmit: the next instruction is in parts of earlier ifs.
LEMMA PathsGrow ==
  ASSUME NEW c \in Seq(Ins), NEW o \in Seq(Ifs), NEW d, NEW op, NEW r,
         Emits(c, o, d, op, r), OpenIfs(c, o), Paths(c),
         op \notin Blocks => InBranches(o)
  PROVE  Paths(d)
<1>1. Len(c) \in Nat /\ Len(d) = Len(c) + 1
  BY LenProperties DEF Emits
<1>2. ASSUME NEW i \in 1 .. Len(c)
      PROVE  /\ d[i].path \subseteq (1 .. i - 1) \X Parts
             /\ d[i].op \notin Blocks => d[i].path \subseteq Real(d[i].path)
  BY DEF Paths, Emits
<1>3. /\ d[Len(d)].path \subseteq (1 .. Len(d) - 1) \X Parts
      /\ d[Len(d)].op \notin Blocks =>
           d[Len(d)].path \subseteq Real(d[Len(d)].path)
  BY <1>1, OuterPaths DEF Emits
<1>4. \A i \in 1 .. Len(d) : i \in 1 .. Len(c) \/ i = Len(d)
  BY <1>1
<1>5. QED
  BY <1>2, <1>3, <1>4 DEF Paths

\* Only the brace that opens a block enters a branch.
LEMMA FlowsGrow ==
  ASSUME NEW c \in Seq(Ins), NEW o, NEW d, NEW op, NEW r, Emits(c, o, d, op, r),
         NEW o2, Flows(c, o),
         op # "begin" => Real(Outer(o2, Len(o2))) \subseteq Outer(o, Len(o)),
         op = "begin" =>
           /\ Len(c) >= 1
           /\ \/ c[Len(c)].op = "end"
              \/ /\ IsTest(c[Len(c)])
                 /\ Real(Outer(o2, Len(o2)))
                      \subseteq Outer(o, Len(o)) \union {<<Len(c), "then">>}
  PROVE  Flows(d, o2)
<1>1. Len(c) \in Nat /\ Len(d) = Len(c) + 1
  BY LenProperties DEF Emits
<1> DEFINE Good(i) ==
      IF d[i].op # "begin"
      THEN Real(Follows(d, o2, i)) \subseteq d[i].path
      ELSE /\ i > 1
           /\ \/ d[i - 1].op = "end"
              \/ /\ IsTest(d[i - 1])
                 /\ Real(Follows(d, o2, i))
                      \subseteq d[i].path \union {<<i - 1, "then">>}
<1>2. ASSUME NEW i \in 1 .. Len(c)
      PROVE  Good(i)
  <2>1. Follows(d, o2, i) = Follows(c, o, i)
    BY FollowsStays
  <2>2. d[i].op = c[i].op /\ d[i].path = c[i].path
    BY DEF Emits
  <2>3. CASE c[i].op # "begin"
    BY <2>1, <2>2, <2>3 DEF Flows
  <2>4. CASE c[i].op = "begin"
    <3>1. /\ i > 1
          /\ \/ c[i - 1].op = "end"
             \/ /\ IsTest(c[i - 1])
                /\ Real(Follows(c, o, i))
                     \subseteq c[i].path \union {<<i - 1, "then">>}
      BY <2>4 DEF Flows
    <3>2. d[i - 1].op = c[i - 1].op
      BY <1>1, <3>1 DEF Emits
    <3>3. QED
      BY <2>1, <2>2, <2>4, <3>1, <3>2 DEF IsTest
  <2>5. QED
    BY <2>3, <2>4
<1>3. Good(Len(d))
  <2>1. Follows(d, o2, Len(d)) = Outer(o2, Len(o2))
    BY <1>1 DEF Follows
  <2>2. d[Len(d)].op = op /\ d[Len(d)].path = Outer(o, Len(o))
    BY DEF Emits
  <2>3. CASE op # "begin"
    BY <2>1, <2>2, <2>3
  <2>4. CASE op = "begin"
    <3>1. Len(d) > 1 /\ Len(d) - 1 = Len(c) /\ d[Len(c)].op = c[Len(c)].op
      BY <1>1, <2>4 DEF Emits
    <3>2. QED
      BY <2>1, <2>2, <2>4, <3>1 DEF IsTest
  <2>5. QED
    BY <2>3, <2>4
<1>4. \A i \in 1 .. Len(d) : i \in 1 .. Len(c) \/ i = Len(d)
  BY <1>1
<1>5. QED
  BY <1>2, <1>3, <1>4 DEF Flows

\* ParserSetJumps sets no jump that goes back.
LEMMA ForwardGrows ==
  ASSUME NEW c \in Seq(Ins), NEW o, NEW d, NEW op, NEW r, Emits(c, o, d, op, r),
         NEW S, SkipsStay(c, d, S), Forward(c),
         \A i \in S : d[i].skip \in i + 1 .. Len(d)
  PROVE  Forward(d)
<1>1. Len(c) \in Nat /\ Len(d) = Len(c) + 1 /\ d[Len(d)].skip = Nowhere
  BY LenProperties DEF Emits
<1>2. ASSUME NEW i \in 1 .. Len(c), d[i].skip # Nowhere, i \notin S
      PROVE  d[i].skip \in i + 1 .. Len(d)
  BY <1>1, <1>2 DEF SkipsStay, Forward
<1>3. \A i \in 1 .. Len(d) : i \in 1 .. Len(c) \/ i = Len(d)
  BY <1>1
<1>4. QED
  BY <1>1, <1>2, <1>3 DEF Forward

\* An instruction whose jump is of no if that is whole.
Unset(c, o, i) ==
  /\ c[i].skip = Nowhere
  /\ \A t \in 1 .. Len(c) :
       IsTest(c[t]) /\ Whole(c, o, t) => ~Closes(c, o, t, i)

\* Each test is of an if that is being read, or that has its jumps.
LEMMA TestedGrow ==
  ASSUME NEW c \in Seq(Ins), NEW o, NEW d, NEW op, NEW r, Emits(c, o, d, op, r),
         NEW o2, NEW S, SkipsStay(c, d, S), Tested(c, o),
         \A i \in S : Unset(c, o, i),
         \A n \in 1 .. Len(o) : \/ Whole(d, o2, o[n].id)
                                \/ n \in 1 .. Len(o2) /\ o2[n].id = o[n].id,
         op \in {"test2", "exists"} =>
           \E n \in 1 .. Len(o2) : Len(d) = o2[n].id
  PROVE  Tested(d, o2)
<1>1. Len(c) \in Nat /\ Len(d) = Len(c) + 1
  BY LenProperties DEF Emits
<1>2. ASSUME NEW t \in 1 .. Len(c), IsTest(d[t])
      PROVE  Whole(d, o2, t) \/ \E n \in 1 .. Len(o2) : t = o2[n].id
  <2>1. IsTest(c[t])
    BY <1>2 DEF Emits, IsTest
  <2>2. CASE Whole(c, o, t)
    <3>1. \A i \in S : c[i].skip = Nowhere /\ ~Closes(c, o, t, i)
      BY <2>1, <2>2 DEF Unset
    <3>2. QED
      BY <2>2, <3>1, WholeStays
  <2>3. QED
    BY <2>1, <2>2 DEF Tested
<1>3. IsTest(d[Len(d)]) => \E n \in 1 .. Len(o2) : Len(d) = o2[n].id
  BY DEF Emits, IsTest
<1>4. \A i \in 1 .. Len(d) : i \in 1 .. Len(c) \/ i = Len(d)
  BY <1>1
<1>5. QED
  BY <1>2, <1>3, <1>4 DEF Tested

\* A jump is set over the second block of an if, or at a test.
Jumped(c, d, i) ==
  /\ i \in 1 .. Len(c) /\ c[i].skip = Nowhere
  /\ c[i].op = "end" =>
       /\ d[i].skip # Nowhere /\ i < Len(c) /\ c[i + 1].op = "begin"
       /\ \E t \in 1 .. i : IsTest(c[t]) /\ d[t].skip = i + 1

\* The second block that is being read goes on, or its if has its jumps.
Kept(c, o, o2, S, n) ==
  o[n].part = "else" => \/ n \in 1 .. Len(o2) /\ o2[n] = o[n]
                        \/ EndsOf(c, o[n].id, n) \subseteq S

\* Each jump from the end of a block leads over a second block.
LEMMA JumpsGrow ==
  ASSUME NEW c \in Seq(Ins), NEW o, NEW d, NEW op, NEW r, Emits(c, o, d, op, r),
         NEW o2, NEW S, SkipsStay(c, d, S), Jumps(c, o), OpenIfs(c, o),
         \A i \in S : Jumped(c, d, i),
         \A n \in 1 .. Len(o) : Kept(c, o, o2, S, n),
         op = "begin" /\ c[Len(c)].op = "end" =>
           \E n \in 1 .. Len(o2) :
             o2[n].part = "else" /\ Len(c) \in EndsOf(c, o2[n].id, n)
  PROVE  Jumps(d, o2)
<1>1. Len(c) \in Nat /\ Len(d) = Len(c) + 1
  BY LenProperties DEF Emits
<1>2. ASSUME NEW i \in 1 .. Len(c), d[i].op = "end", d[i].skip # Nowhere
      PROVE  /\ i < Len(d) /\ d[i + 1].op = "begin"
             /\ \E t \in 1 .. i : IsTest(d[t]) /\ d[t].skip = i + 1
  <2>1. c[i].op = "end"
    BY <1>2 DEF Emits
  <2>2. CASE i \in S
    <3>1. i < Len(c) /\ c[i + 1].op = "begin" /\ i + 1 \in 1 .. Len(c)
      BY <1>1, <2>1, <2>2 DEF Jumped
    <3>2. PICK t \in 1 .. i : IsTest(c[t]) /\ d[t].skip = i + 1
      BY <2>1, <2>2 DEF Jumped
    <3>3. d[i + 1].op = "begin" /\ IsTest(d[t])
      BY <1>1, <3>1, <3>2 DEF Emits, IsTest
    <3>4. QED
      BY <1>1, <3>1, <3>2, <3>3
  <2>3. CASE i \notin S
    <3>1. c[i].skip # Nowhere
      BY <1>2, <2>3 DEF SkipsStay
    <3>2. i < Len(c) /\ c[i + 1].op = "begin" /\ i + 1 \in 1 .. Len(c)
      BY <1>1, <2>1, <3>1 DEF Jumps
    <3>3. PICK t \in 1 .. i : IsTest(c[t]) /\ c[t].skip = i + 1
      BY <2>1, <3>1 DEF Jumps
    <3>4. t \in 1 .. Len(c) /\ t \notin S
      BY <1>1, <3>3 DEF Nowhere, Jumped
    <3>5. d[i + 1].op = "begin" /\ IsTest(d[t]) /\ d[t].skip = i + 1
      BY <1>1, <3>2, <3>3, <3>4 DEF Emits, IsTest, SkipsStay
    <3>6. QED
      BY <1>1, <3>2, <3>5
  <2>4. QED
    BY <2>2, <2>3
<1>3. ASSUME NEW i \in 1 .. Len(c), d[i].op = "end", d[i].skip = Nowhere,
             d[i + 1].op = "begin"
      PROVE  \E n \in 1 .. Len(o2) :
               o2[n].part = "else" /\ i \in EndsOf(d, o2[n].id, n)
  <2>1. c[i].op = "end" /\ i \notin S /\ c[i].skip = Nowhere
    BY <1>3 DEF Emits, SkipsStay, Jumped
  <2>2. \E n \in 1 .. Len(o2) :
          o2[n].part = "else" /\ i \in EndsOf(c, o2[n].id, n)
    <3>1. CASE i < Len(c)
      <4>1. c[i + 1].op = "begin"
        BY <1>1, <1>3, <3>1 DEF Emits
      <4>2. PICK n \in 1 .. Len(o) :
              o[n].part = "else" /\ i \in EndsOf(c, o[n].id, n)
        BY <2>1, <3>1, <4>1 DEF Jumps
      <4>3. n \in 1 .. Len(o2) /\ o2[n] = o[n]
        BY <2>1, <4>2 DEF Kept
      <4>4. QED
        BY <4>2, <4>3
    <3>2. CASE i = Len(c)
      BY <1>1, <1>3, <2>1, <3>2 DEF Emits
    <3>3. QED
      BY <1>1, <3>1, <3>2
  <2>3. PICK n \in 1 .. Len(o2) :
          o2[n].part = "else" /\ i \in EndsOf(c, o2[n].id, n)
    BY <2>2
  <2>4. i \in EndsOf(d, o2[n].id, n)
    <3>1. i \in o2[n].id + 1 .. Len(c) /\ c[i].refs = n
      BY <2>3 DEF EndsOf
    <3>2. i \in o2[n].id + 1 .. Len(d) /\ d[i].refs = n
      BY <1>1, <3>1 DEF Emits
    <3>3. QED
      BY <1>3, <3>2 DEF EndsOf
  <2>5. QED
    BY <2>3, <2>4
<1>4. d[Len(d)].skip = Nowhere
  BY DEF Emits
<1>5. \A i \in 1 .. Len(d) : i \in 1 .. Len(c) \/ i = Len(d)
  BY <1>1
<1>6. QED
  BY <1>2, <1>3, <1>4, <1>5 DEF Jumps

----------------------------------------------------------------------------
(* What the parser emits for the constructs of a script.                   *)

\* The outermost n ifs are the same.
Same(o, p, n) == \A m \in 1 .. n : p[m] = o[m]

\* A statement, in the branches that are being read.
LEMMA StatementAdds ==
  ASSUME NEW c \in Seq(Ins), NEW o \in Seq(Ifs), Struct(c, o), InBranches(o),
         NEW N, N = Len(o),
         NEW d, NEW op \in {"assign", "xplcmd", "spawn"}, Emits(c, o, d, op, N),
         SkipsStay(c, d, {})
  PROVE  Struct(d, o)
<1>1. /\ Paths(c) /\ Flows(c, o) /\ OpenIfs(c, o) /\ Tested(c, o) /\ Jumps(c, o)
      /\ Forward(c)
      /\ op \notin Blocks /\ op # "begin" /\ op # "end"
      /\ op \notin {"test2", "exists"} /\ N \in Nat
  BY LenProperties DEF Struct, Blocks
<1>2. Paths(d)
  BY <1>1, PathsGrow
<1>3. Real(Outer(o, Len(o))) \subseteq Outer(o, Len(o))
  BY DEF Real
<1>4. Flows(d, o)
  BY <1>1, <1>3, FlowsGrow
<1>5. ASSUME NEW n \in 1 .. Len(o)
      PROVE  Opened(d, o, n)
  <2>1. Opened(c, o, n) /\ o[n].part \in Branches /\ N >= n
    BY <1>1 DEF OpenIfs, InBranches
  <2> DEFINE S == {}
  <2>2. SkipsStay(c, d, S) /\ \A i \in S : c[i].refs # n
    OBVIOUS
  <2> HIDE DEF S
  <2>3. QED
    BY <1>1, <2>1, <2>2, LevelStays
<1>6. Tested(d, o)
  BY <1>1, TestedGrow
<1>7. Jumps(d, o)
  <2>1. \A n \in 1 .. Len(o) : Kept(c, o, o, {}, n)
    BY DEF Kept
  <2>2. QED
    BY <1>1, <2>1, JumpsGrow
<1>8. Forward(d)
  BY <1>1, <1>2, <1>3, ForwardGrows
<1>9. QED
  BY <1>2, <1>4, <1>5, <1>6, <1>7, <1>8 DEF Struct, OpenIfs

\* The keyword and the test: an if inside of the others.
LEMMA TestAdds ==
  ASSUME NEW c \in Seq(Ins), NEW o \in Seq(Ifs), Struct(c, o), InBranches(o),
         NEW N, N = Len(o), NEW r, r = N + 1,
         NEW d, NEW op \in {"test2", "exists"}, Emits(c, o, d, op, r),
         SkipsStay(c, d, {}),
         NEW p \in Seq(Ifs), Len(p) = r, Same(o, p, N),
         p[r].id = Len(d), p[r].part = "test"
  PROVE  Struct(d, p)
<1>1. /\ Paths(c) /\ Flows(c, o) /\ OpenIfs(c, o) /\ Tested(c, o) /\ Jumps(c, o)
      /\ Forward(c)
      /\ op \notin Blocks /\ op # "begin" /\ op # "end"
  BY DEF Struct, Blocks
<1>2. /\ Len(c) \in Nat /\ Len(d) = Len(c) + 1 /\ d \in Seq(Ins)
      /\ N \in Nat /\ r \in Nat /\ r - 1 = N
      /\ \A m \in 1 .. N : p[m] = o[m]
  BY LenProperties DEF Emits, Same
<1>3. Paths(d)
  BY <1>1, PathsGrow
<1>4. Outer(p, N) = Outer(o, N)
  BY <1>2, OuterStays
<1>5. Real(Outer(p, Len(p))) \subseteq Outer(o, Len(o))
  <2> DEFINE y == <<p[r].id, p[r].part>>
  <2>1. r \in 1 .. Len(p)
    BY <1>2
  <2>2. Outer(p, r) = Outer(p, r - 1) \union {y}
    BY <2>1, OuterGrows
  <2>3. y[2] \notin Branches
    BY DEF Branches
  <2> HIDE DEF y
  <2>4. Outer(p, Len(p)) = Outer(o, Len(o)) \union {y}
    BY <1>2, <1>4, <2>2
  <2>5. QED
    BY <2>3, <2>4 DEF Real
<1>6. Flows(d, p)
  BY <1>1, <1>5, FlowsGrow
<1>7. ASSUME NEW n \in 1 .. N
      PROVE  Opened(d, p, n)
  <2>1. /\ Opened(c, o, n) /\ o[n].part \in Branches /\ n \in 1 .. Len(o)
        /\ r >= n /\ r > n /\ r # n
        /\ \A m \in 1 .. n : p[m] = o[m]
    BY <1>1, <1>2 DEF OpenIfs, InBranches
  <2> DEFINE S == {}
  <2>2. SkipsStay(c, d, S) /\ \A i \in S : c[i].refs # n
    OBVIOUS
  <2> HIDE DEF S
  <2>3. QED
    BY <1>1, <1>2, <2>1, <2>2, LevelStays
<1>8. Opened(d, p, r)
  <2> DEFINE t == Len(d)
  <2>1. /\ t \in 1 .. Len(d) /\ IsTest(d[t]) /\ d[t].refs = r
        /\ d[t].skip = Nowhere /\ d[t].path = Outer(p, r - 1)
    BY <1>2, <1>4 DEF Emits, IsTest
  <2>2. \A i \in t .. Len(d) : i = t
    BY <1>2
  <2>3. \A i \in t + 1 .. Len(d) : FALSE
    BY <1>2
  <2>4. Begun(d, p, t, r)
    BY <1>2, <2>1, <2>2, <2>3 DEF Begun
  <2>5. InTest(d, t)
    BY DEF InTest
  <2>6. QED
    BY <1>2, <2>4, <2>5 DEF Opened
<1>9. OpenIfs(d, p)
  <2>1. \A n \in 1 .. Len(p) : n \in 1 .. N \/ n = r
    BY <1>2
  <2>2. QED
    BY <1>7, <1>8, <2>1 DEF OpenIfs
<1>10. Tested(d, p)
  <2>1. /\ \A n \in 1 .. Len(o) : n \in 1 .. Len(p) /\ p[n].id = o[n].id
        /\ r \in 1 .. Len(p) /\ Len(d) = p[r].id
    BY <1>2
  <2>2. QED
    BY <1>1, <2>1, TestedGrow
<1>11. Jumps(d, p)
  <2>1. \A n \in 1 .. Len(o) : Kept(c, o, p, {}, n)
    BY <1>2 DEF Kept
  <2>2. QED
    BY <1>1, <2>1, JumpsGrow
<1>12. Forward(d)
  BY <1>1, <1>2, <1>3, ForwardGrows
<1>13. QED
  BY <1>3, <1>6, <1>9, <1>10, <1>11, <1>12 DEF Struct

\* The brace that opens a block, the first of an if or the second.
LEMMA BlockAdds ==
  ASSUME NEW c \in Seq(Ins), NEW o \in Seq(Ifs), Struct(c, o),
         NEW N, N = Len(o), N >= 1,
         NEW d, NEW op, op = "begin", Emits(c, o, d, op, N),
         SkipsStay(c, d, {}),
         NEW p \in Seq(Ifs), Len(p) = N, Same(o, p, N - 1),
         NEW t, t = o[N].id, p[N].id = t,
         \/ o[N].part = "test" /\ p[N].part = "then"
         \/ o[N].part = "keyword" /\ p[N].part = "else"
  PROVE  Struct(d, p)
<1>1. /\ Paths(c) /\ Flows(c, o) /\ OpenIfs(c, o) /\ Tested(c, o) /\ Jumps(c, o)
      /\ Forward(c)
      /\ op \in Blocks
  BY DEF Struct, Blocks
<1>2. /\ Len(c) \in Nat /\ Len(d) = Len(c) + 1 /\ d \in Seq(Ins)
      /\ N \in Nat /\ N \in 1 .. Len(o) /\ N \in 1 .. Len(p)
      /\ \A m \in 1 .. N - 1 : p[m] = o[m]
  BY LenProperties DEF Emits, Same
<1>3. Opened(c, o, N) /\ Begun(c, o, t, N) /\ t \in 1 .. Len(c)
  BY <1>1, <1>2 DEF OpenIfs, Opened, Begun
<1>4. Paths(d)
  BY <1>1, PathsGrow
<1>5. Outer(p, Len(p)) = Outer(o, N - 1) \union {<<t, p[N].part>>}
  <2>1. N - 1 \in Nat
    BY <1>2
  <2>2. Outer(p, N - 1) = Outer(o, N - 1)
    BY <2>1, OuterStays DEF Same
  <2>3. QED
    BY <1>2, <2>2, OuterGrows
<1>6. c[t].path = Outer(o, N - 1) /\ c[t].path \subseteq Outer(o, Len(o))
  <2>1. c[t].path = Outer(o, N - 1)
    BY <1>3 DEF Begun
  <2>2. Outer(o, N - 1) \subseteq Outer(o, Len(o))
    BY <1>2, OuterGrows
  <2>3. QED
    BY <2>1, <2>2
<1>7. Begun(d, p, t, N)
  <2>1. d[t].skip = Nowhere
    BY <1>3 DEF Begun, SkipsStay
  <2>2. N >= N /\ op \notin {"test2", "exists"}
    BY <1>2
  <2>3. QED
    BY <1>2, <1>3, <2>1, <2>2, BegunStays
<1> DEFINE Good == /\ Flows(d, p) /\ Opened(d, p, N)
                   /\ \/ c[Len(c)].op # "end"
                      \/ /\ p[N].part = "else"
                         /\ Len(c) \in EndsOf(c, p[N].id, N)
<1>8. ASSUME o[N].part = "test", p[N].part = "then"
      PROVE  Good
  <2>1. t = Len(c)
    BY <1>3, <1>8 DEF Opened, InTest
  <2>2. /\ IsTest(c[Len(c)]) /\ c[Len(c)].op # "end" /\ Len(c) >= 1
    BY <1>2, <1>3, <2>1 DEF Begun, IsTest
  <2>3. Real(Outer(p, Len(p)))
          \subseteq Outer(o, Len(o)) \union {<<Len(c), "then">>}
    BY <1>5, <1>6, <1>8, <2>1 DEF Real
  <2>4. Flows(d, p)
    BY <1>1, <2>2, <2>3, FlowsGrow
  <2>5. Opened(d, p, N)
    <3>1. t < Len(d) /\ d[t + 1].op = "begin"
      BY <1>2, <2>1 DEF Emits
    <3>2. Within(d, <<t, "then">>, t + 2, Len(d))
      BY <1>2, <2>1 DEF Within
    <3>3. EndsOf(d, t, N) = {}
      BY <1>2, <2>1 DEF EndsOf, Emits
    <3>4. QED
      BY <1>2, <1>7, <1>8, <3>1, <3>2, <3>3 DEF Opened, InThen
  <2>6. QED
    BY <2>2, <2>4, <2>5
<1>9. ASSUME o[N].part = "keyword", p[N].part = "else"
      PROVE  Good
  <2> DEFINE e == Len(c)
  <2>1. /\ FirstBlock(c, t, e) /\ c[e].skip = Nowhere /\ EndsOf(c, t, N) = {e}
    BY <1>3, <1>9 DEF Opened, AtKeyword
  <2>2. c[e].op = "end" /\ e >= 1 /\ e \in t .. Len(c)
    BY <1>2, <1>3, <2>1 DEF FirstBlock
  <2>3. Flows(d, p)
    BY <1>1, <2>2, FlowsGrow
  <2>4. SecondBlock(d, p, t, e)
    <3>1. FirstBlock(d, t, e)
      BY <1>2, <1>3, <2>1, FirstStays
    <3>2. e < Len(d) /\ d[e + 1].op = "begin" /\ e \in t .. Len(d)
      BY <1>2, <2>2 DEF Emits
    <3>3. d[t].path \subseteq d[e].path
      BY <1>7, <3>2 DEF Begun
    <3>4. Follows(d, p, e + 1) = Outer(p, Len(p)) /\ d[t].path = Outer(o, N - 1)
      BY <1>2, <1>3, <1>6 DEF Follows, Emits
    <3>5. Real(Follows(d, p, e + 1)) \subseteq d[t].path \union {<<t, "else">>}
      BY <1>5, <1>9, <3>4 DEF Real
    <3>6. QED
      BY <3>1, <3>2, <3>3, <3>5 DEF SecondBlock
  <2>5. Opened(d, p, N)
    <3>1. d[e].skip = Nowhere /\ e \in 1 .. Len(d)
      BY <1>2, <2>1, <2>2 DEF SkipsStay
    <3>2. EndsOf(d, t, N) = {e}
      BY <1>3, <2>1, EndsGrow
    <3>3. Within(d, <<t, "else">>, e + 2, Len(d))
      BY <1>2 DEF Within
    <3>4. InElse(d, p, t, N)
      BY <2>4, <3>1, <3>2, <3>3 DEF InElse, Elsewhere
    <3>5. QED
      BY <1>2, <1>7, <1>9, <3>4 DEF Opened
  <2>6. e \in EndsOf(c, t, N)
    BY <2>1
  <2>7. QED
    BY <1>9, <2>3, <2>5, <2>6
<1>10. Good
  BY <1>8, <1>9
<1>11. ASSUME NEW n \in 1 .. N - 1
       PROVE  Opened(d, p, n)
  <2>1. /\ Opened(c, o, n) /\ o[n].part \in Branches /\ n \in 1 .. Len(o)
        /\ N >= n /\ N # n /\ N \in Nat
        /\ \A m \in 1 .. n : p[m] = o[m]
    BY <1>1, <1>2 DEF OpenIfs, Opened
  <2> DEFINE S == {}
  <2>2. SkipsStay(c, d, S) /\ \A i \in S : c[i].refs # n
    OBVIOUS
  <2> HIDE DEF S
  <2>3. QED
    BY <1>1, <1>2, <2>1, <2>2, LevelStays
<1>12. OpenIfs(d, p)
  <2>1. \A n \in 1 .. Len(p) : n \in 1 .. N - 1 \/ n = N
    BY <1>2
  <2>2. QED
    BY <1>10, <1>11, <2>1 DEF OpenIfs
<1>13. Tested(d, p)
  <2>1. \A n \in 1 .. Len(o) : n \in 1 .. N - 1 \/ n = N
    BY <1>2
  <2>2. \A n \in 1 .. Len(o) : n \in 1 .. Len(p) /\ p[n].id = o[n].id
    BY <1>2, <2>1
  <2>3. QED
    BY <1>1, <2>2, TestedGrow
<1>14. Jumps(d, p)
  <2>1. \A n \in 1 .. Len(o) : Kept(c, o, p, {}, n)
    <3>1. \A n \in 1 .. Len(o) : n \in 1 .. N - 1 \/ n = N
      BY <1>2
    <3>2. o[N].part # "else"
      OBVIOUS
    <3>3. QED
      BY <1>2, <3>1, <3>2 DEF Kept
  <2>2. c[Len(c)].op = "end" =>
          \E n \in 1 .. Len(p) :
            p[n].part = "else" /\ Len(c) \in EndsOf(c, p[n].id, n)
    BY <1>2, <1>10
  <2>3. QED
    BY <1>1, <2>1, <2>2, JumpsGrow
<1>15. Forward(d)
  BY <1>1, <1>2, <1>3, ForwardGrows
<1>16. QED
  BY <1>4, <1>10, <1>12, <1>13, <1>14, <1>15 DEF Struct

\* The end of a block that the keyword else follows.
LEMMA ElseAdds ==
  ASSUME NEW c \in Seq(Ins), NEW o \in Seq(Ifs), Struct(c, o),
         NEW N, N = Len(o), N >= 1, o[N].part = "then", c[Len(c)].op # "begin",
         NEW d, NEW op, op = "end", Emits(c, o, d, op, N), SkipsStay(c, d, {}),
         NEW p \in Seq(Ifs), Len(p) = N, Same(o, p, N - 1),
         NEW t, t = o[N].id, p[N].id = t, p[N].part = "keyword"
  PROVE  Struct(d, p)
<1>1. /\ Paths(c) /\ Flows(c, o) /\ OpenIfs(c, o) /\ Tested(c, o) /\ Jumps(c, o)
      /\ Forward(c)
      /\ op \in Blocks /\ op \notin {"test2", "exists"} /\ op # "begin"
  BY DEF Struct, Blocks
<1>2. /\ Len(c) \in Nat /\ Len(d) = Len(c) + 1 /\ d \in Seq(Ins)
      /\ N \in Nat /\ N \in 1 .. Len(o) /\ N \in 1 .. Len(p) /\ N >= N
      /\ \A m \in 1 .. N - 1 : p[m] = o[m]
  BY LenProperties DEF Emits, Same
<1>3. /\ Opened(c, o, N) /\ Begun(c, o, t, N) /\ t \in 1 .. Len(c)
      /\ InThen(c, t, N) /\ t \in Nat
  <2>1. Opened(c, o, N)
    BY <1>1, <1>2 DEF OpenIfs
  <2>2. Begun(c, o, t, N) /\ InThen(c, t, N)
    BY <2>1 DEF Opened
  <2>3. QED
    BY <2>1, <2>2 DEF Begun
<1>4. Paths(d)
  BY <1>1, PathsGrow
<1>5. <<t, "then">> \in Outer(o, Len(o))
  BY <1>2, OuterGrows
<1>6. Flows(d, p)
  <2>1. N - 1 \in Nat
    BY <1>2
  <2>2. Outer(p, N - 1) = Outer(o, N - 1)
    BY <2>1, OuterStays DEF Same
  <2>3. Outer(o, N - 1) \subseteq Outer(o, Len(o))
    BY <1>2, OuterGrows
  <2>4. Outer(p, Len(p)) = Outer(o, N - 1) \union {<<t, p[N].part>>}
    BY <1>2, <2>2, OuterGrows
  <2>5. Real(Outer(p, Len(p))) \subseteq Outer(o, Len(o))
    BY <2>3, <2>4 DEF Real, Branches
  <2>6. QED
    BY <1>1, <2>5, FlowsGrow
<1>7. Begun(d, p, t, N)
  <2>1. d[t].skip = Nowhere
    BY <1>3 DEF Begun, SkipsStay
  <2>2. QED
    BY <1>1, <1>2, <1>3, <2>1, BegunStays
<1>8. Opened(d, p, N)
  <2> DEFINE q == <<t, "then">>
  <2>1. /\ t < Len(c) /\ c[t + 1].op = "begin" /\ t + 1 \in 1 .. Len(c)
        /\ Len(c) # t + 1 /\ t + 2 \in Nat /\ t + 2 >= 1
        /\ Within(c, q, t + 2, Len(c)) /\ EndsOf(c, t, N) = {}
    BY <1>2, <1>3 DEF InThen
  <2>2. q \in Outer(o, Len(o))
    BY <1>5
  <2> HIDE DEF q
  <2>3. Within(d, q, t + 2, Len(d))
    BY <1>2, <2>1, <2>2, WithinGrows
  <2>4. /\ Len(d) \in t + 2 .. Len(d) /\ d[t + 1].op = "begin"
        /\ d[Len(d)].op = "end" /\ d[Len(d)].skip = Nowhere
    BY <1>2, <1>3, <2>1, SMTT(20) DEF Emits
  <2>5. FirstBlock(d, t, Len(d))
    BY <2>3, <2>4 DEF FirstBlock, q
  <2>6. EndsOf(d, t, N) = EndsOf(c, t, N) \union {Len(d)}
    BY <1>2, <1>3, EndsGrow
  <2>7. AtKeyword(d, t, N)
    BY <2>1, <2>4, <2>5, <2>6 DEF AtKeyword
  <2>8. QED
    BY <1>2, <1>7, <2>7 DEF Opened
<1>9. ASSUME NEW n \in 1 .. N - 1
      PROVE  Opened(d, p, n)
  <2>1. /\ Opened(c, o, n) /\ o[n].part \in Branches /\ n \in 1 .. Len(o)
        /\ N >= n /\ N # n /\ N \in Nat
        /\ \A m \in 1 .. n : p[m] = o[m]
    BY <1>1, <1>2 DEF OpenIfs, Opened
  <2> DEFINE S == {}
  <2>2. SkipsStay(c, d, S) /\ \A i \in S : c[i].refs # n
    OBVIOUS
  <2> HIDE DEF S
  <2>3. QED
    BY <1>1, <1>2, <2>1, <2>2, LevelStays
<1>10. \A n \in 1 .. N : n \in 1 .. N - 1 \/ n = N
  BY <1>2
<1>11. OpenIfs(d, p)
  BY <1>2, <1>8, <1>9, <1>10 DEF OpenIfs
<1>12. Tested(d, p)
  <2>1. \A n \in 1 .. Len(o) : n \in 1 .. Len(p) /\ p[n].id = o[n].id
    BY <1>2, <1>10
  <2>2. QED
    BY <1>1, <2>1, TestedGrow
<1>13. Jumps(d, p)
  <2>1. \A n \in 1 .. Len(o) : Kept(c, o, p, {}, n)
    BY <1>2, <1>10 DEF Kept
  <2>2. QED
    BY <1>1, <2>1, JumpsGrow
<1>14. Forward(d)
  BY <1>1, <1>2, <1>3, ForwardGrows
<1>15. QED
  BY <1>4, <1>6, <1>11, <1>12, <1>13, <1>14 DEF Struct

\* The last end of an if, seen from its test.
LEMMA IfCloses ==
  ASSUME NEW c \in Seq(Ins), NEW o \in Seq(Ifs), NEW N \in 1 .. Len(o),
         NEW t, Begun(c, o, t, N),
         NEW d, Emits(c, o, d, "end", N),
         NEW p \in Seq(Ifs), Len(p) = N - 1, Same(o, p, N - 1)
  PROVE  /\ Outer(p, Len(p)) = Outer(o, N - 1)
         /\ Closes(d, p, t, Len(d))
<1>1. /\ Len(c) \in Nat /\ Len(d) = Len(c) + 1 /\ N \in Nat /\ N - 1 \in Nat
      /\ t \in 1 .. Len(c) /\ c[t].refs = N
      /\ \A m \in 1 .. N - 1 : p[m] = o[m]
  BY LenProperties DEF Emits, Begun, Same
<1>2. Outer(p, Len(p)) = Outer(o, N - 1)
  BY <1>1, OuterStays
<1>3. d[t].path = Outer(o, N - 1) /\ d[t].refs = N
  BY <1>1 DEF Begun, Emits
<1>4. Real(Follows(d, p, Len(d))) \subseteq d[t].path
  BY <1>1, <1>2, <1>3 DEF Follows, Real
<1>5. \A i \in t + 1 .. Len(d) :
        (i \in t + 1 .. Len(c) /\ i \in 1 .. Len(c)) \/ i = Len(d)
  BY <1>1, SMTT(20)
<1>6. \A i \in t + 1 .. Len(d) : IsTest(d[i]) => d[i].refs > d[t].refs
  BY <1>1, <1>3, <1>5 DEF Begun, Emits, IsTest
<1>7. /\ Len(d) \in t + 1 .. Len(d) /\ d[Len(d)].op = "end"
      /\ d[Len(d)].skip = Nowhere /\ d[Len(d)].refs = d[t].refs
  BY <1>1, <1>3 DEF Emits
<1>8. QED
  BY <1>2, <1>4, <1>6, <1>7 DEF Closes

\* The end of an if without else, and the jump of its test.
LEMMA EndIfAdds ==
  ASSUME NEW c \in Seq(Ins), NEW o \in Seq(Ifs), Struct(c, o),
         NEW N, N = Len(o), N >= 1, o[N].part = "then", c[Len(c)].op # "begin",
         NEW t, t = o[N].id,
         NEW d, NEW op, op = "end", Emits(c, o, d, op, N),
         NEW S, S = {t}, SkipsStay(c, d, S), d[t].skip = Len(d),
         NEW p \in Seq(Ifs), Len(p) = N - 1, Same(o, p, N - 1)
  PROVE  Struct(d, p)
<1>1. /\ Paths(c) /\ Flows(c, o) /\ OpenIfs(c, o) /\ Tested(c, o) /\ Jumps(c, o)
      /\ Forward(c)
      /\ op \in Blocks /\ op \notin {"test2", "exists"} /\ op # "begin"
  BY DEF Struct, Blocks
<1>2. /\ Len(c) \in Nat /\ Len(d) = Len(c) + 1 /\ d \in Seq(Ins)
      /\ N \in Nat /\ N \in 1 .. Len(o)
      /\ \A m \in 1 .. N - 1 : p[m] = o[m]
  BY LenProperties DEF Emits, Same
<1>3. /\ Opened(c, o, N) /\ Begun(c, o, t, N) /\ t \in 1 .. Len(c)
      /\ InThen(c, t, N) /\ t \in Nat /\ c[t].refs = N /\ IsTest(c[t])
      /\ c[t].skip = Nowhere
  <2>1. Opened(c, o, N)
    BY <1>1, <1>2 DEF OpenIfs
  <2>2. Begun(c, o, t, N) /\ InThen(c, t, N)
    BY <2>1 DEF Opened
  <2>3. QED
    BY <2>1, <2>2 DEF Begun
<1>4. Paths(d)
  BY <1>1, PathsGrow
<1>5. Outer(p, Len(p)) = Outer(o, N - 1) /\ Closes(d, p, t, Len(d))
  BY <1>2, <1>3, IfCloses
<1>6. Flows(d, p)
  <2>1. Outer(o, N - 1) \subseteq Outer(o, Len(o))
    BY <1>2, OuterGrows
  <2>2. Real(Outer(p, Len(p))) \subseteq Outer(o, Len(o))
    BY <1>5, <2>1 DEF Real
  <2>3. QED
    BY <1>1, <2>2, FlowsGrow
<1>7. Whole(d, p, t)
  <2> DEFINE q == <<t, "then">>
  <2>1. /\ t < Len(c) /\ c[t + 1].op = "begin" /\ t + 1 \in 1 .. Len(c)
        /\ Len(c) # t + 1 /\ t + 2 \in Nat /\ t + 2 >= 1
        /\ Within(c, q, t + 2, Len(c))
    BY <1>2, <1>3, SMTT(20) DEF InThen
  <2>2. q \in Outer(o, Len(o))
    BY <1>2, OuterGrows
  <2> HIDE DEF q
  <2>3. Within(d, q, t + 2, Len(d))
    BY <1>2, <2>1, <2>2, WithinGrows
  <2>4. /\ Len(d) \in t + 2 .. Len(d) /\ d[t + 1].op = "begin"
        /\ d[Len(d)].op = "end" /\ Len(d) \in 1 .. Len(d)
    BY <1>2, <1>3, <2>1, SMTT(20) DEF Emits
  <2>5. FirstBlock(d, t, Len(d))
    BY <2>3, <2>4 DEF FirstBlock, q
  <2>6. WholeIf(d, p, t, Len(d))
    BY <1>5, <2>5 DEF WholeIf
  <2>7. QED
    BY <2>4, <2>6 DEF Whole
<1>8. ASSUME NEW n \in 1 .. N - 1
      PROVE  Opened(d, p, n)
  <2>1. /\ Opened(c, o, n) /\ o[n].part \in Branches /\ n \in 1 .. Len(o)
        /\ N >= n /\ N # n /\ N \in Nat
        /\ \A m \in 1 .. n : p[m] = o[m]
        /\ \A i \in S : c[i].refs # n
    BY <1>1, <1>2, <1>3 DEF OpenIfs, Opened
  <2>2. QED
    BY <1>1, <1>2, <2>1, LevelStays
<1>9. \A n \in 1 .. N : n \in 1 .. N - 1 \/ n = N
  BY <1>2
<1>10. OpenIfs(d, p)
  BY <1>8 DEF OpenIfs
<1>11. Tested(d, p)
  <2>1. \A i \in S : Unset(c, o, i)
    <3>1. t \in t .. Len(c)
      BY <1>2, <1>3
    <3>2. QED
      BY <1>2, <1>3, <3>1, ClosesNone DEF Unset
  <2>2. \A n \in 1 .. Len(o) : \/ Whole(d, p, o[n].id)
                               \/ n \in 1 .. Len(p) /\ p[n].id = o[n].id
    BY <1>7, <1>9 DEF Same
  <2>3. QED
    BY <1>1, <2>1, <2>2, TestedGrow
<1>12. Jumps(d, p)
  <2>1. \A n \in 1 .. Len(o) : Kept(c, o, p, S, n)
    BY <1>9 DEF Kept, Same
  <2>2. \A i \in S : Jumped(c, d, i)
    BY <1>3 DEF Jumped, IsTest
  <2>3. QED
    BY <1>1, <2>1, <2>2, JumpsGrow
<1>13. Forward(d)
  <2>1. \A i \in S : d[i].skip \in i + 1 .. Len(d)
    BY <1>2, <1>3
  <2>2. QED
    BY <1>1, <2>1, ForwardGrows
<1>14. QED
  BY <1>4, <1>6, <1>10, <1>11, <1>12, <1>13 DEF Struct

\* The end of a second block, the jump of the test and that over the block.
LEMMA EndElseAdds ==
  ASSUME NEW c \in Seq(Ins), NEW o \in Seq(Ifs), Struct(c, o),
         NEW N, N = Len(o), N >= 1, o[N].part = "else", c[Len(c)].op # "begin",
         NEW t, t = o[N].id,
         NEW e \in 1 .. Len(c), Elsewhere(c, o, t, N, e),
         NEW d, NEW op, op = "end", Emits(c, o, d, op, N),
         NEW S, t \in S, e \in S, \A i \in S : i \in {t, e},
         SkipsStay(c, d, S), d[t].skip = e + 1,
         d[e].skip = Len(d),
         NEW p \in Seq(Ifs), Len(p) = N - 1, Same(o, p, N - 1)
  PROVE  Struct(d, p)
<1>1. /\ Paths(c) /\ Flows(c, o) /\ OpenIfs(c, o) /\ Tested(c, o) /\ Jumps(c, o)
      /\ Forward(c)
      /\ op \in Blocks /\ op \notin {"test2", "exists"} /\ op # "begin"
  BY DEF Struct, Blocks
<1>2. /\ Len(c) \in Nat /\ Len(d) = Len(c) + 1 /\ d \in Seq(Ins)
      /\ N \in Nat /\ N \in 1 .. Len(o) /\ e \in Nat
      /\ \A m \in 1 .. N - 1 : p[m] = o[m]
  BY LenProperties DEF Emits, Same
<1>3. /\ Opened(c, o, N) /\ Begun(c, o, t, N) /\ t \in 1 .. Len(c)
      /\ t \in Nat /\ c[t].refs = N /\ IsTest(c[t]) /\ c[t].skip = Nowhere
  <2>1. Opened(c, o, N)
    BY <1>1, <1>2 DEF OpenIfs
  <2>2. Begun(c, o, t, N)
    BY <2>1 DEF Opened
  <2>3. QED
    BY <2>1, <2>2 DEF Begun
<1>4. /\ e < Len(c) /\ c[e + 1].op = "begin" /\ e > t /\ e + 1 \in 1 .. Len(c)
      /\ c[e].op = "end" /\ c[e].refs = N /\ FirstBlock(c, t, e)
  <2>1. SecondBlock(c, o, t, e) /\ e \in EndsOf(c, t, N)
    BY DEF Elsewhere
  <2>2. QED
    BY <1>2, <1>3, <2>1, SMTT(20) DEF SecondBlock, FirstBlock, EndsOf
<1>5. Paths(d)
  BY <1>1, PathsGrow
<1>6. Outer(p, Len(p)) = Outer(o, N - 1) /\ Closes(d, p, t, Len(d))
  BY <1>2, <1>3, IfCloses
<1>7. Flows(d, p)
  <2>1. Outer(o, N - 1) \subseteq Outer(o, Len(o))
    BY <1>2, OuterGrows
  <2>2. Real(Outer(p, Len(p))) \subseteq Outer(o, Len(o))
    BY <1>6, <2>1 DEF Real
  <2>3. QED
    BY <1>1, <2>2, FlowsGrow
<1>8. Whole(d, p, t)
  <2> DEFINE q == <<t, "else">>
             f == e + 2
  <2>1. SecondBlock(d, p, t, e)
    BY <1>3, SecondStays DEF Elsewhere
  <2>2. f \in Nat /\ f >= 1 /\ Within(c, q, f, Len(c))
    BY <1>2 DEF Elsewhere
  <2>3. q \in Outer(o, Len(o))
    BY <1>2, OuterGrows
  <2> HIDE DEF q, f
  <2>4. Within(d, q, f, Len(d))
    BY <1>2, <2>2, <2>3, WithinGrows
  <2>5. /\ Len(d) \in e + 2 .. Len(d) /\ Len(d) \in 1 .. Len(d)
        /\ e \in 1 .. Len(d)
    BY <1>2, <1>4
  <2>6. WholeElse(d, p, t, e, Len(d))
    BY <1>6, <2>1, <2>4, <2>5 DEF WholeElse, q, f
  <2>7. QED
    BY <2>5, <2>6 DEF Whole
<1>9. ASSUME NEW n \in 1 .. N - 1
      PROVE  Opened(d, p, n)
  <2>1. /\ Opened(c, o, n) /\ o[n].part \in Branches /\ n \in 1 .. Len(o)
        /\ N >= n /\ N # n /\ N \in Nat
        /\ \A m \in 1 .. n : p[m] = o[m]
        /\ \A i \in S : c[i].refs # n
    BY <1>1, <1>2, <1>3, <1>4, SMTT(20) DEF OpenIfs, Opened, Same
  <2>2. QED
    BY <1>1, <1>2, <2>1, LevelStays
<1>10. \A n \in 1 .. N : n \in 1 .. N - 1 \/ n = N
  BY <1>2
<1>11. OpenIfs(d, p)
  BY <1>9 DEF OpenIfs
<1>12. Tested(d, p)
  <2>1. \A i \in S : i \in t .. Len(c) /\ c[i].refs = N /\ c[i].skip = Nowhere
    BY <1>2, <1>3, <1>4, SMTT(20) DEF Elsewhere
  <2>2. \A i \in S : Unset(c, o, i)
    BY <1>2, <1>3, <2>1, ClosesNone DEF Unset
  <2>3. \A n \in 1 .. Len(o) : \/ Whole(d, p, o[n].id)
                               \/ n \in 1 .. Len(p) /\ p[n].id = o[n].id
    BY <1>8, <1>10 DEF Same
  <2>4. QED
    BY <1>1, <2>2, <2>3, TestedGrow
<1>13. Jumps(d, p)
  <2>1. \A n \in 1 .. Len(o) : Kept(c, o, p, S, n)
    BY <1>10 DEF Elsewhere, Kept, Same
  <2>2. \A i \in S : Jumped(c, d, i)
    <3>1. c[t].op # "end"
      BY <1>3 DEF IsTest
    <3>2. d[e].skip # Nowhere /\ t \in 1 .. e
      BY <1>2, <1>3, <1>4 DEF Nowhere
    <3>3. QED
      BY <1>3, <1>4, <3>1, <3>2 DEF Jumped, Elsewhere
  <2>3. QED
    BY <1>1, <2>1, <2>2, JumpsGrow
<1>14. Forward(d)
  <2>1. \A i \in S : d[i].skip \in i + 1 .. Len(d)
    BY <1>2, <1>3, <1>4, SMTT(20)
  <2>2. QED
    BY <1>1, <2>1, ForwardGrows
<1>15. QED
  BY <1>5, <1>7, <1>11, <1>12, <1>13, <1>14 DEF Struct

----------------------------------------------------------------------------
(* The actions of the parser.                                              *)

\* The search backwards from the end of a block finds the test of its if.
LEMMA Searched ==
  ASSUME NEW d \in Seq(Ins), NEW o, NEW n \in Nat, NEW t, Begun(d, o, t, n),
         d[Len(d)].refs = n, NEW m \in t .. Len(d)
  PROVE  /\ TestsUpTo(d, m) # {} /\ Last(TestsUpTo(d, m)) = t
         /\ ~Strays(d, t)
<1> DEFINE S == TestsUpTo(d, m)
<1>1. /\ Len(d) \in Nat /\ t \in 1 .. Len(d) /\ t \in Nat /\ m \in Nat
      /\ IsTest(d[t]) /\ d[t].refs = n
      /\ \A i \in t .. Len(d) : d[i].refs >= n
      /\ \A i \in t + 1 .. Len(d) : IsTest(d[i]) => d[i].refs > n
  BY LenProperties DEF Begun
<1>2. S \in SUBSET Nat /\ t \in S
  BY <1>1 DEF TestsUpTo
<1>3. \A j \in S : j <= t
  BY <1>1 DEF TestsUpTo
<1>4. ~Strays(d, t)
  BY <1>1, InsType DEF Strays
<1> HIDE DEF S
<1>5. Last(S) = t
  BY <1>2, <1>3, LastIs
<1>6. QED
  BY <1>2, <1>4, <1>5 DEF S

\* What the rules of the grammar keep.
ParseInv ==
  /\ code \in Seq(Ins) /\ open \in Seq(Ifs) /\ refs = Len(open)
  /\ Struct(code, open)

\* A statement or an if begins where the text can go on with one.
LEMMA ListBranches ==
  ASSUME open \in Seq(Ifs), OpenIfs(code, open), InList
  PROVE  InBranches(open)
<1>1. Len(open) \in Nat /\ (open = <<>> => Len(open) = 0)
  BY LenProperties
<1>2. ASSUME NEW n \in 1 .. Len(open)
      PROVE  open[n].part \in Branches
  <2>1. CASE n < Len(open)
    BY <2>1 DEF OpenIfs, Opened
  <2>2. CASE n = Len(open)
    BY <1>1, <2>2 DEF InList, Here, Branches
  <2>3. QED
    BY <1>1, <2>1, <2>2
<1>3. QED
  BY <1>2 DEF InBranches

\* The grammar's statements: assignments and calls.
LEMMA StatementStep ==
  ASSUME ParseInv, NEW s \in Statements, Statement(s)
  PROVE  ParseInv' /\ Len(code') = Len(code) + 1
<1> DEFINE d == code'
<1>1. /\ code \in Seq(Ins) /\ open \in Seq(Ifs) /\ refs = Len(open)
      /\ Len(open) \in Nat /\ open' = open /\ refs' = refs
      /\ d = Emitted(s, refs)
  BY LenProperties DEF ParseInv, Statement
<1>2. /\ s.op \in {"assign", "xplcmd", "spawn"} /\ s.op \in Ops
      /\ s.a \in Operands \union Hashes /\ s.b \in Operands
      /\ s.op = "assign" => s.a \in Vars
  BY PcodeAssumption DEF PcodeAssumption, Ops, Operands
<1> HIDE DEF d
<1>3. Emits(code, open, d, s.op, refs) /\ SkipsStay(code, d, {})
  BY <1>1, <1>2, EmittedIs
<1>4. Struct(code, open) /\ InBranches(open)
  BY <1>1, ListBranches DEF ParseInv, Struct, Statement
<1>5. Struct(d, open)
  BY <1>1, <1>2, <1>3, <1>4, StatementAdds
<1>6. QED
  BY <1>1, <1>3, <1>5 DEF ParseInv, Emits, d

\* The grammar's iftest: the keyword and the test of an if.
LEMMA IfStep ==
  ASSUME ParseInv, NEW x \in Tests, If(x)
  PROVE  ParseInv' /\ Len(code') = Len(code) + 1
<1> DEFINE N == Len(open)
           r == N + 1
           d == code'
           p == open'
           y == [id |-> Len(code) + 1, part |-> "test"]
<1>1. /\ code \in Seq(Ins) /\ open \in Seq(Ifs) /\ refs = N /\ N \in Nat
      /\ refs' = r /\ d = Emitted(x, r) /\ r \in Nat
      /\ p = Append(open, y) /\ N = Len(open) /\ r = N + 1
  BY LenProperties DEF ParseInv, If
<1>2. /\ x.op \in {"test2", "exists"} /\ x.op \in Ops
      /\ x.a \in Operands \union Hashes /\ x.b \in Operands
  BY PcodeAssumption DEF PcodeAssumption, Ops, Operands
<1> HIDE DEF d, p, N, r
<1>3. Emits(code, open, d, x.op, r) /\ SkipsStay(code, d, {})
  BY <1>1, <1>2, EmittedIs
<1>4. Struct(code, open) /\ InBranches(open)
  BY <1>1, ListBranches DEF ParseInv, Struct, If
<1>5. /\ Len(code) \in Nat /\ Len(d) = Len(code) + 1 /\ d \in Seq(Ins)
      /\ y.id = Len(d) /\ y.part = "test"
  BY <1>1, <1>3, LenProperties DEF Emits
<1>6. y \in Ifs
  BY <1>5 DEF Ifs, Parts
<1> HIDE DEF y
<1>7. /\ p \in Seq(Ifs) /\ Len(p) = r /\ p[r] = y
      /\ Same(open, p, N)
  BY <1>1, <1>6, AppendProperties DEF Same
<1>8. p[r].id = Len(d) /\ p[r].part = "test"
  BY <1>5, <1>7
<1>9. Struct(d, p)
  <2>1. /\ code \in Seq(Ins) /\ open \in Seq(Ifs) /\ N = Len(open) /\ r = N + 1
        /\ x.op \in {"test2", "exists"}
    BY <1>1, <1>2
  <2>2. QED
    BY <2>1, <1>3, <1>4, <1>7, <1>8, TestAdds
<1>10. QED
  BY <1>1, <1>5, <1>7, <1>9 DEF ParseInv, d, p

\* The part of the innermost if.
PartOf(o, n, v) == [o EXCEPT ![n].part = v]

\* The other ifs stay as they are when a block begins or ends.
LEMMA PartSet ==
  ASSUME NEW o \in Seq(Ifs), NEW n \in 1 .. Len(o), NEW v \in Parts,
         NEW p, p = PartOf(o, n, v)
  PROVE  /\ p \in Seq(Ifs) /\ Len(p) = Len(o) /\ Same(o, p, n - 1)
         /\ p[n].id = o[n].id /\ p[n].part = v
<1> DEFINE x == [o[n] EXCEPT !.part = v]
<1>1. o[n] \in Ifs
  BY ElementOfSeq
<1>2. x \in Ifs /\ x.part = v /\ x.id = o[n].id
  BY <1>1 DEF Ifs
<1>3. p = [o EXCEPT ![n] = x]
  BY DEF PartOf
<1> HIDE DEF x
<1>4. p \in Seq(Ifs) /\ Len(p) = Len(o) /\ p[n] = x
      /\ \A m \in 1 .. Len(o) : m # n => p[m] = o[m]
  BY <1>2, <1>3, ExceptSeq
<1>5. \A m \in 1 .. n - 1 : m \in 1 .. Len(o) /\ m # n
  BY LenProperties
<1>6. QED
  BY <1>2, <1>4, <1>5 DEF Same

\* Closing an if.
LEMMA IfLeft ==
  ASSUME NEW o \in Seq(Ifs), NEW N, N = Len(o), N >= 1
  PROVE  LET p == SubSeq(o, 1, N - 1)
         IN  p \in Seq(Ifs) /\ Len(p) = N - 1 /\ Same(o, p, N - 1)
<1>1. N \in Nat
  BY LenProperties
<1>2. QED
  BY <1>1, SubSeqProperties DEF Same

\* Setting a jump in what has been emitted.
WithJump(b, j, v) == [b EXCEPT ![j].skip = v]

\* The instructions are those emitted, but for the jump that is set.
LEMMA JumpEmits ==
  ASSUME NEW c \in Seq(Ins), NEW o, NEW b, NEW op, NEW r, Emits(c, o, b, op, r),
         NEW S, SkipsStay(c, b, S),
         NEW j \in 1 .. Len(c), NEW v \in Nat, NEW d, d = WithJump(b, j, v),
         NEW T, j \in T, \A i \in S : i \in T
  PROVE  /\ Emits(c, o, d, op, r) /\ SkipsStay(c, d, T)
         /\ Len(d) = Len(b) /\ d[j].skip = v
         /\ \A i \in 1 .. Len(c) : i # j => d[i].skip = b[i].skip
<1>1. /\ b \in Seq(Ins) /\ Len(b) = Len(c) + 1 /\ Len(c) \in Nat
      /\ j \in 1 .. Len(b) /\ j # Len(b) /\ Len(b) \in 1 .. Len(b)
      /\ \A i \in 1 .. Len(c) : i \in 1 .. Len(b)
  BY LenProperties DEF Emits
<1>2. /\ d \in Seq(Ins) /\ Len(d) = Len(b)
      /\ \A i \in 1 .. Len(b) :
           /\ d[i].op = b[i].op /\ d[i].refs = b[i].refs
           /\ d[i].path = b[i].path
           /\ d[i].skip = IF i = j THEN v ELSE b[i].skip
  BY <1>1, JumpSet DEF WithJump
<1>3. Emits(c, o, d, op, r)
  BY <1>1, <1>2 DEF Emits
<1>4. SkipsStay(c, d, T)
  BY <1>1, <1>2 DEF SkipsStay
<1>5. QED
  BY <1>1, <1>2, <1>3, <1>4

\* What the end of a block emits, before the jumps are set.
LEMMA EndEmits ==
  ASSUME ParseInv, open # <<>>, NEW N, N = Len(open), NEW t, t = open[N].id,
         NEW b, b = Emitted(End, refs)
  PROVE  /\ N \in Nat /\ N >= 1 /\ refs = N /\ Here = N /\ t \in 1 .. Len(code)
         /\ Emits(code, open, b, "end", N) /\ SkipsStay(code, b, {})
         /\ Opened(code, open, N) /\ Begun(b, open, t, N)
<1>1. /\ code \in Seq(Ins) /\ open \in Seq(Ifs) /\ refs = N
      /\ N \in Nat /\ N >= 1 /\ Here = N /\ N \in 1 .. Len(open)
  BY LenProperties, EmptySeq DEF ParseInv, Here
<1>2. Opened(code, open, N)
  BY <1>1 DEF ParseInv, Struct, OpenIfs
<1>3. Begun(code, open, t, N) /\ t \in 1 .. Len(code) /\ code[t].skip = Nowhere
  BY <1>2 DEF Opened, Begun
<1>4. Emits(code, open, b, "end", N) /\ SkipsStay(code, b, {})
  <2>1. /\ End.op = "end" /\ End.op \in Ops /\ End.a \in Operands \union Hashes
        /\ End.b \in Operands
    BY DEF End, Ops, Blocks, Operands
  <2>2. QED
    BY <1>1, <2>1, EmittedIs
<1>5. b[t].skip = Nowhere
  BY <1>3, <1>4 DEF SkipsStay
<1> DEFINE op == "end"
<1>6. Emits(code, open, b, op, N) /\ N >= N /\ op \notin {"test2", "exists"}
  BY <1>1, <1>4
<1> HIDE DEF op
<1>7. Begun(b, open, t, N)
  BY <1>1, <1>3, <1>5, <1>6, BegunStays
<1>8. QED
  BY <1>1, <1>2, <1>3, <1>4, <1>7

\* The grammar's blockstart.
LEMMA OpenBlockStep ==
  ASSUME ParseInv, OpenBlock
  PROVE  ParseInv' /\ Len(code') = Len(code) + 1
<1> DEFINE N == Len(open)
           d == code'
           p == open'
           v == IF open[N].part = "test" THEN "then" ELSE "else"
<1>1. /\ code \in Seq(Ins) /\ open \in Seq(Ifs) /\ refs = N /\ refs' = N
      /\ N \in Nat /\ N >= 1 /\ N = Len(open) /\ N \in 1 .. Len(open)
      /\ Struct(code, open)
      /\ d = Emitted(Begin, N) /\ p = PartOf(open, N, v)
      /\ open[N].part \in {"test", "keyword"}
  BY LenProperties, EmptySeq DEF ParseInv, OpenBlock, Part, PartOf, Here
<1>2. /\ v \in Parts
      /\ \/ open[N].part = "test" /\ v = "then"
         \/ open[N].part = "keyword" /\ v = "else"
  BY <1>1 DEF Parts, Branches
<1> HIDE DEF N, d, p, v
<1>3. Emits(code, open, d, "begin", N) /\ SkipsStay(code, d, {})
  <2>1. /\ Begin.op = "begin" /\ Begin.op \in Ops /\ Begin.b \in Operands
        /\ Begin.a \in Operands \union Hashes
    BY DEF Begin, Ops, Blocks, Operands
  <2>2. QED
    BY <1>1, <2>1, EmittedIs
<1>4. /\ p \in Seq(Ifs) /\ Len(p) = N /\ Same(open, p, N - 1)
      /\ p[N].id = open[N].id /\ p[N].part = v
  BY <1>1, <1>2, PartSet
<1>5. Struct(d, p)
  BY <1>1, <1>2, <1>3, <1>4, BlockAdds
<1>6. QED
  BY <1>1, <1>3, <1>4, <1>5 DEF ParseInv, Emits, d, p

\* The grammar's blockend, when else follows.
LEMMA ElseStep ==
  ASSUME ParseInv, Else
  PROVE  ParseInv' /\ Len(code') = Len(code) + 1
<1> DEFINE N == Len(open)
           t == open[N].id
           d == code'
           p == open'
           v == "keyword"
<1>1. open # <<>> /\ N = Len(open) /\ t = open[N].id /\ d = Emitted(End, refs)
  BY DEF Else, MayClose
<1> HIDE DEF N, t, d, v
<1>2. /\ N \in Nat /\ N >= 1 /\ refs = N /\ Here = N
      /\ Emits(code, open, d, "end", N) /\ SkipsStay(code, d, {})
  BY <1>1, EndEmits
<1>3. /\ code \in Seq(Ins) /\ open \in Seq(Ifs) /\ Struct(code, open)
      /\ N \in 1 .. Len(open) /\ refs' = N
      /\ p = PartOf(open, N, v)
      /\ open[N].part = "then" /\ code[Len(code)].op # "begin"
  BY <1>1, <1>2 DEF ParseInv, Else, MayClose, Part, PartOf, v
<1>4. v \in Parts
  BY DEF v, Parts
<1> HIDE DEF p
<1>5. /\ p \in Seq(Ifs) /\ Len(p) = N /\ Same(open, p, N - 1)
      /\ p[N].id = open[N].id /\ p[N].part = v
  BY <1>1, <1>3, <1>4, PartSet
<1>6. Struct(d, p)
  BY <1>1, <1>2, <1>3, <1>5, ElseAdds DEF v
<1>7. QED
  BY <1>2, <1>3, <1>5, <1>6 DEF ParseInv, Emits, d, p

\* The grammar's ifconst: the search of ParserSetJumps(TOK_IF) from the end
\* of the block finds the test of its if.
LEMMA EndIfStep ==
  ASSUME ParseInv, EndIf
  PROVE  ParseInv' /\ Len(code') = Len(code) + 1 /\ phase' = phase
<1> DEFINE N == Len(open)
           t == open[N].id
           b == Emitted(End, refs)
           d == IfJump(b)
           p == open'
<1>1. /\ open # <<>> /\ N = Len(open) /\ t = open[N].id
      /\ b = Emitted(End, refs)
      /\ d = IfJump(b) /\ p = SubSeq(open, 1, Here - 1) /\ refs' = refs - 1
      /\ open[Here].part = "then" /\ code[Len(code)].op # "begin"
      /\ IfFound(b) => code' = d /\ phase' = phase
  BY DEF EndIf, MayClose, Close
<1> HIDE DEF N, t, b, d, p
<1>2. /\ N \in Nat /\ N >= 1 /\ refs = N /\ Here = N /\ t \in 1 .. Len(code)
      /\ Emits(code, open, b, "end", N) /\ SkipsStay(code, b, {})
      /\ Begun(b, open, t, N)
  BY <1>1, EndEmits
<1>3. code \in Seq(Ins) /\ open \in Seq(Ifs) /\ Struct(code, open)
  BY DEF ParseInv
<1>4. /\ b \in Seq(Ins) /\ b[Len(b)].refs = N /\ Len(b) \in t .. Len(b)
      /\ Len(b) \in Nat
  BY <1>2, <1>3, LenProperties DEF Emits
<1>5. /\ TestsUpTo(b, Len(b)) # {} /\ Last(TestsUpTo(b, Len(b))) = t
      /\ ~Strays(b, t)
  BY <1>2, <1>4, Searched
<1>6. IfFound(b)
  BY <1>5 DEF IfFound
<1> DEFINE S == {}
           T == {t}
<1>7. /\ d = WithJump(b, t, Len(b))
      /\ SkipsStay(code, b, S) /\ t \in T /\ \A i \in S : i \in T
  BY <1>1, <1>2, <1>5 DEF IfJump, WithJump
<1>8. T = {t}
  OBVIOUS
<1> HIDE DEF S, T
<1>9. /\ Emits(code, open, d, "end", N) /\ SkipsStay(code, d, T)
      /\ Len(d) = Len(b) /\ d[t].skip = Len(b)
  BY <1>2, <1>3, <1>4, <1>7, JumpEmits
<1>10. d[t].skip = Len(d)
  BY <1>9
<1>11. p \in Seq(Ifs) /\ Len(p) = N - 1 /\ Same(open, p, N - 1)
  BY <1>1, <1>2, <1>3, IfLeft
<1>12. Struct(d, p)
  BY <1>1, <1>2, <1>3, <1>8, <1>9, <1>10, <1>11, EndIfAdds
<1>13. QED
  BY <1>1, <1>2, <1>6, <1>9, <1>11, <1>12 DEF ParseInv, Emits, p

\* The grammar's ifelseconst: the searches of ParserSetJumps(TOK_ELSE) find
\* the end of the first block, and then the test.
LEMMA EndElseStep ==
  ASSUME ParseInv, EndElse
  PROVE  ParseInv' /\ Len(code') = Len(code) + 1 /\ phase' = phase
<1> DEFINE N == Len(open)
           t == open[N].id
           b == Emitted(End, refs)
           d == ElseJumps(b)
           p == open'
<1>1. /\ open # <<>> /\ N = Len(open) /\ t = open[N].id
      /\ b = Emitted(End, refs)
      /\ d = ElseJumps(b) /\ p = SubSeq(open, 1, Here - 1) /\ refs' = refs - 1
      /\ open[Here].part = "else" /\ code[Len(code)].op # "begin"
      /\ ElseFound(b) => code' = d /\ phase' = phase
  BY DEF EndElse, MayClose, Close
<1> HIDE DEF N, t, b, d, p
<1>2. /\ N \in Nat /\ N >= 1 /\ refs = N /\ Here = N /\ t \in 1 .. Len(code)
      /\ Emits(code, open, b, "end", N) /\ SkipsStay(code, b, {})
      /\ Begun(b, open, t, N) /\ Opened(code, open, N)
  BY <1>1, EndEmits
<1>3. code \in Seq(Ins) /\ open \in Seq(Ifs) /\ Struct(code, open)
  BY DEF ParseInv
<1>4. PICK e \in 1 .. Len(code) : Elsewhere(code, open, t, N, e)
  BY <1>1, <1>2 DEF Opened, InElse
<1>5. /\ b \in Seq(Ins) /\ b[Len(b)].refs = N /\ Len(b) = Len(code) + 1
      /\ Len(b) \in Nat /\ Len(code) \in Nat /\ e \in Nat /\ t \in Nat
      /\ \A i \in 1 .. Len(code) :
           b[i].op = code[i].op /\ b[i].refs = code[i].refs
  BY <1>2, <1>3, LenProperties DEF Emits
<1>6. EndsOf(code, t, N) = {e} /\ e \in t .. Len(b) /\ e # t
  <2>1. EndsOf(code, t, N) = {e}
    BY <1>4 DEF Elsewhere
  <2>2. e \in t + 1 .. Len(code)
    BY <2>1 DEF EndsOf
  <2>3. QED
    BY <1>5, <2>1, <2>2
<1>7. EndsBefore(b) # {} /\ Last(EndsBefore(b)) = e
  <2> DEFINE S == EndsBefore(b)
  <2>1. S \in SUBSET Nat
    BY DEF EndsBefore
  <2>2. e \in S
    <3>1. code[e].op = "end" /\ code[e].refs = N
      BY <1>6 DEF EndsOf
    <3>2. QED
      BY <1>5, <3>1 DEF EndsBefore
  <2>3. ASSUME NEW j \in S PROVE j <= e
    <3>1. j \in 1 .. Len(code) /\ code[j].op = "end" /\ code[j].refs = N
      BY <1>5 DEF EndsBefore
    <3>2. j > t => j \in EndsOf(code, t, N)
      BY <1>5, <3>1 DEF EndsOf
    <3>3. QED
      BY <1>5, <1>6, <3>1, <3>2
  <2> HIDE DEF S
  <2>4. Last(S) = e
    BY <2>1, <2>2, <2>3, LastIs
  <2>5. QED
    BY <2>2, <2>4 DEF S
<1>8. TestsUpTo(b, e) # {} /\ Last(TestsUpTo(b, e)) = t /\ ~Strays(b, t)
  BY <1>2, <1>5, <1>6, Searched
<1>9. ElseFound(b)
  BY <1>7, <1>8 DEF ElseFound
<1> DEFINE x == WithJump(b, e, Len(b))
           f == e + 1
           R == {}
           S == {e}
           T == {t, e}
<1>10. /\ x = WithJump(b, e, Len(b)) /\ d = WithJump(x, t, f)
       /\ f \in Nat /\ f = e + 1 /\ SkipsStay(code, b, R)
       /\ e \in S /\ \A i \in R : i \in S
       /\ t \in T /\ e \in T /\ \A i \in S : i \in T
       /\ \A i \in T : i \in {t, e}
  <2>1. d = [b EXCEPT ![e].skip = Len(b), ![t].skip = e + 1]
    BY <1>1, <1>7, <1>8 DEF ElseJumps
  <2>2. d = WithJump(WithJump(b, e, Len(b)), t, e + 1)
    BY <2>1 DEF WithJump
  <2>3. QED
    BY <1>2, <1>5, <2>2
<1> HIDE DEF x, f, R, S, T
<1>11. /\ Emits(code, open, x, "end", N) /\ SkipsStay(code, x, S)
       /\ Len(x) = Len(b) /\ x[e].skip = Len(b)
  BY <1>2, <1>3, <1>5, <1>10, JumpEmits
<1>12. /\ Emits(code, open, d, "end", N) /\ SkipsStay(code, d, T)
       /\ Len(d) = Len(x) /\ d[t].skip = f /\ d[e].skip = x[e].skip
  BY <1>2, <1>3, <1>6, <1>10, <1>11, JumpEmits
<1>13. d[e].skip = Len(d) /\ d[t].skip = e + 1
  BY <1>10, <1>11, <1>12
<1>14. p \in Seq(Ifs) /\ Len(p) = N - 1 /\ Same(open, p, N - 1)
  BY <1>1, <1>2, <1>3, IfLeft
<1>15. Struct(d, p)
  BY <1>1, <1>2, <1>3, <1>4, <1>10, <1>12, <1>13, <1>14, EndElseAdds
<1>16. QED
  BY <1>1, <1>2, <1>9, <1>12, <1>14, <1>15 DEF ParseInv, Emits, p

\* ParserParseHCL begins with no code and no if.
LEMMA ParseInvInit ==
  Init => ParseInv
<1> SUFFICES ASSUME Init PROVE ParseInv
  OBVIOUS
<1>1. /\ code = <<>> /\ open = <<>> /\ refs = 0
      /\ Len(code) = 0 /\ Len(open) = 0 /\ 1 .. 0 = {}
      /\ code \in Seq(Ins) /\ open \in Seq(Ifs)
  BY EmptySeq DEF Init
<1>2. Struct(code, open)
  BY <1>1 DEF Struct, Paths, Flows, OpenIfs, Tested, Jumps, Forward
<1>3. QED
  BY <1>1, <1>2 DEF ParseInv

\* No step of the parser disturbs the structure, and the loop leaves the
\* code as it is.
LEMMA ParseInvNext ==
  ParseInv /\ [Next]_vars => ParseInv'
<1> SUFFICES ASSUME ParseInv, [Next]_vars PROVE ParseInv'
  OBVIOUS
<1>1. ASSUME UNCHANGED parseVars PROVE ParseInv'
  BY <1>1 DEF ParseInv, parseVars
<1>2. ASSUME Reject PROVE ParseInv'
  <2>1. /\ code' = <<>> /\ open' = <<>> /\ refs' = 0
        /\ Len(code') = 0 /\ Len(open') = 0 /\ 1 .. 0 = {}
        /\ code' \in Seq(Ins) /\ open' \in Seq(Ifs)
    BY <1>2, EmptySeq DEF Reject
  <2>2. Struct(code', open')
    BY <2>1 DEF Struct, Paths, Flows, OpenIfs, Tested, Jumps, Forward
  <2>3. QED
    BY <2>1, <2>2 DEF ParseInv
<1>3. CASE \E s \in Statements : Statement(s)
  BY <1>3, StatementStep
<1>4. CASE \E t \in Tests : If(t)
  BY <1>4, IfStep
<1>5. CASE OpenBlock
  BY <1>5, OpenBlockStep
<1>6. CASE Else
  BY <1>6, ElseStep
<1>7. CASE EndIf
  BY <1>7, EndIfStep
<1>8. CASE EndElse
  BY <1>8, EndElseStep
<1>9. CASE SyntaxError
  BY <1>2, <1>9 DEF SyntaxError
<1>10. CASE EndOfText
  BY <1>1, <1>2, <1>10 DEF EndOfText
<1>11. CASE Exec
  BY <1>1, <1>11 DEF Exec, Assign, Test2, Exists, Block, XplCmd, Spawn,
                     Finish, Executes
<1>12. CASE UNCHANGED vars
  BY <1>1, <1>12 DEF vars
<1>13. QED
  BY <1>3, <1>4, <1>5, <1>6, <1>7, <1>8, <1>9, <1>10, <1>11, <1>12
     DEF Next, Parse

----------------------------------------------------------------------------
(* The execution of a script that was read to its end.                     *)

\* What was executed before p is what the branches chosen say.
RunAt(c, ch, rn, p) ==
  /\ p \in 1 .. Len(c) + 1
  /\ ch \subseteq (1 .. p - 1) \X Branches
  /\ \A t \in 1 .. Len(c) : ~(<<t, "then">> \in ch /\ <<t, "else">> \in ch)
  /\ rn \subseteq 1 .. p - 1
  /\ \A i \in 1 .. p - 1 :
       c[i].op \notin Blocks => (i \in rn <=> c[i].path \subseteq ch)

\* The instruction at p is in chosen branches; a block is entered only after
\* its test.
LiveAt(c, ch, p) ==
  p <= Len(c) =>
    /\ Real(c[p].path) \subseteq ch
    /\ c[p].op = "begin" => IsTest(c[p - 1]) /\ <<p - 1, "then">> \in ch

\* Nothing is left open.
Closed(c) ==
  /\ Paths(c) /\ Jumps(c, <<>>)
  /\ \A t \in 1 .. Len(c) : IsTest(c[t]) => Whole(c, <<>>, t)
  /\ Flows(c, <<>>)

\* In a script that was read to its end each if has its jumps.
LEMMA CompleteIsClosed ==
  ASSUME NEW c \in Seq(Ins), Struct(c, <<>>)
  PROVE  Closed(c)
<1>1. Len(<<>>) = 0 /\ 1 .. 0 = {}
  BY EmptySeq
<1>2. QED
  BY <1>1 DEF Struct, Closed, Tested

\* What follows an end without a jump is no block.
LEMMA AfterEnd ==
  ASSUME NEW c \in Seq(Ins), Closed(c), NEW i \in 1 .. Len(c),
         c[i].op = "end", c[i].skip = Nowhere, i < Len(c)
  PROVE  c[i + 1].op # "begin"
<1>1. Len(<<>>) = 0 /\ 1 .. 0 = {}
  BY EmptySeq
<1>2. QED
  BY <1>1 DEF Closed, Jumps

\* A statement or test is in the branches that its path names.
LEMMA OnPath ==
  ASSUME NEW c \in Seq(Ins), Closed(c), NEW ch, NEW p \in 1 .. Len(c),
         LiveAt(c, ch, p), c[p].op \notin Blocks
  PROVE  c[p].path \subseteq ch
<1>1. p <= Len(c) /\ c[p].path \subseteq Real(c[p].path)
  BY LenProperties DEF Closed, Paths
<1>2. QED
  BY <1>1 DEF LiveAt

\* The history when the loop goes from p to a later q: what is left out is
\* not in the branches chosen.
LEMMA RunGrows ==
  ASSUME NEW c \in Seq(Ins), Closed(c), NEW ch, NEW rn, NEW p \in 1 .. Len(c),
         RunAt(c, ch, rn, p), LiveAt(c, ch, p),
         NEW ch2, ch \subseteq ch2, ch2 \subseteq ch \union ({p} \X Branches),
         ~(<<p, "then">> \in ch2 /\ <<p, "else">> \in ch2),
         NEW q \in p + 1 .. Len(c) + 1,
         \A i \in p + 1 .. q - 1 :
           c[i].op \notin Blocks => ~(c[i].path \subseteq ch2)
  PROVE  RunAt(c, ch2, rn \union {p}, q)
<1>1. /\ Len(c) \in Nat /\ p \in Nat /\ q \in Nat /\ q \in 1 .. Len(c) + 1
      /\ ch \subseteq (1 .. p - 1) \X Branches /\ rn \subseteq 1 .. p - 1
  BY LenProperties DEF RunAt
<1>2. ch2 \subseteq (1 .. q - 1) \X Branches
  <2>1. (1 .. p - 1) \subseteq (1 .. q - 1) /\ p \in 1 .. q - 1
    BY <1>1
  <2>2. QED
    BY <1>1, <2>1
<1>3. \A t \in 1 .. Len(c) : ~(<<t, "then">> \in ch2 /\ <<t, "else">> \in ch2)
  <2>1. ASSUME NEW t \in 1 .. Len(c), t # p, NEW b
        PROVE  <<t, b>> \in ch2 => <<t, b>> \in ch
    BY <2>1
  <2>2. QED
    BY <2>1 DEF RunAt
<1>4. rn \union {p} \subseteq 1 .. q - 1
  BY <1>1
<1>5. ASSUME NEW i \in 1 .. p, c[i].op \notin Blocks
      PROVE  c[i].path \subseteq ch2 <=> c[i].path \subseteq ch
  <2>1. i \in 1 .. Len(c)
    BY <1>1
  <2>2. c[i].path \subseteq (1 .. i - 1) \X Parts
    BY <2>1 DEF Closed, Paths
  <2>3. \A x \in c[i].path : x \notin {p} \X Branches
    BY <1>1, <2>2
  <2>4. QED
    BY <2>3
<1>6. ASSUME NEW i \in 1 .. q - 1, c[i].op \notin Blocks
      PROVE  i \in rn \union {p} <=> c[i].path \subseteq ch2
  <2>1. CASE i \in 1 .. p - 1
    <3>1. i # p /\ i \in 1 .. p
      BY <1>1, <2>1
    <3>2. i \in rn <=> c[i].path \subseteq ch
      BY <1>6, <2>1 DEF RunAt
    <3>3. QED
      BY <1>5, <1>6, <3>1, <3>2
  <2>2. CASE i = p
    <3>1. c[i].path \subseteq ch
      BY <1>6, <2>2, OnPath
    <3>2. i \in 1 .. p
      BY <1>1, <2>2
    <3>3. QED
      BY <1>5, <1>6, <2>2, <3>1, <3>2
  <2>3. CASE i \in p + 1 .. q - 1
    <3>1. i \notin rn \union {p}
      BY <1>1, <2>3
    <3>2. QED
      BY <1>6, <2>3, <3>1
  <2>4. QED
    BY <1>1, <2>1, <2>2, <2>3
<1>7. QED
  BY <1>1, <1>2, <1>3, <1>4, <1>6 DEF RunAt

\* The loop steps on to the next instruction.
LEMMA StepsOn ==
  ASSUME NEW c \in Seq(Ins), Closed(c), NEW ch, NEW rn, NEW p \in 1 .. Len(c),
         RunAt(c, ch, rn, p), LiveAt(c, ch, p),
         NEW ch2,
         \/ ch2 = ch
         \/ IsTest(c[p]) /\ ch2 = ch \union {<<p, "then">>}
  PROVE  /\ RunAt(c, ch2, rn \union {p}, p + 1)
         /\ \/ ch2 = ch /\ IsTest(c[p])
            \/ c[p].op = "end" /\ c[p].skip # Nowhere
            \/ LiveAt(c, ch2, p + 1)
<1>1. /\ Len(c) \in Nat /\ p \in Nat /\ p + 1 \in p + 1 .. Len(c) + 1
      /\ p <= Len(c) /\ ch \subseteq (1 .. p - 1) \X Branches
  BY LenProperties DEF RunAt
<1>2. /\ ch \subseteq ch2 /\ ch2 \subseteq ch \union ({p} \X Branches)
      /\ <<p, "else">> \notin ch2
  BY <1>1 DEF Branches
<1> DEFINE q == p + 1
<1>3. /\ q \in p + 1 .. Len(c) + 1
      /\ \A i \in p + 1 .. q - 1 : FALSE
  BY <1>1
<1> HIDE DEF q
<1>4. RunAt(c, ch2, rn \union {p}, q)
  BY <1>2, <1>3, RunGrows
<1>5. ASSUME p < Len(c), ~(ch2 = ch /\ IsTest(c[p])),
             ~(c[p].op = "end" /\ c[p].skip # Nowhere)
      PROVE  /\ Real(c[p + 1].path) \subseteq ch2
             /\ c[p + 1].op = "begin" => IsTest(c[p]) /\ <<p, "then">> \in ch2
  <2>1. Follows(c, <<>>, p) = c[p + 1].path /\ p + 1 \in 1 .. Len(c)
    BY <1>1, <1>5 DEF Follows
  <2>2. Real(c[p].path) \subseteq ch
    BY <1>1 DEF LiveAt
  <2>3. Real(c[p + 1].path) \subseteq ch2
    <3>1. CASE c[p].op # "begin"
      <4>1. Real(c[p + 1].path) \subseteq c[p].path
        BY <2>1, <3>1 DEF Closed, Flows
      <4>2. QED
        BY <1>2, <2>2, <4>1 DEF Real
    <3>2. CASE c[p].op = "begin"
      <4>1. IsTest(c[p - 1]) /\ <<p - 1, "then">> \in ch
        BY <1>1, <3>2 DEF LiveAt
      <4>2. c[p - 1].op # "end"
        BY <4>1 DEF IsTest
      <4>3. Real(c[p + 1].path) \subseteq c[p].path \union {<<p - 1, "then">>}
        BY <2>1, <3>2, <4>2 DEF Closed, Flows
      <4>4. QED
        BY <1>2, <2>2, <4>1, <4>3 DEF Real
    <3>3. QED
      BY <3>1, <3>2
  <2>4. ASSUME c[p + 1].op = "begin"
        PROVE  IsTest(c[p]) /\ <<p, "then">> \in ch2
    <3>1. c[p].op = "end" \/ IsTest(c[p])
      <4>1. p + 1 - 1 = p
        BY <1>1
      <4>2. QED
        BY <2>1, <2>4, <4>1 DEF Closed, Flows
    <3>2. c[p].op # "end"
      BY <1>5, <2>4, AfterEnd
    <3>3. QED
      BY <1>5, <3>1, <3>2
  <2>5. QED
    BY <2>3, <2>4
<1>6. p + 1 <= Len(c) => p < Len(c) /\ p + 1 - 1 = p
  BY <1>1
<1>7. QED
  BY <1>4, <1>5, <1>6 DEF LiveAt, q

\* The loop goes on behind an if, or behind a block of it.
LEMMA LiveBehind ==
  ASSUME NEW c \in Seq(Ins), Closed(c), NEW k \in 1 .. Len(c), NEW ch,
         \/ c[k].op = "end" /\ c[k].skip = Nowhere
         \/ c[k].op = "begin",
         Real(Follows(c, <<>>, k)) \subseteq ch
  PROVE  LiveAt(c, ch, k + 1)
<1>1. SUFFICES ASSUME k + 1 <= Len(c)
               PROVE  /\ Real(c[k + 1].path) \subseteq ch
                      /\ c[k + 1].op # "begin"
  BY DEF LiveAt
<1>2. /\ Len(c) \in Nat /\ k \in Nat /\ k < Len(c) /\ k + 1 \in 1 .. Len(c)
      /\ (k + 1) - 1 = k
  BY <1>1, LenProperties
<1>3. Real(c[k + 1].path) \subseteq ch
  BY <1>2 DEF Follows
<1>4. CASE c[k].op = "end" /\ c[k].skip = Nowhere
  BY <1>2, <1>3, <1>4, AfterEnd
<1>5. CASE c[k].op = "begin"
  <2>1. ~IsTest(c[k]) /\ c[k].op # "end"
    BY <1>5 DEF IsTest
  <2>2. c[k + 1].op # "begin"
    BY <1>2, <2>1 DEF Closed, Flows
  <2>3. QED
    BY <1>3, <2>2
<1>6. QED
  BY <1>4, <1>5

\* A test that is not met.
LEMMA SkipsOver ==
  ASSUME NEW c \in Seq(Ins), Closed(c), NEW ch, NEW rn, NEW p \in 1 .. Len(c),
         RunAt(c, ch, rn, p), LiveAt(c, ch, p), IsTest(c[p]),
         NEW ch2, ch2 = ch \union {<<p, "else">>}
  PROVE  /\ c[p].skip # Nowhere
         /\ RunAt(c, ch2, rn \union {p}, c[p].skip + 1)
         /\ LiveAt(c, ch2, c[p].skip + 1)
<1> DEFINE s == c[p].skip
           w == <<p, "then">>
<1>1. /\ Len(c) \in Nat /\ p \in Nat
      /\ ch \subseteq (1 .. p - 1) \X Branches
  BY LenProperties DEF RunAt
<1>2. /\ ch \subseteq ch2 /\ ch2 \subseteq ch \union ({p} \X Branches)
      /\ w \notin ch2
  BY <1>1 DEF Branches
<1>3. Real(c[p].path) \subseteq ch
  BY <1>1 DEF LiveAt
<1>4. PICK e \in 1 .. Len(c) :
        \/ WholeIf(c, <<>>, p, e)
        \/ \E k \in 1 .. Len(c) : WholeElse(c, <<>>, p, e, k)
  BY DEF Closed, Whole
<1>5. /\ FirstBlock(c, p, e) /\ e \in Nat /\ e >= p + 2
      /\ c[p + 1].op = "begin"
      /\ \A i \in p + 2 .. e : w \in c[i].path
  <2>1. FirstBlock(c, p, e)
    BY <1>4 DEF WholeIf, WholeElse, SecondBlock
  <2>2. Within(c, w, p + 2, e)
    BY <2>1 DEF FirstBlock
  <2>3. e \in p + 2 .. Len(c) /\ c[p + 1].op = "begin"
    BY <2>1 DEF FirstBlock
  <2>4. QED
    BY <1>1, <2>1, <2>2, <2>3 DEF Within
<1> HIDE DEF s, w
<1>6. /\ s \in 1 .. Len(c) /\ p <= s
      /\ \A i \in p + 1 .. s : c[i].op \notin Blocks => w \in c[i].path
      /\ \/ c[s].op = "end" /\ c[s].skip = Nowhere
         \/ c[s].op = "begin"
      /\ Real(Follows(c, <<>>, s)) \subseteq c[p].path \union {<<p, "else">>}
  <2>1. CASE WholeIf(c, <<>>, p, e)
    <3>1. s = e
      BY <2>1 DEF WholeIf, s
    <3>2. /\ c[e].op = "end" /\ c[e].skip = Nowhere
          /\ Real(Follows(c, <<>>, e)) \subseteq c[p].path
      BY <2>1 DEF WholeIf, Closes
    <3>3. \A i \in p + 1 .. s : i = p + 1 \/ i \in p + 2 .. e
      BY <1>1, <1>5, <3>1
    <3>4. \A i \in p + 1 .. s : c[i].op \notin Blocks => w \in c[i].path
      BY <1>5, <3>3 DEF Blocks
    <3>5. QED
      BY <1>1, <1>5, <3>1, <3>2, <3>4
  <2>2. CASE \E k \in 1 .. Len(c) : WholeElse(c, <<>>, p, e, k)
    <3>1. /\ s = e + 1 /\ e < Len(c) /\ c[e + 1].op = "begin"
          /\ Real(Follows(c, <<>>, e + 1))
               \subseteq c[p].path \union {<<p, "else">>}
      BY <2>2 DEF WholeElse, SecondBlock, s
    <3>2. \A i \in p + 1 .. s : i = p + 1 \/ i \in p + 2 .. e \/ i = e + 1
      BY <1>1, <1>5, <3>1
    <3>3. \A i \in p + 1 .. s : c[i].op \notin Blocks => w \in c[i].path
      BY <1>5, <3>1, <3>2 DEF Blocks
    <3>4. QED
      BY <1>1, <1>5, <3>1, <3>3
  <2>3. QED
    BY <1>4, <2>1, <2>2
<1> DEFINE r == s + 1
<1>7. /\ r \in p + 1 .. Len(c) + 1 /\ s \in Nat
      /\ \A i \in p + 1 .. r - 1 :
           c[i].op \notin Blocks => ~(c[i].path \subseteq ch2)
  <2>1. \A i \in p + 1 .. r - 1 : i \in p + 1 .. s
    BY <1>1, <1>6
  <2>2. QED
    BY <1>1, <1>2, <1>6, <2>1
<1>8. Real(Follows(c, <<>>, s)) \subseteq ch2
  BY <1>3, <1>6 DEF Real
<1>9. LiveAt(c, ch2, s + 1)
  BY <1>6, <1>8, LiveBehind
<1> HIDE DEF r
<1>10. RunAt(c, ch2, rn \union {p}, r)
  BY <1>2, <1>7, RunGrows DEF w
<1>11. s # Nowhere
  BY <1>6 DEF Nowhere
<1>12. QED
  BY <1>9, <1>10, <1>11 DEF s, r

\* The end of a first block that a second one follows.
LEMMA JumpsOver ==
  ASSUME NEW c \in Seq(Ins), Closed(c), NEW ch, NEW rn, NEW p \in 1 .. Len(c),
         RunAt(c, ch, rn, p), LiveAt(c, ch, p),
         c[p].op = "end", c[p].skip # Nowhere
  PROVE  /\ RunAt(c, ch, rn \union {p}, c[p].skip + 1)
         /\ LiveAt(c, ch, c[p].skip + 1)
<1> DEFINE k == c[p].skip
<1>1. /\ Len(c) \in Nat /\ p \in Nat /\ p <= Len(c)
      /\ ch \subseteq (1 .. p - 1) \X Branches
  BY LenProperties DEF RunAt
<1>2. Real(c[p].path) \subseteq ch
  BY <1>1 DEF LiveAt
<1>3. /\ p < Len(c) /\ c[p + 1].op = "begin"
      /\ \E t \in 1 .. p : IsTest(c[t]) /\ c[t].skip = p + 1
  BY DEF Closed, Jumps
<1>4. PICK t \in 1 .. p : IsTest(c[t]) /\ c[t].skip = p + 1
  BY <1>3
<1>5. t \in 1 .. Len(c) /\ t \in Nat
  BY <1>1
<1>6. PICK e \in 1 .. Len(c) :
        \/ WholeIf(c, <<>>, t, e)
        \/ \E j \in 1 .. Len(c) : WholeElse(c, <<>>, t, e, j)
  BY <1>4, <1>5 DEF Closed, Whole
<1>7. e = p /\ WholeElse(c, <<>>, t, p, k)
  <2>1. CASE WholeIf(c, <<>>, t, e)
    <3>1. e = p + 1 /\ c[e].op = "end"
      BY <1>4, <2>1 DEF WholeIf, FirstBlock
    <3>2. QED
      BY <1>3, <3>1
  <2>2. CASE \E j \in 1 .. Len(c) : WholeElse(c, <<>>, t, e, j)
    <3>1. PICK j \in 1 .. Len(c) : WholeElse(c, <<>>, t, e, j)
      BY <2>2
    <3>2. e + 1 = p + 1 /\ c[e].skip = j
      BY <1>4, <3>1 DEF WholeElse
    <3>3. e = p
      BY <1>1, <1>5, <3>2
    <3>4. QED
      BY <3>1, <3>2, <3>3
  <2>3. QED
    BY <1>6, <2>1, <2>2
<1> DEFINE w == <<t, "else">>
           v == <<t, "then">>
<1>8. v \in c[p].path /\ v[2] \in Branches
  <2>1. FirstBlock(c, t, p)
    BY <1>7 DEF WholeElse, SecondBlock
  <2>2. p \in t + 2 .. p /\ Within(c, v, t + 2, p)
    BY <1>1, <1>5, <2>1 DEF FirstBlock
  <2>3. v[2] \in Branches
    BY DEF Branches
  <2>4. QED
    BY <2>2, <2>3 DEF Within
<1>9. w \notin ch
  <2>1. v \in ch
    BY <1>2, <1>8 DEF Real
  <2>2. QED
    BY <1>5, <2>1 DEF RunAt
<1> HIDE DEF k, w
<1>10. /\ k \in p + 2 .. Len(c) /\ c[k].op = "end" /\ c[k].skip = Nowhere
       /\ \A i \in p + 2 .. k : w \in c[i].path
       /\ Real(Follows(c, <<>>, k)) \subseteq c[p].path
  BY <1>7 DEF WholeElse, SecondBlock, Closes, Within, w
<1> DEFINE r == k + 1
<1>11. /\ r \in p + 1 .. Len(c) + 1 /\ k \in 1 .. Len(c) /\ k \in Nat
       /\ \A i \in p + 1 .. r - 1 : i = p + 1 \/ i \in p + 2 .. k
  BY <1>1, <1>10
<1>12. \A i \in p + 1 .. r - 1 :
         c[i].op \notin Blocks => ~(c[i].path \subseteq ch)
  BY <1>3, <1>9, <1>10, <1>11 DEF Blocks
<1>13. Real(Follows(c, <<>>, k)) \subseteq ch
  BY <1>2, <1>10 DEF Real
<1>14. LiveAt(c, ch, k + 1)
  BY <1>10, <1>11, <1>13, LiveBehind
<1>15. /\ ch \subseteq ch /\ ch \subseteq ch \union ({p} \X Branches)
       /\ ~(<<p, "then">> \in ch /\ <<p, "else">> \in ch)
  BY <1>1
<1> HIDE DEF r
<1>16. RunAt(c, ch, rn \union {p}, r)
  BY <1>11, <1>12, <1>15, RunGrows
<1>17. QED
  BY <1>14, <1>16 DEF k, r

\* A hash that is missing stops the loop at the instruction that needs it.
RunInv ==
  /\ RunAt(code, choice, ran \ {pc}, pc)
  /\ pc \in ran => phase = "nohash" /\ code[pc].path \subseteq choice
  /\ phase = "exec" /\ ~failed => LiveAt(code, choice, pc)
  /\ phase = "finished" => failed \/ pc > Len(code)

\* Nothing is executed before the text was read.
StartInv == phase = "parse" => pc = 1 /\ choice = {} /\ ran = {}

ExecInv == phase \in {"exec", "finished", "nohash"} /\ Complete => RunInv

\* The syntax check executes no script that was not read to its end.
EndInv ==
  /\ phase = "exec" /\ dry => Complete
  /\ JumpsFound

\* The inductive invariant: the structure of the code, and the history of
\* the loop in it.
PcodeInv == ParseInv /\ StartInv /\ ExecInv /\ EndInv

\* Where the loop is when it executes an instruction of a complete script.
LEMMA AtInstruction ==
  ASSUME PcodeInv, Complete, NEW op, Executes(op)
  PROVE  /\ code \in Seq(Ins) /\ Closed(code) /\ pc \in 1 .. Len(code)
         /\ RunAt(code, choice, ran, pc) /\ LiveAt(code, choice, pc)
<1>1. /\ phase = "exec" /\ ~failed /\ pc <= Len(code) /\ RunInv
      /\ code \in Seq(Ins) /\ Struct(code, <<>>)
  BY DEF PcodeInv, ExecInv, Executes, ParseInv, Complete
<1>2. pc \notin ran /\ LiveAt(code, choice, pc)
  BY <1>1 DEF RunInv
<1>3. ran \ {pc} = ran
  BY <1>2
<1>4. RunAt(code, choice, ran, pc)
  BY <1>1, <1>3 DEF RunInv
<1>5. Len(code) \in Nat /\ pc \in 1 .. Len(code) + 1
  BY <1>1, <1>4, LenProperties DEF RunAt
<1>6. QED
  BY <1>1, <1>2, <1>4, <1>5, CompleteIsClosed

\* What was executed is before the loop.
LEMMA RunBefore ==
  ASSUME NEW c \in Seq(Ins), NEW ch, NEW rn, NEW p, RunAt(c, ch, rn, p)
  PROVE  p \notin rn
<1>1. Len(c) \in Nat
  BY LenProperties
<1>2. p \in Nat /\ rn \subseteq 1 .. p - 1
  BY <1>1 DEF RunAt
<1>3. QED
  BY <1>2

\* The loop has gone on.
LEMMA GoesOn ==
  ASSUME PcodeInv, ParseInv', NEW op, Executes(op), phase' = phase,
         Complete => /\ RunAt(code, choice', ran', pc')
                     /\ failed' \/ LiveAt(code, choice', pc')
  PROVE  PcodeInv'
<1>1. /\ phase = "exec" /\ phase' = "exec" /\ code' = code /\ open' = open
      /\ dry' = dry
  BY DEF Executes, parseVars
<1>2. StartInv'
  BY <1>1 DEF StartInv
<1>3. EndInv'
  BY <1>1 DEF PcodeInv, EndInv, JumpsFound, Complete
<1>4. ASSUME Complete PROVE RunInv'
  <2>1. /\ RunAt(code, choice', ran', pc')
        /\ failed' \/ LiveAt(code, choice', pc')
    BY <1>4
  <2>2. code \in Seq(Ins)
    BY DEF PcodeInv, ParseInv
  <2>3. pc' \notin ran'
    BY <2>1, <2>2, RunBefore
  <2>4. ran' \ {pc'} = ran'
    BY <2>3
  <2>5. QED
    BY <1>1, <2>1, <2>3, <2>4 DEF RunInv
<1>5. ExecInv'
  BY <1>1, <1>4 DEF ExecInv, Complete
<1>6. QED
  BY <1>2, <1>3, <1>5 DEF PcodeInv

\* To the next instruction.
LEMMA NextOne ==
  ASSUME PcodeInv, ParseInv', NEW op, Executes(op), Goto(pc + 1),
         \/ choice' = choice /\ (IsTest(code[pc]) => failed')
         \/ IsTest(code[pc]) /\ choice' = choice \union {<<pc, "then">>},
         code[pc].op = "end" => code[pc].skip = Nowhere
  PROVE  PcodeInv'
<1>1. phase' = phase /\ pc' = pc + 1 /\ ran' = ran \union {pc}
  BY DEF Goto, Executes
<1>2. ASSUME Complete
      PROVE  /\ RunAt(code, choice', ran', pc')
             /\ failed' \/ LiveAt(code, choice', pc')
  <2> DEFINE ch2 == choice'
  <2>1. \/ ch2 = choice /\ (IsTest(code[pc]) => failed')
        \/ IsTest(code[pc]) /\ ch2 = choice \union {<<pc, "then">>}
    OBVIOUS
  <2>2. <<pc, "then">> \notin choice
    <3>1. RunAt(code, choice, ran, pc)
      BY <1>2, AtInstruction
    <3>2. QED
      BY <3>1 DEF RunAt
  <2> HIDE DEF ch2
  <2>3. /\ code \in Seq(Ins) /\ Closed(code) /\ pc \in 1 .. Len(code)
        /\ RunAt(code, choice, ran, pc) /\ LiveAt(code, choice, pc)
    BY <1>2, AtInstruction
  <2>4. /\ RunAt(code, ch2, ran \union {pc}, pc + 1)
        /\ \/ ch2 = choice /\ IsTest(code[pc])
           \/ code[pc].op = "end" /\ code[pc].skip # Nowhere
           \/ LiveAt(code, ch2, pc + 1)
    BY <2>1, <2>3, StepsOn
  <2>5. ch2 = choice /\ IsTest(code[pc]) => failed'
    BY <2>1, <2>2
  <2>6. QED
    BY <1>1, <2>4, <2>5 DEF ch2
<1>3. QED
  BY <1>1, <1>2, GoesOn

\* A test that is not met.
LEMMA SkipStep ==
  ASSUME PcodeInv, ParseInv', NEW op, Executes(op), IsTest(code[pc]), Skips
  PROVE  PcodeInv'
<1>1. /\ phase = "exec" /\ code' = code /\ open' = open /\ dry' = dry
      /\ ran' = ran \union {pc} /\ choice' = choice \union {<<pc, "else">>}
      /\ This = code[pc]
  BY DEF Executes, parseVars, Skips, Chooses, This
<1>2. ASSUME Complete
      PROVE  /\ code[pc].skip # Nowhere
             /\ RunAt(code, choice', ran', code[pc].skip + 1)
             /\ LiveAt(code, choice', code[pc].skip + 1)
  <2> DEFINE ch2 == choice'
  <2>1. ch2 = choice \union {<<pc, "else">>}
    BY <1>1
  <2> HIDE DEF ch2
  <2>2. /\ code \in Seq(Ins) /\ Closed(code) /\ pc \in 1 .. Len(code)
        /\ RunAt(code, choice, ran, pc) /\ LiveAt(code, choice, pc)
    BY <1>2, AtInstruction
  <2>3. /\ code[pc].skip # Nowhere
        /\ RunAt(code, ch2, ran \union {pc}, code[pc].skip + 1)
        /\ LiveAt(code, ch2, code[pc].skip + 1)
    BY <2>1, <2>2, SkipsOver
  <2>4. QED
    BY <1>1, <2>3 DEF ch2
<1>3. CASE code[pc].skip = Nowhere
  <2>1. ~Complete /\ ~dry
    BY <1>1, <1>2, <1>3 DEF PcodeInv, EndInv
  <2>2. phase' = "nojump"
    BY <1>1, <1>3 DEF Skips
  <2>3. QED
    BY <1>1, <2>1, <2>2
       DEF PcodeInv, StartInv, ExecInv, EndInv, JumpsFound, Complete
<1>4. CASE code[pc].skip # Nowhere
  <2>1. phase' = phase /\ pc' = code[pc].skip + 1
    BY <1>1, <1>4 DEF Skips, Goto, AfterJump
  <2>2. QED
    BY <1>2, <2>1, GoesOn
<1>5. QED
  BY <1>3, <1>4

\* The end of a block with a jump.
LEMMA JumpStep ==
  ASSUME PcodeInv, ParseInv', NEW op, Executes(op), choice' = choice,
         code[pc].op = "end", code[pc].skip # Nowhere, Goto(code[pc].skip + 1)
  PROVE  PcodeInv'
<1>1. /\ phase' = phase /\ pc' = code[pc].skip + 1 /\ ran' = ran \union {pc}
  BY DEF Executes, Goto
<1>2. ASSUME Complete
      PROVE  RunAt(code, choice', ran', pc') /\ LiveAt(code, choice', pc')
  <2>1. /\ code \in Seq(Ins) /\ Closed(code) /\ pc \in 1 .. Len(code)
        /\ RunAt(code, choice, ran, pc) /\ LiveAt(code, choice, pc)
    BY <1>2, AtInstruction
  <2>2. /\ RunAt(code, choice, ran \union {pc}, code[pc].skip + 1)
        /\ LiveAt(code, choice, code[pc].skip + 1)
    BY <2>1, JumpsOver
  <2>3. QED
    BY <1>1, <2>2
<1>3. QED
  BY <1>1, <1>2, GoesOn

\* A hash that is missing.
LEMMA NoHashStep ==
  ASSUME PcodeInv, ParseInv', Executes("xplcmd"), choice' = choice,
         phase' = "nohash", pc' = pc
  PROVE  PcodeInv'
<1>1. /\ phase = "exec" /\ code' = code /\ open' = open /\ dry' = dry
      /\ ran' = ran \union {pc} /\ code[pc].op = "xplcmd"
  BY DEF Executes, parseVars, This
<1>2. ASSUME Complete PROVE RunInv'
  <2>1. /\ code \in Seq(Ins) /\ Closed(code) /\ pc \in 1 .. Len(code)
        /\ RunAt(code, choice, ran, pc) /\ LiveAt(code, choice, pc)
    BY <1>2, AtInstruction
  <2>2. code[pc].path \subseteq choice
    <3>1. code[pc].op \notin Blocks
      BY <1>1 DEF Blocks
    <3>2. QED
      BY <2>1, <3>1, OnPath
  <2>3. pc \notin ran
    BY <2>1, LenProperties DEF RunAt
  <2>4. ran' \ {pc'} = ran
    BY <1>1, <2>3
  <2>5. QED
    BY <1>1, <2>1, <2>2, <2>4 DEF RunInv
<1>3. QED
  BY <1>1, <1>2 DEF PcodeInv, StartInv, ExecInv, EndInv, JumpsFound, Complete

\* The types, and the bounds of the code that the loop stays within, of a
\* script that was read to its end and of any other.
TypeInv ==
  /\ dry \in BOOLEAN
  /\ phase \in {"parse", "exec"} \union Ends
  /\ Len(code) <= MaxCode
  /\ pc \in 1 .. Len(code) + 1
  /\ defined \subseteq Vars /\ known \subseteq Hashes
  /\ failed \in BOOLEAN
  /\ choice \subseteq (1 .. Len(code)) \X Branches
  /\ ran \subseteq 1 .. Len(code)

\* The loop starts at the head of the code.
LEMMA TypeInvInit ==
  Init => TypeInv
<1> SUFFICES ASSUME Init PROVE TypeInv
  OBVIOUS
<1>1. Len(code) = 0 /\ 1 \in 1 .. 0 + 1 /\ MaxCode \in Nat
  BY EmptySeq, PcodeAssumption DEF Init, PcodeAssumption
<1>2. defined \subseteq Vars
  BY PcodeAssumption DEF Init, PcodeAssumption
<1>3. known \subseteq Hashes
  BY <1>2 DEF Init, Hashes
<1>4. /\ dry \in BOOLEAN /\ phase = "parse" /\ code = <<>> /\ pc = 1
      /\ failed = FALSE /\ choice = {} /\ ran = {}
  BY DEF Init
<1>5. Len(code) <= MaxCode /\ pc \in 1 .. Len(code) + 1
  BY <1>1, <1>4
<1>6. QED
  BY <1>2, <1>3, <1>4, <1>5 DEF TypeInv

\* The steps of the parser.
LEMMA ParseTyped ==
  ASSUME PcodeInv, TypeInv, Parse
  PROVE  TypeInv'
<1>1. /\ Len(code) \in Nat /\ MaxCode \in Nat /\ ParseInv
  BY LenProperties, PcodeAssumption DEF PcodeInv, ParseInv, PcodeAssumption
<1>2. ASSUME phase = "parse", phase' \in {"parse", "exec"} \union Ends,
             Len(code') \in Nat, Len(code') <= MaxCode,
             UNCHANGED <<dry, execVars>>
      PROVE  TypeInv'
  <2>1. /\ pc' = 1 /\ choice' = {} /\ ran' = {} /\ dry' = dry
        /\ defined' = defined /\ known' = known /\ failed' = failed
    BY <1>2 DEF PcodeInv, StartInv, execVars
  <2>2. pc' \in 1 .. Len(code') + 1
    BY <1>2, <2>1
  <2>3. QED
    BY <1>2, <2>1, <2>2 DEF TypeInv
<1>3. ASSUME phase = "parse", phase' \in {"parse", "exec"} \union Ends, Room,
             Len(code') = Len(code) + 1, UNCHANGED <<dry, execVars>>
      PROVE  TypeInv'
  BY <1>1, <1>2, <1>3 DEF Room
<1>4. ASSUME Reject, phase = "parse", UNCHANGED <<dry, execVars>>
      PROVE  TypeInv'
  BY <1>1, <1>2, <1>4, EmptySeq DEF Reject, Ends
<1>5. CASE \E s \in Statements : Statement(s)
  BY <1>1, <1>3, <1>5, StatementStep DEF Statement
<1>6. CASE \E t \in Tests : If(t)
  BY <1>1, <1>3, <1>6, IfStep DEF If
<1>7. CASE OpenBlock
  BY <1>1, <1>3, <1>7, OpenBlockStep DEF OpenBlock
<1>8. CASE Else
  BY <1>1, <1>3, <1>8, ElseStep DEF Else, MayClose
<1>9. CASE EndIf
  BY <1>1, <1>3, <1>9, EndIfStep DEF EndIf, MayClose
<1>10. CASE EndElse
  BY <1>1, <1>3, <1>10, EndElseStep DEF EndElse, MayClose
<1>11. CASE SyntaxError
  BY <1>4, <1>11 DEF SyntaxError
<1>12. CASE EndOfText
  <2>1. phase = "parse" /\ UNCHANGED <<dry, execVars>>
    BY <1>12 DEF EndOfText
  <2>2. \/ Reject
        \/ phase' \in {"nocode", "exec"} /\ code' = code
    BY <1>12 DEF EndOfText, parseVars
  <2>3. QED
    BY <1>1, <1>2, <1>4, <2>1, <2>2 DEF TypeInv, Ends
<1>13. QED
  BY <1>5, <1>6, <1>7, <1>8, <1>9, <1>10, <1>11, <1>12 DEF Parse

\* Where the loop goes from an instruction of any script.
Goes(q) == q \in pc + 1 .. Len(code) + 1

\* Neither the next instruction nor the one behind a jump is before the loop.
LEMMA GoesForward ==
  ASSUME ParseInv, TypeInv, NEW op, Executes(op)
  PROVE  /\ pc \in 1 .. Len(code) /\ Goes(pc + 1)
         /\ code[pc].skip # Nowhere => Goes(code[pc].skip + 1)
<1>1. /\ Len(code) \in Nat /\ Forward(code)
      /\ pc \in 1 .. Len(code) + 1 /\ pc <= Len(code)
  BY LenProperties DEF ParseInv, Struct, TypeInv, Executes
<1>2. pc \in 1 .. Len(code)
  BY <1>1
<1>3. code[pc].skip # Nowhere => code[pc].skip \in pc + 1 .. Len(code)
  BY <1>1, <1>2 DEF Forward
<1>4. QED
  BY <1>1, <1>2, <1>3 DEF Goes

\* The loop goes on, or ends where it is.
Moves ==
  \/ Goes(pc') /\ phase' = phase
  \/ pc' = pc /\ phase' \in Ends

\* The steps of ParserExecPcode.
LEMMA ExecTyped ==
  ASSUME PcodeInv, TypeInv, Exec
  PROVE  TypeInv' /\ (phase' = "exec" => Goes(pc'))
<1>1. Len(code) \in Nat /\ code \in Seq(Ins) /\ ParseInv
  BY LenProperties DEF PcodeInv, ParseInv
<1>2. ASSUME NEW op, Executes(op),
             Moves,
             \/ choice' = choice
             \/ choice' = choice \union {<<pc, "then">>}
             \/ choice' = choice \union {<<pc, "else">>},
             defined' \subseteq Vars, known' \subseteq Hashes,
             failed' \in BOOLEAN
      PROVE  TypeInv' /\ (phase' = "exec" => Goes(pc'))
  <2>1. /\ code' = code /\ dry' = dry /\ ran' = ran \union {pc}
        /\ phase = "exec"
    BY <1>2 DEF Executes, parseVars
  <2>2. pc \in 1 .. Len(code)
    BY <1>1, <1>2, GoesForward
  <2>3. pc' \in 1 .. Len(code) + 1
    BY <1>1, <1>2, <2>2 DEF Goes, Moves, TypeInv
  <2>6. phase' \in {"parse", "exec"} \union Ends
    BY <1>2 DEF Moves, TypeInv
  <2>7. phase' = "exec" => Goes(pc')
    BY <1>2 DEF Moves, Ends
  <2>4. choice' \subseteq (1 .. Len(code)) \X Branches
    BY <1>2, <2>2 DEF TypeInv, Branches
  <2>5. QED
    BY <1>2, <2>1, <2>2, <2>3, <2>4, <2>6, <2>7 DEF TypeInv
<1>3. ASSUME NEW op, Executes(op)
      PROVE  /\ pc \in 1 .. Len(code) /\ Goes(pc + 1) /\ This = code[pc]
             /\ This.skip # Nowhere => Goes(This.skip + 1)
  BY <1>1, <1>3, GoesForward DEF This
<1>4. defined \subseteq Vars /\ known \subseteq Hashes /\ failed \in BOOLEAN
      /\ dry \in BOOLEAN
  BY DEF TypeInv
<1>5. CASE Assign
  <2>1. Executes("assign") /\ pc \in 1 .. Len(code) /\ code[pc].op = "assign"
    BY <1>3, <1>5 DEF Assign, Executes, This
  <2>2. This.a \in Vars
    <3>1. code[pc] \in Ins
      BY <1>1, <2>1, ElementOfSeq
    <3>2. QED
      BY <2>1, <3>1 DEF Ins, This
  <2>3. /\ Entered(This.a) \subseteq Hashes
        /\ defined \union {This.a} \subseteq Vars
    BY <1>4, <2>2 DEF Entered, Hashes
  <2>4. Goes(pc') /\ phase' = phase /\ choice' = choice
    BY <1>3, <1>5, <2>1 DEF Assign, UndefVar, Goto
  <2>5. /\ defined' \subseteq Vars /\ known' \subseteq Hashes
        /\ failed' \in BOOLEAN
    BY <1>4, <1>5, <2>3 DEF Assign, UndefVar
  <2>6. QED
    BY <1>2, <2>1, <2>4, <2>5 DEF Moves
<1>6. ASSUME NEW op, Executes(op), Skips, UNCHANGED <<defined, known>>
      PROVE  TypeInv' /\ (phase' = "exec" => Goes(pc'))
  <2>1. Moves
    BY <1>3, <1>6 DEF Moves, Skips, Goto, AfterJump, Ends
  <2>3. choice' = choice \union {<<pc, "else">>} /\ failed' = failed
    BY <1>6 DEF Skips, Chooses
  <2>2. QED
    BY <1>2, <1>4, <1>6, <2>1, <2>3
<1>7. CASE Test2
  <2>1. Executes("test2") /\ UNCHANGED <<defined, known>>
    BY <1>7 DEF Test2
  <2>2. CASE Skips
    BY <1>6, <2>1, <2>2
  <2>3. CASE ~Skips
    <3>1. /\ Goes(pc') /\ phase' = phase
          /\ choice' \in {choice, choice \union {<<pc, "then">>}}
      BY <1>3, <1>7, <2>1, <2>3 DEF Test2, UndefVar, Goto, Chooses
    <3>2. failed' \in BOOLEAN
      BY <1>4, <1>7, <2>3 DEF Test2, UndefVar
    <3>3. QED
      BY <1>2, <1>4, <2>1, <3>1, <3>2 DEF Moves
  <2>4. QED
    BY <2>2, <2>3
<1>8. CASE Exists
  <2>1. Executes("exists") /\ UNCHANGED <<defined, known>>
    BY <1>8 DEF Exists
  <2>2. CASE Skips
    BY <1>6, <2>1, <2>2
  <2>3. CASE ~Skips
    <3>1. /\ Goes(pc') /\ phase' = phase /\ failed' = failed
          /\ choice' = choice \union {<<pc, "then">>}
      BY <1>3, <1>8, <2>1, <2>3 DEF Exists, Goto, Chooses
    <3>2. QED
      BY <1>2, <1>4, <2>1, <3>1 DEF Moves
  <2>4. QED
    BY <2>2, <2>3
<1>9. CASE Block
  <2>1. PICK op \in Blocks : Executes(op)
    BY <1>9 DEF Block, Blocks
  <2>2. Goes(pc') /\ phase' = phase
    BY <1>3, <1>9, <2>1 DEF Block, Goto, AfterJump
  <2>3. UNCHANGED <<defined, known, failed, choice>>
    BY <1>9 DEF Block
  <2>4. QED
    BY <1>2, <1>4, <2>1, <2>2, <2>3 DEF Moves
<1>10. CASE XplCmd
  <2>1. Executes("xplcmd") /\ known' = known /\ choice' = choice
    BY <1>10 DEF XplCmd
  <2>2. Moves
    BY <1>3, <1>10, <2>1 DEF XplCmd, Moves, Goto, Ends
  <2>3. defined' \subseteq Vars /\ failed' \in BOOLEAN
    BY <1>4, <1>10 DEF XplCmd, Sent
  <2>4. QED
    BY <1>2, <1>4, <2>1, <2>2, <2>3 DEF Moves
<1>11. CASE Spawn
  <2>1. Executes("spawn") /\ UNCHANGED <<defined, known, choice>>
    BY <1>11 DEF Spawn
  <2>2. Goes(pc') /\ phase' = phase /\ failed' \in BOOLEAN
    BY <1>3, <1>11, <2>1 DEF Spawn, Goto
  <2>3. QED
    BY <1>2, <1>4, <2>1, <2>2 DEF Moves
<1>12. CASE Finish
  BY <1>12 DEF Finish, TypeInv, parseVars, execVars, Ends
<1>13. QED
  BY <1>5, <1>7, <1>8, <1>9, <1>10, <1>11, <1>12 DEF Exec

\* No step leaves the types.
LEMMA TypeInvNext ==
  ASSUME PcodeInv, TypeInv, [Next]_vars
  PROVE  TypeInv'
<1>1. CASE UNCHANGED vars
  BY <1>1 DEF vars, parseVars, execVars, TypeInv
<1>2. QED
  BY <1>1, ParseTyped, ExecTyped DEF Next

----------------------------------------------------------------------------
(* The theorems.                                                           *)

\* Nothing has been read, and nothing executed.
LEMMA PcodeInvInit ==
  Init => PcodeInv
<1> SUFFICES ASSUME Init PROVE PcodeInv
  OBVIOUS
<1>1. phase = "parse" /\ pc = 1 /\ choice = {} /\ ran = {}
  BY DEF Init
<1>2. QED
  BY <1>1, ParseInvInit DEF PcodeInv, StartInv, ExecInv, EndInv, JumpsFound

\* The steps of the parser, and the step to the loop.
LEMMA ParseKeeps ==
  ASSUME PcodeInv, ParseInv', Parse
  PROVE  PcodeInv'
<1>1. ASSUME phase = "parse", phase' \in {"parse", "rejected", "nocode"},
             UNCHANGED execVars
      PROVE  PcodeInv'
  BY <1>1 DEF PcodeInv, StartInv, ExecInv, EndInv, JumpsFound, execVars
<1>2. CASE \E s \in Statements : Statement(s)
  BY <1>1, <1>2 DEF Statement
<1>3. CASE \E t \in Tests : If(t)
  BY <1>1, <1>3 DEF If
<1>4. CASE OpenBlock
  BY <1>1, <1>4 DEF OpenBlock
<1>5. CASE Else
  BY <1>1, <1>5 DEF Else, MayClose
<1>6. CASE EndIf
  <2>1. phase' = phase
    BY <1>6, EndIfStep DEF PcodeInv
  <2>2. QED
    BY <1>1, <1>6, <2>1 DEF EndIf, MayClose
<1>7. CASE EndElse
  <2>1. phase' = phase
    BY <1>7, EndElseStep DEF PcodeInv
  <2>2. QED
    BY <1>1, <1>7, <2>1 DEF EndElse, MayClose
<1>8. CASE SyntaxError
  BY <1>1, <1>8 DEF SyntaxError, Reject
<1>9. CASE EndOfText
  <2>1. phase = "parse" /\ UNCHANGED <<dry, execVars>>
    BY <1>9 DEF EndOfText
  <2>2. CASE phase' \in {"rejected", "nocode"}
    BY <1>1, <2>1, <2>2
  <2>3. CASE phase' \notin {"rejected", "nocode"}
    <3>1. /\ phase' = "exec" /\ UNCHANGED parseVars /\ code # <<>>
          /\ dry => Complete
      BY <1>9, <2>3 DEF EndOfText, Reject
    <3>2. /\ pc' = 1 /\ choice' = {} /\ ran' = {} /\ code' = code
          /\ open' = open /\ dry' = dry
      BY <2>1, <3>1 DEF PcodeInv, StartInv, execVars, parseVars
    <3>3. ASSUME Complete PROVE RunInv'
      <4>1. code \in Seq(Ins) /\ Closed(code) /\ Len(code) \in Nat
        BY <3>3, CompleteIsClosed, LenProperties
           DEF PcodeInv, ParseInv, Complete
      <4>2. 1 .. 0 = {} /\ 1 - 1 = 0 /\ {} \ {1} = {}
        OBVIOUS
      <4>3. RunAt(code, {}, {}, 1)
        BY <4>1, <4>2 DEF RunAt
      <4>4. LiveAt(code, {}, 1)
        <5>1. SUFFICES ASSUME 1 <= Len(code)
                       PROVE  Real(code[1].path) \subseteq {}
                              /\ code[1].op # "begin"
          BY DEF LiveAt
        <5>2. 1 \in 1 .. Len(code)
          BY <4>1, <5>1
        <5>3. code[1].path \subseteq (1 .. 1 - 1) \X Parts
          BY <4>1, <5>2 DEF Closed, Paths
        <5>4. code[1].path = {}
          BY <4>2, <5>3
        <5>5. code[1].op # "begin"
          BY <4>1, <5>2 DEF Closed, Flows
        <5>6. QED
          BY <5>4, <5>5 DEF Real
      <4>5. QED
        BY <3>1, <3>2, <4>2, <4>3, <4>4 DEF RunInv
    <3>4. QED
      BY <3>1, <3>2, <3>3
         DEF PcodeInv, StartInv, ExecInv, EndInv, JumpsFound, Complete
  <2>4. QED
    BY <2>2, <2>3
<1>10. QED
  BY <1>2, <1>3, <1>4, <1>5, <1>6, <1>7, <1>8, <1>9 DEF Parse

\* The steps of the loop.
LEMMA ExecKeeps ==
  ASSUME PcodeInv, ParseInv', Exec
  PROVE  PcodeInv'
<1>1. CASE Assign
  <2>1. /\ Executes("assign") /\ Goto(pc + 1) /\ choice' = choice
        /\ code[pc].op = "assign"
    BY <1>1 DEF Assign, UndefVar, Executes, This
  <2>2. QED
    BY <2>1, NextOne DEF IsTest
<1>2. CASE Test2
  <2>1. Executes("test2") /\ code[pc].op = "test2" /\ IsTest(code[pc])
    BY <1>2 DEF Test2, Executes, This, IsTest
  <2>2. \/ Goto(pc + 1) /\ choice' = choice \union {<<pc, "then">>}
        \/ Goto(pc + 1) /\ choice' = choice /\ failed'
        \/ Skips
    BY <1>2 DEF Test2, UndefVar, Chooses
  <2>3. QED
    BY <2>1, <2>2, NextOne, SkipStep
<1>3. CASE Exists
  <2>1. Executes("exists") /\ code[pc].op = "exists" /\ IsTest(code[pc])
    BY <1>3 DEF Exists, Executes, This, IsTest
  <2>2. \/ Goto(pc + 1) /\ choice' = choice \union {<<pc, "then">>}
        \/ Skips
    BY <1>3 DEF Exists, Chooses
  <2>3. QED
    BY <2>1, <2>2, NextOne, SkipStep
<1>4. CASE Block
  <2>1. PICK op \in Blocks : Executes(op)
    BY <1>4 DEF Block, Blocks
  <2>2. /\ code[pc].op = op /\ choice' = choice /\ ~IsTest(code[pc])
        /\ Goto(IF code[pc].op = "end" /\ code[pc].skip # Nowhere
                THEN code[pc].skip + 1 ELSE pc + 1)
    BY <1>4, <2>1 DEF Block, Executes, This, IsTest, AfterJump, Blocks
  <2>3. CASE code[pc].op = "end" /\ code[pc].skip # Nowhere
    BY <2>1, <2>2, <2>3, JumpStep
  <2>4. CASE ~(code[pc].op = "end" /\ code[pc].skip # Nowhere)
    BY <2>1, <2>2, <2>4, NextOne
  <2>5. QED
    BY <2>3, <2>4
<1>5. CASE XplCmd
  <2>1. /\ Executes("xplcmd") /\ choice' = choice /\ code[pc].op = "xplcmd"
        /\ Goto(pc + 1) \/ (phase' = "nohash" /\ pc' = pc)
    BY <1>5 DEF XplCmd, Executes, This
  <2>2. QED
    BY <2>1, NextOne, NoHashStep DEF IsTest
<1>6. CASE Spawn
  <2>1. /\ Executes("spawn") /\ Goto(pc + 1) /\ choice' = choice
        /\ code[pc].op = "spawn"
    BY <1>6 DEF Spawn, Executes, This
  <2>2. QED
    BY <2>1, NextOne DEF IsTest
<1>7. CASE Finish
  <2>1. /\ phase = "exec" /\ (failed \/ pc > Len(code)) /\ phase' = "finished"
        /\ dry' = dry /\ code' = code /\ open' = open /\ pc' = pc
        /\ failed' = failed /\ choice' = choice /\ ran' = ran
    BY <1>7 DEF Finish, parseVars, execVars
  <2>2. ASSUME Complete PROVE RunInv'
    BY <2>1, <2>2 DEF PcodeInv, ExecInv, RunInv
  <2>3. QED
    BY <2>1, <2>2
       DEF PcodeInv, StartInv, ExecInv, EndInv, JumpsFound, Complete
<1>8. QED
  BY <1>1, <1>2, <1>3, <1>4, <1>5, <1>6, <1>7 DEF Exec

\* PcodeInv is inductive.
LEMMA PcodeInvNext ==
  PcodeInv /\ [Next]_vars => PcodeInv'
<1> SUFFICES ASSUME PcodeInv, [Next]_vars PROVE PcodeInv'
  OBVIOUS
<1>1. ParseInv'
  BY ParseInvNext DEF PcodeInv
<1>2. CASE UNCHANGED vars
  BY <1>2 DEF vars, parseVars, execVars, PcodeInv, ParseInv, StartInv,
              ExecInv, RunInv, EndInv, JumpsFound, Complete
<1>3. QED
  BY <1>1, <1>2, ParseKeeps, ExecKeeps DEF Next

\* So it holds of every script, at every step of its parser and its loop.
LEMMA PcodeInvHolds ==
  SafeSpec => []PcodeInv
<1>1. QED
  BY PcodeInvInit, PcodeInvNext, PTL DEF SafeSpec

\* So do the types.
LEMMA TypeInvHolds ==
  SafeSpec => []TypeInv
<1>1. PcodeInv /\ TypeInv /\ [Next]_vars => TypeInv'
  BY TypeInvNext
<1>2. QED
  BY <1>1, TypeInvInit, PcodeInvHolds, PTL DEF SafeSpec

(***************************************************************************)
(* Scripts stay in their types: ParserExecPcode never leaves the code, not *)
(* in a script that was not read to its end either.                        *)
(***************************************************************************)
THEOREM TypeCorrect ==
  SafeSpec => []TypeOK
<1>1. ASSUME PcodeInv, TypeInv PROVE TypeOK
  <2>1. /\ code \in Seq(Ins) /\ open \in Seq(Ifs) /\ refs = Len(open)
        /\ Len(code) \in Nat /\ Paths(code) /\ OpenIfs(code, open)
        /\ MaxCode \in Nat /\ Len(code) <= MaxCode
    BY <1>1, LenProperties, PcodeAssumption
       DEF PcodeInv, ParseInv, Struct, TypeInv, PcodeAssumption
  <2>2. code \in Seq(Instructions)
    <3>1. ASSUME NEW i \in 1 .. Len(code) PROVE code[i] \in Instructions
      <4>1. code[i] \in Ins
        BY <2>1, ElementOfSeq
      <4>2. (1 .. i - 1) \X Parts
              \subseteq (1 .. MaxCode) \X {"test", "then", "keyword", "else"}
        BY <2>1 DEF Parts, Branches
      <4>3. code[i].path
              \subseteq (1 .. MaxCode) \X {"test", "then", "keyword", "else"}
        BY <2>1, <4>2 DEF Paths
      <4>4. QED
        BY <4>1, <4>3 DEF Ins, Instructions, Ops, Blocks
    <3>2. QED
      BY <2>1, <3>1, SeqDef
  <2>3. open \in Seq([id : 1 .. MaxCode,
                      part : {"test", "then", "keyword", "else"}])
    <3> DEFINE R == [id : 1 .. MaxCode,
                     part : {"test", "then", "keyword", "else"}]
    <3>1. ASSUME NEW n \in 1 .. Len(open) PROVE open[n] \in R
      <4>1. open[n] \in Ifs
        BY <2>1, ElementOfSeq
      <4>2. open[n].id \in 1 .. Len(code)
        BY <2>1 DEF OpenIfs, Opened, Begun
      <4>3. open[n].id \in 1 .. MaxCode
        BY <2>1, <4>2
      <4>4. QED
        BY <4>1, <4>3 DEF Ifs, Parts, Branches
    <3> HIDE DEF R
    <3>2. open \in Seq(R)
      BY <2>1, <3>1, SeqDef
    <3>3. QED
      BY <3>2 DEF R
  <2>4. choice \subseteq (1 .. MaxCode) \X {"then", "else"}
    BY <1>1, <2>1 DEF TypeInv, Branches
  <2>5. QED
    BY <1>1, <2>1, <2>2, <2>3, <2>4 DEF TypeOK, TypeInv
<1>2. QED
  BY <1>1, PcodeInvHolds, TypeInvHolds, PTL

(***************************************************************************)
(* The loop of ParserExecPcode only goes forward, whatever jumps there are *)
(* and wherever the text ended: it executes no instruction twice.          *)
(***************************************************************************)
THEOREM JumpsGoForward ==
  SafeSpec => [][phase = "exec" /\ phase' = "exec" =>
                   pc' \in pc + 1 .. Len(code) + 1]_vars
<1>1. ASSUME PcodeInv, TypeInv, Next, phase = "exec", phase' = "exec"
      PROVE  pc' \in pc + 1 .. Len(code) + 1
  <2>1. Exec
    BY <1>1 DEF Next, Parse, Statement, If, OpenBlock, Else, EndIf, EndElse,
                MayClose, SyntaxError, EndOfText
  <2>2. Goes(pc')
    BY <1>1, <2>1, ExecTyped
  <2>3. QED
    BY <2>2 DEF Goes
<1>2. QED
  BY <1>1, PcodeInvHolds, TypeInvHolds, PTL DEF SafeSpec

(***************************************************************************)
(* Each search of ParserSetJumps finds the instructions that it looks for, *)
(* and its assertions hold; ParserExecPcode meets no test without a jump   *)
(* in a script that was read to its end, nor in the syntax check.          *)
(***************************************************************************)
THEOREM SearchesFindJumps ==
  SafeSpec => []JumpsFound
<1>1. PcodeInv => JumpsFound
  BY DEF PcodeInv, EndInv
<1>2. QED
  BY <1>1, PcodeInvHolds, PTL

(***************************************************************************)
(* ParserExecPcode executes a statement or test of a complete script if    *)
(* and only if each if around it has chosen the branch that it is in.      *)
(***************************************************************************)
THEOREM ScriptsMeanTheirText ==
  SafeSpec => []ExecutedRight
<1>1. ASSUME PcodeInv PROVE ExecutedRight
  <2>1. SUFFICES ASSUME RunInv, phase \in {"exec", "finished", "nohash"},
                        NEW i \in 1 .. Len(code), code[i].op \notin Blocks
                 PROVE  /\ i \in ran => code[i].path \subseteq choice
                        /\ Passed(i) /\ code[i].path \subseteq choice =>
                             i \in ran
    BY <1>1 DEF ExecutedRight, PcodeInv, ExecInv, Blocks
  <2>2. Len(code) \in Nat /\ pc \in 1 .. Len(code) + 1
    BY <1>1, <2>1, LenProperties DEF PcodeInv, ParseInv, RunInv, RunAt
  <2>3. i \in 1 .. pc - 1 =>
          (i \in ran \ {pc} <=> code[i].path \subseteq choice)
    BY <2>1 DEF RunInv, RunAt
  <2>4. ran \ {pc} \subseteq 1 .. pc - 1
    BY <2>1 DEF RunInv, RunAt
  <2>5. ASSUME i \in ran PROVE code[i].path \subseteq choice
    <3>1. CASE i = pc
      BY <2>1, <2>5, <3>1 DEF RunInv
    <3>2. CASE i # pc
      BY <2>3, <2>4, <2>5, <3>2
    <3>3. QED
      BY <3>1, <3>2
  <2>6. ASSUME Passed(i), code[i].path \subseteq choice PROVE i \in ran
    <3>1. i < pc
      BY <2>1, <2>2, <2>6 DEF Passed, RunInv
    <3>2. QED
      BY <2>2, <2>3, <2>6, <3>1
  <2>7. QED
    BY <2>5, <2>6
<1>2. QED
  BY <1>1, PcodeInvHolds, PTL
============================================================================

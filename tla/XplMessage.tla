----------------------------- MODULE XplMessage -----------------------------
(***************************************************************************)
(* The text of xPL messages: a script fills a hash and sends it with       *)
(* xplcmd (sendXPLCommand in parser.c, formatMessage in xplcore.c), and    *)
(* the receiver turns the text of a datagram back into a message           *)
(* (parseMessage in xplcore.c).                                            *)
(*                                                                         *)
(* A text is a sequence of characters; the fixed words of the protocol     *)
(* are one character each.  What matters is where parseBlock, which reads  *)
(* a character at a time, ends a name, a value or a block, which           *)
(* characters it keeps, and what does not fit into its buffers.            *)
(*                                                                         *)
(* Names that begin with Msg leave the plain ones to XplService, the other *)
(* part of xplcore.c that XplCoreProofs has theorems about.                *)
(***************************************************************************)
EXTENDS Naturals, Sequences, SequencesExt

CONSTANTS
  Plain,      \* the characters 32 to 122, without the blank
  Braces,     \* the characters 123 to 127: parseBlock knows the braces
  Control,    \* characters below 32 other than the line feed
  Source,     \* the daemon's source tag
  Tags,       \* the targets in scripts
  Schema,     \* class and type in scripts
  Keys,       \* the keys of the hash
  Values,     \* and its values
  Foreign,    \* texts that other nodes send, and
  Formatted,  \* messages that they send
  HeaderSize, \* size of parseBlock's buffer for the header (64)
  WordSize,   \* size of its buffers for a name and a value (32)
  PartMax,    \* longest part of a tag in a script
  MaxSize,    \* size of the transmit buffer (1500)
  RxSize,     \* size of the receive buffer (1501)
  MaxSteps,   \* bound on the assignments and commands of a script
  Absent      \* no hash, no message

LF == "LF"
Blank == "blank"
Pipe == "|"
Chars == Plain \union Braces \union Control \union {LF, Blank}

Text == Seq(Chars)
Types == {"xpl-cmnd", "xpl-stat", "xpl-trig"}
XplMessages ==
  [type : Types, source : Text, target : Text, schema : Text,
   pairs : Seq(Text \X Text)]
Datagrams == [text : Text, of : XplMessages \union {Absent}]
Hashes == Seq(Keys \X Values)

ASSUME MessageAssumption ==
  /\ Types \union {"=", "-", ".", "*", "1", "hop", "source", "target"}
       \subseteq Plain
  /\ {"{", "}", Pipe} \subseteq Braces
  /\ Plain \intersect Braces = {}
  /\ (Plain \union Braces) \intersect (Control \union {LF, Blank}) = {}
  /\ Control \intersect {LF, Blank} = {}
  /\ Source \in Text /\ Tags \subseteq Text /\ Schema \in Text
  /\ Keys \subseteq Text /\ Values \subseteq Text
  /\ Foreign \subseteq Text /\ Formatted \subseteq XplMessages
  /\ Absent \notin Text /\ Absent \notin Hashes
  /\ Absent \notin XplMessages /\ Absent \notin Datagrams
  /\ HeaderSize \in Nat \ {0} /\ WordSize \in Nat \ {0} /\ PartMax \in Nat
  /\ MaxSize \in Nat /\ RxSize = MaxSize + 1 /\ MaxSteps \in Nat

VARIABLES
  hash,    \* %xplout: its pairs in order, or Absent
  wire,    \* the datagram on the net: its text and, as a history, the
           \* message that it stands for; or Absent
  got,     \* what the receiver made of the last datagram, or Absent
  script,  \* "runs", "failed" or, after a failed assertion, "aborted"
  steps,   \* assignments and commands so far
  since,   \* history: the value given to each key since the last command
  heard    \* history: the datagram that got was made from

msgVars == <<hash, wire, got, script, steps, since, heard>>

MsgInit ==
  /\ hash = Absent /\ wire = Absent /\ got = Absent
  /\ script = "runs" /\ steps = 0
  /\ since = [k \in Keys |-> Absent]
  /\ heard = Absent

----------------------------------------------------------------------------
(* The sender.                                                             *)

\* ParserHashAddKeyValue: replaces the pair with the key, or adds it last.
Assigned(h, k, v) ==
  IF h # Absent /\ \E i \in DOMAIN h : h[i][1] = k
  THEN [i \in DOMAIN h |-> IF h[i][1] = k THEN <<k, v>> ELSE h[i]]
  ELSE Append(IF h = Absent THEN <<>> ELSE h, <<k, v>>)

Assign(k, v) ==
  /\ script = "runs" /\ steps < MaxSteps
  /\ hash' = Assigned(hash, k, v)
  /\ since' = [since EXCEPT ![k] = v]
  /\ steps' = steps + 1
  /\ UNCHANGED <<wire, got, script, heard>>

\* The first place of character c in s from place i on, or 0.
At(s, c, i) ==
  IF \E j \in i .. Len(s) : s[j] = c
  THEN CHOOSE j \in i .. Len(s) : s[j] = c /\ \A k \in i .. j - 1 : s[k] # c
  ELSE 0

\* ParserSplitXPLTag: the counter of the second and third part starts at 1,
\* so that it is one more than the part is long.
SplitsTag(t) ==
  LET i == At(t, "-", 1)
      j == At(t, ".", i + 1)
  IN  /\ i # 0 /\ j # 0
      /\ i - 1 \in 1 .. PartMax
      /\ j - i \in 1 .. PartMax
      /\ Len(t) - j + 1 \in 1 .. PartMax

Pair(p) == p[1] \o <<"=">> \o p[2] \o <<LF>>

Block(name, pairs) ==
  name \o <<LF, "{", LF>>
  \o FlattenSeq([i \in DOMAIN pairs |-> Pair(pairs[i])]) \o <<"}", LF>>

HeaderPairs(m) ==
  <<<<<<"hop">>, <<"1">>>>, <<<<"source">>, m.source>>,
    <<<<"target">>, m.target>>>>

\* formatMessage.
Format(m) == Block(<<m.type>>, HeaderPairs(m)) \o Block(m.schema, m.pairs)

Datagram(m) == [text |-> Format(m), of |-> m]

\* appendText, which also writes the end of the string.
FitsBuffer(text) == Len(text) < MaxSize

\* A mutant of Emptied: the hash is kept for the next command.
Kept(h) == h

\* deleteHashContents.
Emptied(h) == <<>>

\* sendXPLCommand: a bad tag ends the script, and a hash that was never
\* assigned to fails an assertion.  A message that does not fit is not sent.
XplCmd(t) ==
  /\ script = "runs" /\ steps < MaxSteps
  /\ steps' = steps + 1
  /\ IF SplitsTag(t) /\ hash # Absent
     THEN LET m == [type |-> "xpl-cmnd", source |-> Source, target |-> t,
                    schema |-> Schema, pairs |-> hash]
          IN  /\ wire' = IF FitsBuffer(Format(m)) THEN Datagram(m) ELSE wire
              /\ hash' = Emptied(hash)
              /\ since' = [k \in Keys |-> Absent]
              /\ UNCHANGED script
     ELSE /\ script' = IF SplitsTag(t) THEN "aborted" ELSE "failed"
          /\ UNCHANGED <<hash, wire, since>>
  /\ UNCHANGED <<got, heard>>

NodeSends(d) ==
  /\ wire = Absent
  /\ wire' = d
  /\ UNCHANGED <<hash, got, script, steps, since, heard>>

----------------------------------------------------------------------------
(* The receiver.                                                           *)

\* The macro VALID_CHAR assigns where it means to compare: it holds for every
\* character, and turns those beyond 122 and below 32 into 124.
Stored(c) == IF c \in Plain \union {Blank} THEN c ELSE Pipe

Junk == Control \union {LF, Blank}

Collect(b, c, size) ==
  IF Len(b.word) < size - 1
  THEN [b EXCEPT !.word = Append(@, Stored(c))]
  ELSE [b EXCEPT !.state = "error"]

Expect(b, c, wanted, next) ==
  [b EXCEPT !.state = IF c = wanted THEN next ELSE "error", !.word = <<>>]

\* What is before the name of a block is skipped.
InHeader(b, c) ==
  IF b.word = <<>> /\ c \in Junk THEN b
  ELSE IF c = LF THEN [b EXCEPT !.header = b.word, !.state = "brace"]
  ELSE Collect(b, c, HeaderSize)

InName(b, c) ==
  IF c = "=" THEN [b EXCEPT !.name = b.word, !.word = <<>>, !.state = "value"]
  ELSE IF c = "}" THEN [b EXCEPT !.state = "end"]
  ELSE Collect(b, c, WordSize)

InValue(b, c) ==
  IF c = LF
  THEN [b EXCEPT !.pairs = Append(@, <<b.name, b.word>>), !.word = <<>>,
                 !.state = "name"]
  ELSE Collect(b, c, WordSize)

\* One turn of parseBlock's loop.
Turn(b, c) ==
  CASE b.state = "header" -> InHeader(b, c)
    [] b.state = "brace" -> Expect(b, c, "{", "open")
    [] b.state = "open" -> Expect(b, c, LF, "name")
    [] b.state = "name" -> InName(b, c)
    [] b.state = "value" -> InValue(b, c)
    [] b.state = "end" -> Expect(b, c, LF, "done")

\* It returns at the first error and at the end of the block.
Loop(b, c) ==
  IF b.state \in {"error", "done"} THEN b
  ELSE [Turn(b, c) EXCEPT !.pos = @ + 1]

\* The loop from b over a text.
Looped(b, text) ==
  LET after[n \in 0 .. Len(text)] ==
        IF n = 0 THEN b ELSE Loop(after[n - 1], text[n])
  IN  after[Len(text)]

Fresh == [state |-> "header", header |-> <<>>, name |-> <<>>, word |-> <<>>,
          pairs |-> <<>>, pos |-> 0]

ParseBlock(text) == Looped(Fresh, text)

Named(pairs, name) == \E i \in DOMAIN pairs : pairs[i][1] = <<name>>

\* getNamedValue.
ValueOf(pairs, name) ==
  pairs[CHOOSE i \in DOMAIN pairs :
          /\ pairs[i][1] = <<name>>
          /\ \A j \in 1 .. i - 1 : pairs[j][1] # <<name>>][2]

IsTag(v) == At(v, "-", 1) # 0 /\ At(v, ".", At(v, "-", 1) + 1) # 0

\* parseMessageHeader.
HeaderGood(pairs) ==
  /\ Named(pairs, "hop") /\ ValueOf(pairs, "hop") = <<"1">>
  /\ Named(pairs, "source") /\ IsTag(ValueOf(pairs, "source"))
  /\ Named(pairs, "target")
  /\ ValueOf(pairs, "target") = <<"*">> \/ IsTag(ValueOf(pairs, "target"))

\* A mutant of Complete: the text may end within the block.
CompleteOrCut(b) == b.state # "error"

\* The return value of parseBlock for the second block: no error, which it
\* also is if no block was begun.
Complete(b) == b.state = "done" \/ (b.state = "header" /\ b.word = <<>>)

\* parseMessage.  Without a second block its header is still the first one's.
ParseMessage(text) ==
  LET first  == ParseBlock(text)
      second == ParseBlock(SubSeq(text, first.pos + 1, Len(text)))
      schema == IF second.state = "header" THEN first.header ELSE second.header
  IN  IF /\ first.state = "done"
         /\ first.header \in {<<t>> : t \in Types}
         /\ HeaderGood(first.pairs)
         /\ Complete(second)
         /\ At(schema, ".", 1) # 0
      THEN [type |-> first.header[1], source |-> ValueOf(first.pairs, "source"),
            target |-> ValueOf(first.pairs, "target"), schema |-> schema,
            pairs |-> second.pairs]
      ELSE Absent

\* recvfrom reads what fits into the buffer, less the end of the string.
Read(text) ==
  SubSeq(text, 1, IF Len(text) < RxSize THEN Len(text) ELSE RxSize - 1)

\* rxIncomingAction; rxReadyAction parses the string.
Receive ==
  /\ wire # Absent
  /\ got' = ParseMessage(Read(wire.text))
  /\ heard' = wire
  /\ wire' = Absent
  /\ UNCHANGED <<hash, script, steps, since>>

\* UDP may lose a datagram.
Lose ==
  /\ wire # Absent
  /\ wire' = Absent
  /\ UNCHANGED <<hash, got, script, steps, since, heard>>

MsgNext ==
  \/ \E k \in Keys, v \in Values : Assign(k, v)
  \/ \E t \in Tags : XplCmd(t)
  \/ \E m \in Formatted : NodeSends(Datagram(m))
  \/ \E text \in Foreign : NodeSends([text |-> text, of |-> Absent])
  \/ Receive \/ Lose

MsgSpec == MsgInit /\ [][MsgNext]_msgVars

----------------------------------------------------------------------------
(* Properties.                                                             *)

Clean(text) == \A i \in DOMAIN text : text[i] \in Plain \union {Blank}

\* A message whose parts fit into the receiver's buffers.  A name ends at the
\* first equals sign (a value may have one), and blanks before a schema are
\* skipped.
Fits(m) ==
  /\ IsTag(m.source) /\ (IsTag(m.target) \/ m.target = <<"*">>)
  /\ \A t \in {m.source, m.target} : Len(t) < WordSize /\ Clean(t)
  /\ At(m.schema, ".", 1) # 0 /\ m.schema[1] # Blank
  /\ Len(m.schema) < HeaderSize /\ Clean(m.schema)
  /\ \A i \in DOMAIN m.pairs, part \in {1, 2} :
       Len(m.pairs[i][part]) < WordSize /\ Clean(m.pairs[i][part])
  /\ \A i \in DOMAIN m.pairs : At(m.pairs[i][1], "=", 1) = 0

\* The types of the state: what is on the net is any text, and what
\* parseMessage returns is a message or none.
MsgTypeOK ==
  /\ hash \in Hashes \union {Absent}
  /\ {wire, heard} \subseteq Datagrams \union {Absent}
  /\ got \in XplMessages \union {Absent}
  /\ script \in {"runs", "failed", "aborted"}
  /\ steps \in 0 .. MaxSteps
  /\ since \in [Keys -> Values \union {Absent}]

(***************************************************************************)
(* What is formatted is parsed to the same message - its type, tags,       *)
(* schema and every pair in order - if its parts fit into the receiver's   *)
(* buffers and end where it ends them; and a message that the receive      *)
(* buffer cuts off is never taken for a shorter one (formatMessage against *)
(* parseMessage).                                                          *)
(***************************************************************************)
ReadsBack ==
  heard # Absent /\ heard.of # Absent /\ Fits(heard.of)
    => got = IF Len(heard.text) < RxSize THEN heard.of ELSE Absent

(***************************************************************************)
(* A command carries the pairs that were assigned since the last command   *)
(* of the script, each key once and with its latest value: "Clear out the  *)
(* xplout hash" (parser.c:454).                                            *)
(***************************************************************************)
CommandPairs ==
  [][(\E t \in Tags : XplCmd(t)) /\ wire' # wire =>
       LET sent  == wire'.of.pairs
           given == {k \in Keys : since[k] # Absent}
       IN  /\ \A i, j \in DOMAIN sent : sent[i][1] = sent[j][1] => i = j
           /\ {sent[i] : i \in DOMAIN sent}
                = {<<k, since[k]>> : k \in given}]_msgVars

============================================================================

-------------------------------- MODULE Pcode --------------------------------
(***************************************************************************)
(* Scripts: the compilation to p-code (the actions of grammar.y with       *)
(* ParserPcodeEmit and ParserSetJumps), and its execution by the daemon or *)
(* by the syntax check of the utility (ParserExecPcode, parser.c).         *)
(*                                                                         *)
(* A script is one pass of text without loops.  The parser emits an        *)
(* instruction as soon as it has read its source, and installs the jumps   *)
(* of an if by a search backwards once it has read all of it.              *)
(*                                                                         *)
(* The source is chosen as it is read; a script may end anywhere.  The     *)
(* pushes of operands are part of the instruction that uses them, and of   *)
(* values the model keeps whether a variable has one.                      *)
(***************************************************************************)
EXTENDS Naturals, Sequences, FiniteSets

CONSTANTS
  Vars,        \* variables, each a key of a hash
  HashOf,      \* the hash of each variable
  NVState,     \* the hash that the daemon keeps in the database
  Given,       \* variables that may have a value before the script runs
  Lit,         \* any literal
  Statements,  \* the assignments and function calls of scripts
  Tests,       \* the tests of scripts
  MaxCode,     \* bound on the instructions of a script
  MaxPlain,    \* bound on the statements among them
  MaxUses      \* bound on the uses of each statement and test

Hashes == {HashOf[v] : v \in Vars}

Operands == Vars \union {Lit}

\* Of the arguments of a call the model keeps the hash that xplcmd sends.
ASSUME PcodeAssumption ==
  /\ Lit \notin Vars
  /\ Given \subseteq Vars
  /\ Statements \subseteq
       [op : {"assign"}, a : Vars, b : Operands]
         \union [op : {"xplcmd"}, a : Hashes, b : {Lit}]
         \union [op : {"spawn"}, a : {Lit}, b : {Lit}]
  /\ Tests \subseteq
       [op : {"test2"}, a : Operands, b : Operands]
         \union [op : {"exists"}, a : Vars, b : {Lit}]
  /\ MaxCode \in Nat /\ MaxPlain \in Nat
  /\ MaxUses \in [Statements \union Tests -> Nat]

VARIABLES
  dry,      \* the syntax check: no service and no database
  phase,    \* "parse", "exec", or how it ended
  code,     \* the instructions from ph->head to ph->tail
  refs,     \* ph->ctrlStructRefCount
  open,     \* the ifs that are being read, from the outermost
  pc,       \* the next instruction
  defined,  \* variables that have a value
  known,    \* hashes in the symbol table
  failed,   \* ph->failReason is set
  choice,   \* history: the branches that tests have chosen
  ran       \* history: the instructions executed

parseVars == <<code, refs, open>>
execVars  == <<pc, defined, known, failed, choice, ran>>
vars      == <<dry, phase, parseVars, execVars>>

Ends == {"rejected", "finished", "nocode", "nojump", "nohash", "lost"}

InDatabase(v) == ~dry /\ HashOf[v] = NVState

Init ==
  /\ dry \in BOOLEAN
  /\ phase = "parse"
  /\ code = <<>> /\ refs = 0 /\ open = <<>>
  /\ pc = 1
  /\ defined \in SUBSET (IF dry THEN {} ELSE Given)
  /\ known = {HashOf[v] : v \in {w \in defined : ~InDatabase(w)}}
  /\ failed = FALSE
  /\ choice = {}
  /\ ran = {}

----------------------------------------------------------------------------
(* Compilation.                                                            *)

Nowhere == 0

Here == Len(open)

\* The branches that the next instruction is in.
Path == {<<open[i].id, open[i].part>> : i \in 1 .. Len(open)}

\* ParserPcodeEmit; "path" is history.
Emitted(ins, n) ==
  Append(code, [op |-> ins.op, a |-> ins.a, b |-> ins.b, refs |-> n,
                skip |-> Nowhere, path |-> Path])

Begin == [op |-> "begin", a |-> Lit, b |-> Lit]
End   == [op |-> "end", a |-> Lit, b |-> Lit]

Room == Len(code) < MaxCode

\* The text goes on with a statement: at its top, or inside of a block.
InList == open # <<>> => open[Here].part \in {"then", "else"}

Part(p) == open' = [open EXCEPT ![Here].part = p]

Plain(ins) == ins.op \in {"assign", "xplcmd", "spawn"}

Uses(s) ==
  Cardinality({i \in 1 .. Len(code) :
                 code[i].op = s.op /\ code[i].a = s.a /\ code[i].b = s.b})

Statement(s) ==
  /\ phase = "parse" /\ InList /\ Room
  /\ Len(SelectSeq(code, Plain)) < MaxPlain /\ Uses(s) < MaxUses[s]
  /\ code' = Emitted(s, refs)
  /\ UNCHANGED <<dry, phase, refs, open, execVars>>

\* iftest: the count goes up at the keyword.
If(t) ==
  /\ phase = "parse" /\ InList /\ Room
  /\ Uses(t) < MaxUses[t]
  /\ refs' = refs + 1
  /\ code' = Emitted(t, refs + 1)
  /\ open' = Append(open, [id |-> Len(code) + 1, part |-> "test"])
  /\ UNCHANGED <<dry, phase, execVars>>

\* blockstart, of the first or of the second block.
OpenBlock ==
  /\ phase = "parse" /\ open # <<>> /\ Room
  /\ open[Here].part \in {"test", "keyword"}
  /\ code' = Emitted(Begin, refs)
  /\ Part(IF open[Here].part = "test" THEN "then" ELSE "else")
  /\ UNCHANGED <<dry, phase, refs, execVars>>

\* The closing brace can come: a block is not empty.
MayClose(part) ==
  /\ phase = "parse" /\ open # <<>> /\ Room
  /\ open[Here].part = part
  /\ code[Len(code)].op # "begin"

\* blockend, then the keyword else.
Else ==
  /\ MayClose("then")
  /\ code' = Emitted(End, refs)
  /\ Part("keyword")
  /\ UNCHANGED <<dry, phase, refs, execVars>>

\* The last element of a set of numbers.
Last(S) == CHOOSE i \in S : \A j \in S : j <= i

IsTest(ins) == ins.op \in {"test2", "exists"}

\* The ends of blocks before the tail with the reference count of the tail.
EndsBefore(c) ==
  {i \in 1 .. Len(c) - 1 : c[i].op = "end" /\ c[i].refs = c[Len(c)].refs}

\* A mutant of TestsUpTo: the reference counts are not compared.
AnyTestsUpTo(c, n) == {i \in 1 .. n : IsTest(c[i])}

TestsUpTo(c, n) == {i \in 1 .. n : IsTest(c[i]) /\ c[i].refs = c[Len(c)].refs}

\* The search comes upon an instruction from outside the if.
Strays(c, first) == \E i \in first .. Len(c) : c[i].refs < c[Len(c)].refs

\* ParserSetJumps(TOK_IF) for the block whose end is the tail.
IfJump(c) ==
  [c EXCEPT ![Last(TestsUpTo(c, Len(c)))].skip = Len(c)]

IfFound(c) ==
  TestsUpTo(c, Len(c)) # {} /\ ~Strays(c, Last(TestsUpTo(c, Len(c))))

\* A mutant of ElseJumps: the second jump is installed the wrong way round.
ElseJumpsBack(c) ==
  LET e == Last(EndsBefore(c))
  IN [c EXCEPT ![Len(c)].skip = e,
               ![Last(TestsUpTo(c, e))].skip = e + 1]

\* A mutant of ElseJumps: no jump over the second block.
ElseFallsIn(c) ==
  LET e == Last(EndsBefore(c))
  IN [c EXCEPT ![Last(TestsUpTo(c, e))].skip = e + 1]

\* ParserSetJumps(TOK_ELSE) for the second block: the end of the first jumps
\* to the tail, the test to the beginning of the second.
ElseJumps(c) ==
  LET e == Last(EndsBefore(c))
  IN [c EXCEPT ![e].skip = Len(c),
               ![Last(TestsUpTo(c, e))].skip = e + 1]

ElseFound(c) ==
  /\ EndsBefore(c) # {}
  /\ TestsUpTo(c, Last(EndsBefore(c))) # {}
  /\ ~Strays(c, Last(TestsUpTo(c, Last(EndsBefore(c)))))

Close == open' = SubSeq(open, 1, Here - 1) /\ refs' = refs - 1

\* ifconst: an if without else is complete when the next token is another.
EndIf ==
  /\ MayClose("then")
  /\ LET c == Emitted(End, refs)
     IN IF IfFound(c)
        THEN code' = IfJump(c) /\ UNCHANGED phase
        ELSE code' = c /\ phase' = "lost"
  /\ Close
  /\ UNCHANGED <<dry, execVars>>

\* ifelseconst.
EndElse ==
  /\ MayClose("else")
  /\ LET c == Emitted(End, refs)
     IN IF ElseFound(c)
        THEN code' = ElseJumps(c) /\ UNCHANGED phase
        ELSE code' = c /\ phase' = "lost"
  /\ Close
  /\ UNCHANGED <<dry, execVars>>

\* What was compiled is freed when the script is rejected.
Reject == phase' = "rejected" /\ code' = <<>> /\ refs' = 0 /\ open' = <<>>

\* A syntax error before the end of the text: ParserParseHCL fails.
SyntaxError ==
  /\ phase = "parse"
  /\ Reject
  /\ UNCHANGED <<dry, execVars>>

Complete == open = <<>>

\* The end of the text.  An error that shows only here does not keep the
\* daemon from going on; the syntax check looks at failReason.
EndOfText ==
  /\ phase = "parse"
  /\ IF dry /\ (~Complete \/ code = <<>>)
     THEN Reject
     ELSE /\ phase' = IF code = <<>> THEN "nocode" ELSE "exec"
          /\ UNCHANGED parseVars
  /\ UNCHANGED <<dry, execVars>>

----------------------------------------------------------------------------
(* Execution.                                                              *)

This == code[pc]

\* ParserHashGetValue: a value (TRUE) or none.  A value in the database may
\* be out of reach.
Lookup(v) == {v \in defined} \union (IF InDatabase(v) THEN {FALSE} ELSE {})

\* ParserPcodeGetValue.
Read(x) == IF x = Lit THEN {TRUE} ELSE Lookup(x)

\* A value given to a variable in memory enters its hash in the symbol table.
Entered(v) == IF InDatabase(v) THEN known ELSE known \union {HashOf[v]}

\* ParserExecPcode is at an instruction of the given kind.
Executes(op) ==
  /\ phase = "exec" /\ ~failed /\ pc <= Len(code)
  /\ This.op = op
  /\ ran' = ran \union {pc}
  /\ UNCHANGED <<dry, parseVars>>

Goto(i) == pc' = i /\ UNCHANGED phase

\* The loop steps on from the instruction that was jumped to.
AfterJump(i) == i + 1

\* A variable without a value ends the script, but not the syntax check.
UndefVar ==
  /\ failed' = ~dry
  /\ Goto(pc + 1)

\* OP_ASSIGN.
Assign ==
  /\ Executes("assign")
  /\ \/ /\ FALSE \in Read(This.b)
        /\ UndefVar
        /\ UNCHANGED <<defined, known>>
     \/ /\ TRUE \in Read(This.b)
        /\ defined' = defined \union {This.a}
        /\ known' = Entered(This.a)
        /\ Goto(pc + 1)
        /\ UNCHANGED failed
     \/ /\ TRUE \in Read(This.b) /\ InDatabase(This.a)
        /\ UndefVar
        /\ UNCHANGED <<defined, known>>
  /\ UNCHANGED choice

Chooses(part) == choice' = choice \union {<<pc, part>>}

\* A test that is not met jumps; without a jump an assertion fails.
Skips ==
  /\ Chooses("else")
  /\ UNCHANGED failed
  /\ IF This.skip = Nowhere
     THEN phase' = "nojump" /\ UNCHANGED pc
     ELSE Goto(AfterJump(This.skip))

\* OP_TEST2.  In the syntax check a test without values lets the block run.
Test2 ==
  /\ Executes("test2")
  /\ UNCHANGED <<defined, known>>
  /\ \/ /\ FALSE \in Read(This.a) \union Read(This.b)
        /\ UndefVar
        /\ Chooses("then")
     \/ /\ TRUE \in Read(This.a)
        /\ failed' = TRUE
        /\ Goto(pc + 1)
        /\ UNCHANGED choice
     \/ /\ TRUE \in Read(This.a) /\ TRUE \in Read(This.b)
        /\ \/ Chooses("then") /\ Goto(pc + 1) /\ UNCHANGED failed
           \/ Skips

\* OP_EXISTS.
Exists ==
  /\ Executes("exists")
  /\ UNCHANGED <<defined, known>>
  /\ \/ TRUE \in Read(This.a) /\ Chooses("then") /\ Goto(pc + 1) /\ UNCHANGED failed
     \/ FALSE \in Read(This.a) /\ Skips

\* OP_BLOCK.
Block ==
  /\ Executes("begin") \/ Executes("end")
  /\ Goto(IF This.op = "end" /\ This.skip # Nowhere THEN AfterJump(This.skip)
                                                    ELSE pc + 1)
  /\ UNCHANGED <<defined, known, failed, choice>>

\* A hash is empty once it was sent, in the syntax check too.
Sent(h) == {v \in defined : HashOf[v] # h \/ InDatabase(v)}

\* sendXPLCommand.  Its arguments may be wrong; the hash has to be in the
\* symbol table.
XplCmd ==
  /\ Executes("xplcmd")
  /\ \/ failed' = TRUE /\ Goto(pc + 1) /\ UNCHANGED defined
     \/ /\ This.a \in known
        /\ defined' = Sent(This.a)
        /\ Goto(pc + 1)
        /\ UNCHANGED failed
     \/ /\ This.a \notin known
        /\ phase' = "nohash"
        /\ UNCHANGED <<pc, failed, defined>>
  /\ UNCHANGED <<known, choice>>

\* spawn, which may fail; the syntax check spawns too.
Spawn ==
  /\ Executes("spawn")
  /\ failed' \in BOOLEAN
  /\ Goto(pc + 1)
  /\ UNCHANGED <<defined, known, choice>>

Finish ==
  /\ phase = "exec" /\ (failed \/ pc > Len(code))
  /\ phase' = "finished"
  /\ UNCHANGED <<dry, parseVars, execVars>>

Parse ==
  \/ \E s \in Statements : Statement(s)
  \/ \E t \in Tests : If(t)
  \/ OpenBlock \/ Else \/ EndIf \/ EndElse
  \/ SyntaxError \/ EndOfText

Exec == Assign \/ Test2 \/ Exists \/ Block \/ XplCmd \/ Spawn \/ Finish

Next == Parse \/ Exec

SafeSpec == Init /\ [][Next]_vars

\* Texts end, and the loop goes on.
Spec == SafeSpec /\ WF_vars(Next)

----------------------------------------------------------------------------
(* Properties.                                                             *)

Instructions ==
  [op : {"assign", "xplcmd", "spawn", "test2", "exists", "begin", "end"},
   a : Operands \union Hashes, b : Operands,
   refs : Nat, skip : Nat,
   path : SUBSET ((1 .. MaxCode) \X {"test", "then", "keyword", "else"})]

TypeOK ==
  /\ dry \in BOOLEAN
  /\ phase \in {"parse", "exec"} \union Ends
  /\ code \in Seq(Instructions)
  /\ refs = Len(open)
  /\ open \in Seq([id : 1 .. MaxCode, part : {"test", "then", "keyword", "else"}])
  /\ pc \in 1 .. Len(code) + 1
  /\ defined \subseteq Vars /\ known \subseteq Hashes
  /\ failed \in BOOLEAN
  /\ choice \subseteq (1 .. MaxCode) \X {"then", "else"}
  /\ ran \subseteq 1 .. Len(code)

(***************************************************************************)
(* The meaning of a script, however its ifs are nested and follow each     *)
(* other: a statement or test is executed if and only if each if that it   *)
(* is in has chosen the branch that it is in.  What the parser installs by *)
(* searching backwards, and what the loop makes of it, is the structure of *)
(* the text.                                                               *)
(***************************************************************************)
Passed(i) == i < pc \/ (phase = "finished" /\ ~failed)

ExecutedRight ==
  phase \in {"exec", "finished", "nohash"} /\ Complete =>
    \A i \in {j \in 1 .. Len(code) : code[j].op \notin {"begin", "end"}} :
      /\ i \in ran => code[i].path \subseteq choice
      /\ Passed(i) /\ code[i].path \subseteq choice => i \in ran

(***************************************************************************)
(* The assertions of ParserSetJumps hold, and a script that was read to    *)
(* its end has the jumps that its tests need (parser.c:1225), as has       *)
(* whatever the syntax check executes.                                     *)
(***************************************************************************)
JumpsFound ==
  /\ phase # "lost"
  /\ phase = "nojump" => ~Complete /\ ~dry

(***************************************************************************)
(* Each script ends: no jump goes backwards.                               *)
(***************************************************************************)
ScriptEnds == (phase = "exec") ~> (phase \in Ends)

============================================================================

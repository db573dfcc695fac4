---------------------------- MODULE MCXplMessage ----------------------------
(***************************************************************************)
(* TLC instance of XplMessage: buffers of 7 bytes for a name and a value   *)
(* and of 5 for the header, and values at, below and beyond what fits,     *)
(* with an equals sign, a brace, a blank, and none at all.                 *)
(***************************************************************************)
EXTENDS XplMessage

CONSTANTS a, b, tab

MCPlain == {a, b, "=", "-", ".", "*", "1", "0", "hop", "source", "target",
            "xpl-cmnd", "xpl-stat", "xpl-trig"}

Tag(v, d, i) == v \o <<"-">> \o d \o <<".">> \o i

MCSource == Tag(<<a>>, <<b>>, <<a, b>>)
MCTags   == {Tag(<<b>>, <<a>>, <<b>>), Tag(<<b>>, <<>>, <<a>>),
             Tag(<<b, b, b, b>>, <<a>>, <<b>>), <<a>>}
MCSchema == <<a, ".", b>>

MCKeys   == {<<a>>, <<b, "1">>}
MCValues == {<<>>, <<a, "=", Blank, b>>, <<a, a, a, a, a, a>>,
             <<a, a, a, a, a, a, b>>, <<"}">>}

From(type, target, schema, pairs) ==
  [type |-> type, source |-> Tag(<<b>>, <<b>>, <<a>>), target |-> target,
   schema |-> schema, pairs |-> pairs]

Long == <<a, a, a, a, a, a>>

\* The last five are around the size of the receive buffer.
MCFormatted ==
  {From("xpl-trig", <<"*">>, <<a, ".", b>>, <<>>),
   From("xpl-trig", <<"*">>, <<a, ".", b>>, <<<<<<a>>, <<b>>>>, <<<<a>>, <<>>>>>>),
   From("xpl-stat", <<"*">>, <<a, b>>, <<<<<<a>>, <<b>>>>>>),
   From("xpl-stat", <<"*">>, <<a, b, ".", a, b>>, <<>>),
   From("xpl-stat", <<"*">>, <<Blank, a, ".", b>>, <<>>),
   From("xpl-stat", <<"*">>, <<a, ".", b>>, <<<<<<a, "=">>, <<b>>>>>>),
   From("xpl-trig", <<a>>, <<a, ".", b>>, <<>>),
   From("xpl-trig", Tag(<<a>>, <<a>>, <<a, b, a, b>>), <<a, ".", b>>, <<>>)}
  \union
  {From("xpl-trig", <<"*">>, <<a, ".", b>>,
        [i \in 1 .. 2 |-> <<Long, IF i = 1 THEN <<>> ELSE x>>]) :
     x \in {<<>>, <<a>>, <<a, a>>, <<a, a, a>>, <<a, a, a, a, a>>}}

Head1(hop) == <<"xpl-trig", LF, "{", LF, "hop", "=", hop, LF, "source", "=">>
              \o MCSource \o <<LF, "target", "=", "*", LF, "}", LF>>
Body1(value) == <<a, ".", b, LF, "{", LF, a, "=">> \o value \o <<LF, "}", LF>>

MCForeign ==
  {Head1("1") \o Body1(<<tab>>), Head1("0") \o Body1(<<a>>), Head1("1"),
   <<Blank>> \o Head1("1") \o <<tab, LF>> \o Body1(<<a>>),
   Head1("1") \o SubSeq(Body1(<<a>>), 1, 9), <<tab>>, Body1(<<a>>),
   Head1("1") \o Body1(<<a>>) \o Head1("1")}

============================================================================

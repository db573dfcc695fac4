-------------------------- MODULE MCCommandSocket ---------------------------
(***************************************************************************)
(* TLC instance of CommandSocket: octets of two bits, addresses of two and *)
(* of three octets, files around the cases of the reader, and lines around *)
(* the size of a buffer of three bytes.                                    *)
(***************************************************************************)
EXTENDS CommandSocket

V4(ones) == [family |-> "v4", ones |-> ones]
V6(ones) == [family |-> "v6", ones |-> ones]

MCPeers == {V4({0, 3}), V4({0, 1, 2}), V6({5})}

Host(a)    == [check |-> a, slash |-> "none", bits |-> 0]
Net(a, n)  == [check |-> a, slash |-> "bits", bits |-> n]
NaN(a)     == [check |-> a, slash |-> "word", bits |-> 0]

Line(kind, name, value, rest) ==
  [kind |-> kind, name |-> name, value |-> value, rest |-> rest]

Section(s)   == Line("section", s, None, "end")
Key(k, v)    == Line("key", k, v, "end")
Comment      == Line("comment", None, None, "none")

Lists == {{}, {Host(V4({0, 3}))}, {Net(V4({0, 1}), 2), Host(V6({5}))}, {Net(V6({3}), 0)}}

TheSection == Section("control")

MCFiles ==
  {<<Comment, TheSection, Key("deny", d), Key("allow", a)>> : d \in Lists \union {All}, a \in Lists \ {{}}}
    \union
  {<<TheSection>>,
   \* keys elsewhere, twice, or in a second section do not count
   <<Key("deny", All), Section("general"), Key("allow", {Host(V6({5}))}), TheSection,
     Key("deny", {Host(V4({0, 3}))}), Key("deny", All), TheSection, Key("allow", {Host(V4({0, 3}))})>>,
   \* a mask that ends within an octet
   <<TheSection, Key("deny", {Net(V4({0, 1}), 3)})>>,
   \* errors
   <<TheSection, Line("key", "deny", All, "none")>>,
   <<Line("section", "control", None, "text")>>,
   <<Line("broken", None, None, "end")>>,
   <<TheSection, Key("allow", All)>>,
   <<TheSection, Key("deny", {Net(V4({0}), 5)})>>,
   <<TheSection, Key("deny", {NaN(V6({0}))})>>,
   <<TheSection, Key("deny", {Host(None)})>>,
   \* listening sockets
   <<TheSection, Key("bind-addr", All), Key("deny", All)>>,
   <<TheSection, Key("bind-addr", {})>>,
   <<TheSection, Key("bind-addr", {Host(V4({0}))})>>}

MCLines  == UNION {{f[i] : i \in 1 .. Len(f)} : f \in MCFiles}
MCWords  == {l.name : l \in MCLines}
MCValues == {l.value : l \in MCLines}

MCFileLists ==
  {<<f>> : f \in MCFiles}
    \union {<<>>, <<None>>, <<None, <<TheSection, Key("deny", All)>>>>,
            <<<<TheSection, Key("deny", All)>>, <<TheSection>>>>}

MCTexts == {<<>>, <<"a", "r">>, <<"a", "a", "a", "a", "a">>}

============================================================================

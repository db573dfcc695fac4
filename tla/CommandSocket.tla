--------------------------- MODULE CommandSocket ----------------------------
(***************************************************************************)
(* The daemon's command socket from the configuration file to the lines of *)
(* a connection: main (xplevent.c) reads the first file that there is and  *)
(* makes the access control list, SocketCreateMultiple and addIPSocket set *)
(* up the listening sockets, commandSocketListener (monitor.c) decides     *)
(* about a connection, and lines go over it as in LineIO.                  *)
(***************************************************************************)
EXTENDS Access, LineIO

CONSTANTS
  FileLists,  \* lists of configuration files; None is one that is not there
  Peers       \* addresses of clients

ASSUME CommandSocketAssumption ==
  FileLists \subseteq Seq(Seq(FileLines) \union {None})

Families == {"v4", "v6"}

VARIABLES
  files,      \* the files that main tries
  state,      \* "off", "serves", "fatal" or "aborted"
  acl,        \* the access control list
  listening,  \* families with a listening socket
  conn,       \* "none", "served" or "denied"
  peer        \* the client's address

daemon == <<files, state, acl, listening>>
vars   == <<daemon, conn, peer, io>>

Init ==
  /\ files \in FileLists
  /\ state = "off"
  /\ acl = None
  /\ listening = {}
  /\ conn = "none"
  /\ peer = None
  /\ InitIO

\* The first file that there is.
FileIndex ==
  LET is == {i \in 1 .. Len(files) : files[i] # None}
  IN  IF is = {} THEN 0 ELSE First(is)

\* The sections in it.  None if there is no file.
Config == IF FileIndex = 0 THEN NoSections ELSE ConfReadScan(files[FileIndex])

Control(key) == ValueBySectKey(Config, "control", key)

Become(s, al, socks) == state' = s /\ acl' = al /\ listening' = socks

\* A file that is not well-formed was to be passed over, but free() of its
\* path, which talloc has allocated, aborts.  A list of allowed or denied
\* addresses with an error is fatal.  A list of addresses to bind to swaps two
\* arguments, and an assertion fails for the first; of the families that are
\* bound by default each may fail, which nobody is told.
Start ==
  /\ state = "off"
  /\ \/ /\ Config = None
        /\ Become("aborted", None, {})
     \/ /\ Config # None
        /\ LET allow == Control("allow")
               deny  == Control("deny")
               bind  == Control("bind-addr")
           IN \/ /\ ~GenOK(allow, deny)
                 /\ Become("fatal", None, {})
              \/ /\ GenOK(allow, deny) /\ bind \in {None, All}
                 /\ \E socks \in SUBSET Families :
                      Become("serves", GenACL(allow, deny), socks)
              \/ /\ GenOK(allow, deny) /\ bind \notin {None, All}
                 /\ IF bind = {}
                    THEN Become("serves", GenACL(allow, deny), {})
                    ELSE Become("aborted", None, {})
  /\ UNCHANGED <<files, conn, peer, io>>

\* A client connects; commandSocketListener.
Connect(address) ==
  /\ state = "serves" /\ conn = "none"
  /\ address.family \in listening
  /\ peer' = address
  /\ conn' = IF CheckACL(acl, address) THEN "served" ELSE "denied"
  /\ UNCHANGED <<daemon, io>>

Transfer(step) == conn = "served" /\ step /\ UNCHANGED <<daemon, conn, peer>>

Next ==
  \/ Start
  \/ \E a \in Peers : Connect(a)
  \/ Transfer(NextIO)

\* The daemon reads on; nothing is said of clients.
Spec == Init /\ [][Next]_vars /\ WF_vars(~down /\ Transfer(Read))

----------------------------------------------------------------------------
(* Properties.                                                             *)

TypeOK ==
  /\ files \in FileLists
  /\ state \in {"off", "serves", "fatal", "aborted"}
  /\ listening \subseteq Families
  /\ conn \in {"none", "served", "denied"}
  /\ peer \in Peers \union {None}
  /\ printed \in 0 .. MaxPrints
  /\ Len(net) <= Capacity

\* The lines of the file that assign a value to the key in the first section
\* "control", in words of the file.
Assigns(f, i, key) ==
  /\ f[i].kind = "key" /\ f[i].name = key
  /\ \E j \in 1 .. i - 1 :
       /\ f[j].kind = "section" /\ f[j].name = "control"
       /\ \A k \in (1 .. i - 1) \ {j} : f[k].kind = "section" => k < j /\ f[k].name # "control"

\* What the first of them assigns.
Assigned(f, key) ==
  LET is == {i \in 1 .. Len(f) : Assigns(f, i, key)}
  IN  IF is = {} THEN None ELSE f[First(is)].value

\* The address is in the network of the text.
Covers(t, address) ==
  /\ t.check.family = address.family
  /\ LET n == IF t.slash = "none" THEN Width(address.family) ELSE t.bits
     IN  t.check.ones \cap (0 .. n - 1) = address.ones \cap (0 .. n - 1)

CoveredBy(value, address) == \E t \in TextsOf(value) : Covers(t, address)

\* As the comments in the sample configuration file have it.
Permitted(f, address) ==
  LET deny == Assigned(f, "deny")
  IN  \/ deny = None
      \/ deny # All /\ ~CoveredBy(deny, address)
      \/ CoveredBy(Assigned(f, "allow"), address)

\* Every mask ends with an octet.
WholeOctets(f) ==
  \A key \in {"allow", "deny"} :
    \A t \in TextsOf(Assigned(f, key)) : t.slash = "bits" => t.bits % OctetBits = 0

(***************************************************************************)
(* A client is served exactly if the first section [control] of the first  *)
(* file permits it: it is allowed, or not denied.  Without a file          *)
(* everybody is served.  Masks that end within an octet are excepted       *)
(* (addrMaskInit sets the wrong bits for them, see the findings).          *)
(***************************************************************************)
AccessRight ==
  conn # "none" /\ (FileIndex # 0 => WholeOctets(files[FileIndex])) =>
    (conn = "served" <=> FileIndex = 0 \/ Permitted(files[FileIndex], peer))

(***************************************************************************)
(* SocketReadLine stores each byte, and the NUL at the end of the line, in *)
(* the buffer, however long the line is.                                   *)
(***************************************************************************)
LineFits == [][ReadByte => Len(line) < lsize']_vars

(***************************************************************************)
(* Whatever pieces a line is written and read in, each read returns the    *)
(* next line that was printed, with the exceptions that LineChannel names; *)
(* none of them is a line that nobody has printed a part of.               *)
(***************************************************************************)
ImplementsLines == Channel!Spec

(***************************************************************************)
(* A read of the daemon ends, also when the client sends part of a line    *)
(* and then nothing, or goes away: the daemon's only thread is not kept by *)
(* a client that is silent.  It is kept for as long as bytes arrive: every *)
(* byte starts the five seconds again (SocketReadLine), so clients that    *)
(* never stop sending, and never send a newline, are excepted.             *)
(***************************************************************************)
ReadEnds ==
  <>[][Len(net') <= Len(net)]_vars => ((reading /\ ~down) ~> ~reading)

============================================================================

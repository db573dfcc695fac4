--------------------------- MODULE PidFileProofs ----------------------------
(***************************************************************************)
(* Theorems about the PID file (PidFile), for any number of starts.        *)
(***************************************************************************)
EXTENDS PidFile, TLAPS

\* What each process of a start may be doing, and which of its processes there
\* are not yet.
FamilyInv ==
  /\ \A p \in Procs :
       /\ pc[p] = "check" => p[2] = "parent"
       /\ pc[p] \in {"write", "fork"} => p[2] # "daemon"
  /\ \A s \in Starts :
       /\ pc[<<s, "parent">>] \in {"none", "check", "write", "fork"}
            => pc[<<s, "leader">>] = "none"
       /\ pc[<<s, "leader">>] \in {"none", "write", "fork"}
            => pc[<<s, "daemon">>] = "none"
       /\ ground[s] = "fore"
            => pc[<<s, "leader">>] = "none" /\ pc[<<s, "parent">>] # "fork"

\* weWroteThePIDFile before the write.
FlagInv ==
  \A p \in Procs :
    \/ pc[p] \in {"none", "check", "write"}
    \/ pc[p] = "fork" /\ p[2] = "parent"
    => ~wrote[p]

\* While nobody was killed there is somebody who will remove the file.
OwnerInv ==
  ~killed /\ file # None => \E p \in Procs : Exists(p) /\ wrote[p]

\* The kernel's numbers: one for each process there is.
NumberInv ==
  /\ \A p \in Procs : Exists(p) => number[p] \notin others
  /\ \A p, q \in Procs : Exists(p) /\ Exists(q) /\ number[p] = number[q] => p = q

\* Unless the number in the file was given again, it is nobody's but that of a
\* process that has written it.
FreshInv ==
  ~again /\ file \in Numbers =>
    /\ file \notin others
    /\ \A p \in Procs : Exists(p) /\ number[p] = file => wrote[p]

\* The process is the daemon, or was and has yet to remove the file.
Holds(p) == pc[p] = "runs" \/ (pc[p] = "exit" /\ wrote[p])

\* In the foreground there is one holder, whose number is in the file, or one
\* process about to write it.
HolderInv ==
  Foreground /\ ~raced /\ ~unsaved /\ ~spawned =>
    \A p \in Procs :
      /\ Holds(p) => file = number[p]
      /\ pc[p] = "write" =>
           \A q \in Procs : ~Holds(q) /\ (pc[q] = "write" => q = p)

IInv ==
  TypeOK /\ FamilyInv /\ FlagInv /\ OwnerInv /\ NumberInv /\ FreshInv /\ HolderInv

----------------------------------------------------------------------------

\* A process is a start and a role.
LEMMA PidParts ==
  /\ \A p \in Procs : p[1] \in Starts /\ p[2] \in Roles /\ p = <<p[1], p[2]>>
  /\ \A s \in Starts : /\ <<s, "parent">> \in Procs /\ <<s, "leader">> \in Procs
                       /\ <<s, "daemon">> \in Procs
  BY DEF Procs, Roles

\* The child is the next role of the same start.
LEMMA ChildParts ==
  ASSUME NEW p \in Procs, p[2] # "daemon"
  PROVE  /\ Child(p) \in Procs /\ Child(p) # p
         /\ p[2] = "parent" => Child(p) = <<p[1], "leader">> /\ p = <<p[1], "parent">>
         /\ p[2] # "parent" => Child(p) = <<p[1], "daemon">> /\ p = <<p[1], "leader">>
<1>1. p[2] \in Roles /\ p = <<p[1], p[2]>> /\ p[1] \in Starts
  BY PidParts
<1>2. CASE p[2] = "parent"
  BY <1>1, <1>2, PidParts DEF Child
<1>3. CASE p[2] = "leader"
  BY <1>1, <1>3, PidParts DEF Child
<1>4. QED
  BY <1>1, <1>2, <1>3 DEF Roles

\* A process that forks has a child, which there is not yet.
LEMMA ForkParts ==
  ASSUME TypeOK, FamilyInv, NEW p \in Procs, pc[p] = "fork"
  PROVE  /\ Child(p) \in Procs /\ Child(p) # p /\ pc[Child(p)] = "none"
         /\ p[2] = "parent" => Child(p) = <<p[1], "leader">> /\ p = <<p[1], "parent">>
         /\ p[2] # "parent" => Child(p) = <<p[1], "daemon">> /\ p = <<p[1], "leader">>
<1>1. p[2] # "daemon" /\ p[1] \in Starts
  BY PidParts DEF FamilyInv
<1>2. CASE p[2] = "parent"
  <2>1. pc[<<p[1], "parent">>] = "fork"
    BY <1>1, <1>2, ChildParts
  <2>2. pc[<<p[1], "leader">>] = "none"
    BY <1>1, <2>1 DEF FamilyInv
  <2>3. QED
    BY <1>1, <1>2, <2>2, ChildParts
<1>3. CASE p[2] # "parent"
  <2>1. pc[<<p[1], "leader">>] = "fork"
    BY <1>1, <1>3, ChildParts
  <2>2. pc[<<p[1], "daemon">>] = "none"
    BY <1>1, <2>1 DEF FamilyInv
  <2>3. QED
    BY <1>1, <1>3, <2>2, ChildParts
<1>4. QED
  BY <1>2, <1>3

\* The initial states.
LEMMA InitInv == Init => IInv
<1> SUFFICES ASSUME Init PROVE IInv
  OBVIOUS
<1>1. TypeOK
  BY DEF Init, TypeOK
<1>2. FamilyInv /\ FlagInv
  BY PidParts DEF Init, FamilyInv, FlagInv
<1>3. OwnerInv /\ NumberInv /\ FreshInv
  BY PidFileAssumption
     DEF Init, OwnerInv, NumberInv, FreshInv, Exists, PidFileAssumption
<1>4. HolderInv
  BY DEF Init, HolderInv, Holds
<1>5. QED
  BY <1>1, <1>2, <1>3, <1>4 DEF IInv

\* Types.
LEMMA TypeKept == TypeOK /\ FamilyInv /\ [Next]_vars => TypeOK'
<1> SUFFICES ASSUME TypeOK, FamilyInv, [Next]_vars PROVE TypeOK'
  OBVIOUS
<1> USE DEF TypeOK, history
<1>1. ASSUME NEW s \in Starts, Start(s) PROVE TypeOK'
  BY <1>1, PidParts DEF Start, Goto, Gets
<1>2. ASSUME NEW p \in Procs, Check(p) PROVE TypeOK'
  BY <1>2 DEF Check, Goto
<1>3. ASSUME NEW p \in Procs, Write(p) PROVE TypeOK'
  <2>1. PICK f \in {number[p], file, Empty} :
          /\ file' = f
          /\ unsaved' = (unsaved \/ f # number[p])
          /\ wrote' = [wrote EXCEPT ![p] = Claims(f, p)]
    BY <1>3 DEF Write
  <2>2. /\ unsaved' \in BOOLEAN /\ wrote' \in [Procs -> BOOLEAN]
        /\ file' \in Numbers \union {None, Empty}
    BY <2>1 DEF Claims
  <2>3. QED
    BY <1>3, <2>1, <2>2 DEF Write, Goto
<1>4. ASSUME NEW p \in Procs, Fork(p) PROVE TypeOK'
  <2>1. Child(p) \in Procs /\ Child(p) # p /\ pc[Child(p)] = "none"
    BY <1>4, ForkParts DEF Fork
  <2>2. QED
    BY <1>4, <2>1 DEF Fork, Goto, Gets
<1>5. ASSUME NEW p \in Procs, End(p) PROVE TypeOK'
  BY <1>5 DEF End, Goto
<1>6. ASSUME NEW p \in Procs, Exit(p) PROVE TypeOK'
  BY <1>6 DEF Exit, Goto
<1>7. ASSUME NEW p \in Procs, Kill(p) PROVE TypeOK'
  BY <1>7 DEF Kill, Goto, Exists
<1>8. ASSUME NEW p \in Procs, SpawnFails(p) PROVE TypeOK'
  BY <1>8 DEF SpawnFails, Unlinks
<1>9. ASSUME NEW n \in Numbers, Taken(n) PROVE TypeOK'
  BY <1>9 DEF Taken
<1>10. ASSUME NEW n \in Numbers, Returned(n) PROVE TypeOK'
  BY <1>10 DEF Returned
<1>11. ASSUME UNCHANGED vars PROVE TypeOK'
  BY <1>11 DEF vars
<1>12. QED
  BY <1>1, <1>2, <1>3, <1>4, <1>5, <1>6, <1>7, <1>8, <1>9, <1>10, <1>11 DEF Next

\* Families: a step of one start is no step of another.
LEMMA FamilyKept == TypeOK /\ FamilyInv /\ [Next]_vars => FamilyInv'
<1> SUFFICES ASSUME TypeOK, FamilyInv, [Next]_vars PROVE FamilyInv'
  OBVIOUS
<1> USE PidParts DEF TypeOK, FamilyInv
<1>1. ASSUME NEW s \in Starts, Start(s) PROVE FamilyInv'
  BY <1>1 DEF Start, Goto
<1>2. ASSUME NEW p \in Procs, Check(p) PROVE FamilyInv'
  <2>1. p = <<p[1], "parent">> /\ pc[<<p[1], "parent">>] = "check"
    BY <1>2 DEF Check
  <2>2. \/ pc' = [pc EXCEPT ![p] = "exit"]
        \/ pc' = [pc EXCEPT ![p] = "write"]
        \/ ground[p[1]] = "back" /\ pc' = [pc EXCEPT ![p] = "fork"]
    BY <1>2 DEF Check, Goto
  <2>3. ground' = ground
    BY <1>2 DEF Check
  <2>4. QED
    BY <2>1, <2>2, <2>3
<1>3. ASSUME NEW p \in Procs, Write(p) PROVE FamilyInv'
  BY <1>3 DEF Write, Goto
<1>4. ASSUME NEW p \in Procs, Fork(p) PROVE FamilyInv'
  <2>1. pc[p] = "fork" /\ ground' = ground /\ p[1] \in Starts
    BY <1>4 DEF Fork
  <2>2. CASE pc' = [pc EXCEPT ![p] = "exit"]
    BY <2>1, <2>2
  <2>3. CASE p[2] = "parent" /\ pc' # [pc EXCEPT ![p] = "exit"]
    <3>1. /\ p = <<p[1], "parent">> /\ Child(p) = <<p[1], "leader">>
          /\ pc[<<p[1], "leader">>] = "none" /\ pc[<<p[1], "daemon">>] = "none"
      BY <2>1, <2>3, ForkParts
    <3>2. pc' = [pc EXCEPT ![p] = "exit", ![<<p[1], "leader">>] = "write"]
      BY <1>4, <2>3, <3>1 DEF Fork, Goto
    <3>3. /\ pc'[<<p[1], "parent">>] = "exit" /\ pc'[<<p[1], "leader">>] = "write"
          /\ \A q \in Procs : q = <<p[1], "parent">> \/ q = <<p[1], "leader">> \/ pc'[q] = pc[q]
      BY <2>1, <3>1, <3>2
    <3>4. ground[p[1]] # "fore"
      BY <2>1, <3>1
    <3>5. \A q \in Procs :
            /\ pc'[q] = "check" => q[2] = "parent"
            /\ pc'[q] \in {"write", "fork"} => q[2] # "daemon"
      <4>1. ASSUME NEW q \in Procs, pc'[q] = pc[q]
            PROVE  /\ pc'[q] = "check" => q[2] = "parent"
                   /\ pc'[q] \in {"write", "fork"} => q[2] # "daemon"
        BY <4>1
      <4>2. <<p[1], "leader">>[2] # "daemon"
        OBVIOUS
      <4>3. QED
        BY <3>3, <4>1, <4>2
    <3>6. ASSUME NEW s \in Starts, s # p[1]
          PROVE  \A r \in Roles : <<s, r>> \in Procs /\ pc'[<<s, r>>] = pc[<<s, r>>]
      BY <3>3, <3>6 DEF Procs
    <3>7. pc'[<<p[1], "daemon">>] = "none"
      BY <2>1, <3>1, <3>3
    <3>8. ASSUME NEW s \in Starts
          PROVE  /\ pc'[<<s, "parent">>] \in {"none", "check", "write", "fork"}
                      => pc'[<<s, "leader">>] = "none"
                 /\ pc'[<<s, "leader">>] \in {"none", "write", "fork"}
                      => pc'[<<s, "daemon">>] = "none"
                 /\ ground'[s] = "fore"
                      => pc'[<<s, "leader">>] = "none" /\ pc'[<<s, "parent">>] # "fork"
      <4>1. CASE s = p[1]
        BY <2>1, <3>3, <3>4, <3>7, <4>1
      <4>2. CASE s # p[1]
        <5>1. /\ pc'[<<s, "parent">>] = pc[<<s, "parent">>]
              /\ pc'[<<s, "leader">>] = pc[<<s, "leader">>]
              /\ pc'[<<s, "daemon">>] = pc[<<s, "daemon">>]
          BY <3>6, <4>2 DEF Roles
        <5>2. QED
          BY <2>1, <5>1
      <4>3. QED
        BY <4>1, <4>2
    <3>9. QED
      BY <3>5, <3>8
  <2>4. CASE p[2] # "parent" /\ pc' # [pc EXCEPT ![p] = "exit"]
    <3>1. p = <<p[1], "leader">> /\ Child(p) = <<p[1], "daemon">>
      BY <2>1, <2>4, ForkParts
    <3>2. pc' = [pc EXCEPT ![p] = "exit", ![<<p[1], "daemon">>] = "runs"]
      BY <1>4, <2>4, <3>1 DEF Fork, Goto
    <3>3. QED
      BY <2>1, <3>1, <3>2
  <2>5. QED
    BY <2>2, <2>3, <2>4
<1>5. ASSUME NEW p \in Procs, End(p) PROVE FamilyInv'
  BY <1>5 DEF End, Goto
<1>6. ASSUME NEW p \in Procs, Exit(p) PROVE FamilyInv'
  BY <1>6 DEF Exit, Goto
<1>7. ASSUME NEW p \in Procs, Kill(p) PROVE FamilyInv'
  BY <1>7 DEF Kill, Goto, Exists
<1>8. ASSUME NEW p \in Procs, SpawnFails(p) PROVE FamilyInv'
  BY <1>8 DEF SpawnFails, Unlinks
<1>9. ASSUME NEW n \in Numbers, Taken(n) PROVE FamilyInv'
  BY <1>9 DEF Taken
<1>10. ASSUME NEW n \in Numbers, Returned(n) PROVE FamilyInv'
  BY <1>10 DEF Returned
<1>11. ASSUME UNCHANGED vars PROVE FamilyInv'
  BY <1>11 DEF vars
<1>12. QED
  BY <1>1, <1>2, <1>3, <1>4, <1>5, <1>6, <1>7, <1>8, <1>9, <1>10, <1>11 DEF Next

\* The flag of a process that has not written.
LEMMA FlagInvKept == TypeOK /\ FamilyInv /\ FlagInv /\ [Next]_vars => FlagInv'
<1> SUFFICES ASSUME TypeOK, FamilyInv, FlagInv, [Next]_vars PROVE FlagInv'
  OBVIOUS
<1> USE DEF TypeOK, FlagInv, history
<1>1. ASSUME NEW s \in Starts, Start(s) PROVE FlagInv'
  BY <1>1 DEF Start, Goto
<1>2. ASSUME NEW p \in Procs, Check(p) PROVE FlagInv'
  BY <1>2 DEF Check, Goto
<1>3. ASSUME NEW p \in Procs, Write(p) PROVE FlagInv'
  BY <1>3 DEF Write, Goto
<1>4. ASSUME NEW p \in Procs, Fork(p) PROVE FlagInv'
  <2>1. /\ Child(p) \in Procs /\ Child(p) # p /\ pc[Child(p)] = "none"
        /\ p[2] = "parent" => Child(p)[2] = "leader"
        /\ pc[p] = "fork" /\ p[2] # "daemon"
    BY <1>4, ForkParts DEF Fork, FamilyInv
  <2>2. p[2] = "parent" => ~wrote[p]
    BY <2>1
  <2>3. QED
    BY <1>4, <2>1, <2>2 DEF Fork, Goto
<1>5. ASSUME NEW p \in Procs, End(p) PROVE FlagInv'
  BY <1>5 DEF End, Goto
<1>6. ASSUME NEW p \in Procs, Exit(p) PROVE FlagInv'
  BY <1>6 DEF Exit, Goto
<1>7. ASSUME NEW p \in Procs, Kill(p) PROVE FlagInv'
  BY <1>7 DEF Kill, Goto, Exists
<1>8. ASSUME NEW p \in Procs, SpawnFails(p) PROVE FlagInv'
  BY <1>8 DEF SpawnFails, Unlinks, Goto
<1>9. ASSUME NEW n \in Numbers, Taken(n) PROVE FlagInv'
  BY <1>9 DEF Taken, Goto
<1>10. ASSUME NEW n \in Numbers, Returned(n) PROVE FlagInv'
  BY <1>10 DEF Returned, Goto
<1>11. ASSUME UNCHANGED vars PROVE FlagInv'
  BY <1>11 DEF vars, history
<1>12. QED
  BY <1>1, <1>2, <1>3, <1>4, <1>5, <1>6, <1>7, <1>8, <1>9, <1>10, <1>11 DEF Next

\* Somebody will remove the file.
LEMMA OwnerInvKept == TypeOK /\ FamilyInv /\ FlagInv /\ OwnerInv /\ [Next]_vars => OwnerInv'
<1> SUFFICES ASSUME TypeOK, FamilyInv, FlagInv, OwnerInv, [Next]_vars PROVE OwnerInv'
  OBVIOUS
<1> USE DEF TypeOK, OwnerInv, Exists, history
<1>1. ASSUME NEW s \in Starts, Start(s) PROVE OwnerInv'
  BY <1>1 DEF Start, Goto
<1>2. ASSUME NEW p \in Procs, Check(p) PROVE OwnerInv'
  BY <1>2 DEF Check, Goto
<1>3. ASSUME NEW p \in Procs, Write(p) PROVE OwnerInv'
  <2>1. wrote'[p] /\ Exists(p)'
    BY <1>3 DEF Write, Goto, Claims
  <2>2. QED
    BY <2>1
<1>4. ASSUME NEW p \in Procs, Fork(p) PROVE OwnerInv'
  <2>1. /\ Child(p) \in Procs /\ Child(p) # p /\ pc[Child(p)] = "none"
    BY <1>4, ForkParts DEF Fork
  <2>2. \A q \in Procs : Exists(q) => Exists(q)' /\ wrote'[q] = wrote[q]
    BY <1>4, <2>1 DEF Fork, Goto
  <2>3. QED
    BY <1>4, <2>2 DEF Fork
<1>5. ASSUME NEW p \in Procs, End(p) PROVE OwnerInv'
  BY <1>5 DEF End, Goto
<1>6. ASSUME NEW p \in Procs, Exit(p) PROVE OwnerInv'
  BY <1>6 DEF Exit, Goto, Unlinks
<1>7. ASSUME NEW p \in Procs, Kill(p) PROVE OwnerInv'
  BY <1>7 DEF Kill, Goto, Exists
<1>8. ASSUME NEW p \in Procs, SpawnFails(p) PROVE OwnerInv'
  BY <1>8 DEF SpawnFails, Unlinks, Goto
<1>9. ASSUME NEW n \in Numbers, Taken(n) PROVE OwnerInv'
  BY <1>9 DEF Taken, Goto
<1>10. ASSUME NEW n \in Numbers, Returned(n) PROVE OwnerInv'
  BY <1>10 DEF Returned, Goto
<1>11. ASSUME UNCHANGED vars PROVE OwnerInv'
  BY <1>11 DEF vars, history
<1>12. QED
  BY <1>1, <1>2, <1>3, <1>4, <1>5, <1>6, <1>7, <1>8, <1>9, <1>10, <1>11 DEF Next

\* A number that is given is not in use.
LEMMA NumberInvKept == TypeOK /\ FamilyInv /\ NumberInv /\ [Next]_vars => NumberInv'
<1> SUFFICES ASSUME TypeOK, FamilyInv, NumberInv, [Next]_vars PROVE NumberInv'
  OBVIOUS
<1> USE DEF TypeOK, NumberInv, Exists
<1>a. ASSUME NEW r \in Procs, NEW n \in Numbers, Gets(r, n), ~Exists(r),
             \A q \in Procs \ {r} : Exists(q)' => Exists(q),
             others' = others
      PROVE  NumberInv'
  <2>1. n \notin others /\ \A q \in Procs : Exists(q) => number[q] # n
    BY <1>a DEF Gets, Unused
  <2>2. number'[r] = n /\ \A q \in Procs \ {r} : number'[q] = number[q]
    BY <1>a DEF Gets
  <2>3. QED
    BY <1>a, <2>1, <2>2
<1>b. ASSUME number' = number, others' = others,
             \A q \in Procs : Exists(q)' => Exists(q)
      PROVE  NumberInv'
  BY <1>b
<1>1. ASSUME NEW s \in Starts, Start(s) PROVE NumberInv'
  <2>1. <<s, "parent">> \in Procs /\ ~Exists(<<s, "parent">>)
    BY <1>1, PidParts DEF Start
  <2>2. \A q \in Procs \ {<<s, "parent">>} : Exists(q)' => Exists(q)
    BY <1>1, <2>1 DEF Start, Goto
  <2>3. PICK n \in Numbers : Gets(<<s, "parent">>, n)
    BY <1>1 DEF Start
  <2>4. others' = others
    BY <1>1 DEF Start
  <2>5. QED
    BY <1>a, <2>1, <2>2, <2>3, <2>4
<1>2. ASSUME NEW p \in Procs, Check(p) PROVE NumberInv'
  BY <1>2, <1>b DEF Check, Goto
<1>3. ASSUME NEW p \in Procs, Write(p) PROVE NumberInv'
  BY <1>3, <1>b DEF Write, Goto
<1>4. ASSUME NEW p \in Procs, Fork(p) PROVE NumberInv'
  <2>1. Child(p) \in Procs /\ Child(p) # p /\ ~Exists(Child(p)) /\ Exists(p)
    BY <1>4, ForkParts DEF Fork
  <2>2. \A q \in Procs \ {Child(p)} : Exists(q)' => Exists(q)
    BY <1>4, <2>1 DEF Fork, Goto
  <2>3. others' = others
    BY <1>4 DEF Fork
  <2>4. CASE Goto(p, "exit") /\ number' = number
    BY <1>b, <2>1, <2>3, <2>4 DEF Goto
  <2>5. CASE \E n \in Numbers : Gets(Child(p), n)
    BY <1>a, <2>1, <2>2, <2>3, <2>5
  <2>6. QED
    BY <1>4, <2>4, <2>5 DEF Fork
<1>5. ASSUME NEW p \in Procs, End(p) PROVE NumberInv'
  BY <1>5, <1>b DEF End, Goto
<1>6. ASSUME NEW p \in Procs, Exit(p) PROVE NumberInv'
  BY <1>6, <1>b DEF Exit, Goto
<1>7. ASSUME NEW p \in Procs, Kill(p) PROVE NumberInv'
  BY <1>7, <1>b DEF Kill, Goto
<1>8. ASSUME NEW p \in Procs, SpawnFails(p) PROVE NumberInv'
  BY <1>8 DEF SpawnFails
<1>9. ASSUME NEW n \in Numbers, Taken(n) PROVE NumberInv'
  BY <1>9 DEF Taken, Unused
<1>10. ASSUME NEW n \in Numbers, Returned(n) PROVE NumberInv'
  BY <1>10 DEF Returned
<1>11. ASSUME UNCHANGED vars PROVE NumberInv'
  BY <1>11 DEF vars
<1>12. QED
  BY <1>1, <1>2, <1>3, <1>4, <1>5, <1>6, <1>7, <1>8, <1>9, <1>10, <1>11 DEF Next

\* The number in the file is given to nobody, or `again' says so.
LEMMA FreshInvKept ==
  TypeOK /\ FamilyInv /\ NumberInv /\ FreshInv /\ [Next]_vars => FreshInv'
<1> SUFFICES ASSUME TypeOK, FamilyInv, NumberInv, FreshInv, [Next]_vars PROVE FreshInv'
  OBVIOUS
<1> USE DEF TypeOK, FreshInv, Exists, history
<1>a. ASSUME NEW r \in Procs, NEW n \in Numbers, Gets(r, n),
             \A q \in Procs \ {r} : (Exists(q)' => Exists(q)) /\ wrote'[q] = wrote[q],
             others' = others, file' = file
      PROVE  FreshInv'
  <2>1. again' = (again \/ n = file)
    BY <1>a DEF Gets
  <2>2. number'[r] = n /\ \A q \in Procs \ {r} : number'[q] = number[q]
    BY <1>a DEF Gets
  <2>3. QED
    BY <1>a, <2>1, <2>2
<1>b. ASSUME number' = number, others' = others, again' = again,
             \A q \in Procs : (Exists(q)' => Exists(q)) /\ (wrote[q] => wrote'[q]),
             file' = file \/ file' = None
      PROVE  FreshInv'
  BY <1>b, PidFileAssumption DEF PidFileAssumption
<1>1. ASSUME NEW s \in Starts, Start(s) PROVE FreshInv'
  <2>1. <<s, "parent">> \in Procs
    BY PidParts
  <2>2. \A q \in Procs \ {<<s, "parent">>} :
          (Exists(q)' => Exists(q)) /\ wrote'[q] = wrote[q]
    BY <1>1, <2>1 DEF Start, Goto
  <2>3. PICK n \in Numbers : Gets(<<s, "parent">>, n)
    BY <1>1 DEF Start
  <2>4. others' = others /\ file' = file
    BY <1>1 DEF Start
  <2>5. QED
    BY <1>a, <2>1, <2>2, <2>3, <2>4
<1>2. ASSUME NEW p \in Procs, Check(p) PROVE FreshInv'
  BY <1>2, <1>b DEF Check, Goto
<1>3. ASSUME NEW p \in Procs, Write(p) PROVE FreshInv'
  <2>1. /\ pc[p] = "write" /\ number' = number /\ others' = others /\ again' = again
        /\ wrote' = [wrote EXCEPT ![p] = TRUE]
        /\ file' = number[p] \/ file' = file \/ file' = Empty
    BY <1>3 DEF Write, Claims
  <2>2. \A q \in Procs : (Exists(q)' => Exists(q)) /\ (wrote[q] => wrote'[q])
    BY <1>3, <2>1 DEF Write, Goto
  <2>3. CASE file' = file
    BY <1>b, <2>1, <2>2, <2>3
  <2>4. CASE file' = Empty
    BY <2>4, PidFileAssumption DEF PidFileAssumption
  <2>5. CASE file' = number[p]
    <3>1. Exists(p) /\ number[p] \notin others
      BY <2>1 DEF NumberInv
    <3>2. \A q \in Procs : Exists(q)' /\ number[q] = number[p] => q = p
      BY <2>2, <3>1 DEF NumberInv
    <3>3. wrote'[p]
      BY <2>1
    <3>4. QED
      BY <2>1, <2>5, <3>1, <3>2, <3>3
  <2>6. QED
    BY <2>1, <2>3, <2>4, <2>5
<1>4. ASSUME NEW p \in Procs, Fork(p) PROVE FreshInv'
  <2>1. Child(p) \in Procs /\ Child(p) # p /\ pc[Child(p)] = "none" /\ Exists(p)
    BY <1>4, ForkParts DEF Fork
  <2>2. \A q \in Procs \ {Child(p)} :
          (Exists(q)' => Exists(q)) /\ wrote'[q] = wrote[q]
    BY <1>4, <2>1 DEF Fork, Goto
  <2>3. others' = others /\ file' = file
    BY <1>4 DEF Fork
  <2>4. CASE Goto(p, "exit") /\ UNCHANGED <<number, wrote, again>>
    BY <1>b, <2>1, <2>3, <2>4 DEF Goto
  <2>5. CASE \E n \in Numbers : Gets(Child(p), n)
    BY <1>a, <2>1, <2>2, <2>3, <2>5
  <2>6. QED
    BY <1>4, <2>4, <2>5 DEF Fork
<1>5. ASSUME NEW p \in Procs, End(p) PROVE FreshInv'
  BY <1>5, <1>b DEF End, Goto
<1>6. ASSUME NEW p \in Procs, Exit(p) PROVE FreshInv'
  BY <1>6, <1>b DEF Exit, Goto
<1>7. ASSUME NEW p \in Procs, Kill(p) PROVE FreshInv'
  BY <1>7, <1>b DEF Kill, Goto
<1>8. ASSUME NEW p \in Procs, SpawnFails(p) PROVE FreshInv'
  BY <1>8, <1>b DEF SpawnFails
<1>9. ASSUME NEW n \in Numbers, Taken(n) PROVE FreshInv'
  BY <1>9 DEF Taken
<1>10. ASSUME NEW n \in Numbers, Returned(n) PROVE FreshInv'
  BY <1>10 DEF Returned
<1>11. ASSUME UNCHANGED vars PROVE FreshInv'
  BY <1>11 DEF vars
<1>12. QED
  BY <1>1, <1>2, <1>3, <1>4, <1>5, <1>6, <1>7, <1>8, <1>9, <1>10, <1>11 DEF Next

\* With starts in the foreground only, there are no forks and no children.
LEMMA ForegroundParents ==
  ASSUME TypeOK, FamilyInv, Foreground, NEW p \in Procs, pc[p] # "none"
  PROVE  p[2] = "parent" /\ pc[p] # "fork" /\ ground[p[1]] = "fore"
<1>1. p[1] \in Starts /\ p = <<p[1], p[2]>> /\ p[2] \in Roles
  BY PidParts
<1>2. pc[<<p[1], "parent">>] # "none"
  BY <1>1 DEF FamilyInv, Roles
<1>3. ground[p[1]] = "fore"
  BY <1>1, <1>2 DEF Foreground
<1>4. pc[<<p[1], "leader">>] = "none" /\ pc[<<p[1], "parent">>] # "fork"
  BY <1>1, <1>3 DEF FamilyInv
<1>5. pc[<<p[1], "daemon">>] = "none"
  BY <1>1, <1>4 DEF FamilyInv
<1>6. QED
  BY <1>1, <1>3, <1>4, <1>5 DEF Roles

\* What was started in the background is not undone.
LEMMA ForegroundBefore ==
  ASSUME TypeOK, FamilyInv, [Next]_vars, Foreground'
  PROVE  Foreground
<1> USE PidParts DEF TypeOK, Foreground
<1>1. ASSUME NEW s \in Starts, Start(s) PROVE Foreground
  BY <1>1 DEF Start, Goto
<1>2. ASSUME NEW p \in Procs, Check(p) PROVE Foreground
  BY <1>2 DEF Check, Goto
<1>3. ASSUME NEW p \in Procs, Write(p) PROVE Foreground
  BY <1>3 DEF Write, Goto
<1>4. ASSUME NEW p \in Procs, Fork(p) PROVE Foreground
  <2>1. \A q \in Procs : pc[q] # "none" => pc'[q] # "none"
    BY <1>4, ForkParts DEF Fork, Goto
  <2>2. ground' = ground
    BY <1>4 DEF Fork
  <2>3. QED
    BY <2>1, <2>2
<1>5. ASSUME NEW p \in Procs, End(p) PROVE Foreground
  BY <1>5 DEF End, Goto
<1>6. ASSUME NEW p \in Procs, Exit(p) PROVE Foreground
  BY <1>6 DEF Exit, Goto
<1>7. ASSUME NEW p \in Procs, Kill(p) PROVE Foreground
  BY <1>7 DEF Kill, Goto
<1>8. ASSUME NEW p \in Procs, SpawnFails(p) PROVE Foreground
  BY <1>8 DEF SpawnFails, Unlinks
<1>9. ASSUME NEW n \in Numbers, Taken(n) PROVE Foreground
  BY <1>9 DEF Taken
<1>10. ASSUME NEW n \in Numbers, Returned(n) PROVE Foreground
  BY <1>10 DEF Returned
<1>11. ASSUME UNCHANGED vars PROVE Foreground
  BY <1>11 DEF vars
<1>12. QED
  BY <1>1, <1>2, <1>3, <1>4, <1>5, <1>6, <1>7, <1>8, <1>9, <1>10, <1>11 DEF Next

\* One holder, or one about to write: the check finds any other holder, whose
\* number is in the file, and does not overlap with another start.
LEMMA HolderInvKept ==
  TypeOK /\ FamilyInv /\ FlagInv /\ NumberInv /\ HolderInv /\ [Next]_vars => HolderInv'
<1> SUFFICES ASSUME TypeOK, FamilyInv, FlagInv, NumberInv, HolderInv, [Next]_vars,
                    Foreground', ~raced', ~unsaved', ~spawned'
             PROVE  \A p \in Procs :
                      /\ Holds(p)' => file' = number'[p]
                      /\ pc'[p] = "write" =>
                           \A q \in Procs : ~Holds(q)' /\ (pc'[q] = "write" => q = p)
  BY DEF HolderInv
<1> DEFINE Goal == \A p \in Procs :
                     /\ Holds(p)' => file' = number'[p]
                     /\ pc'[p] = "write" =>
                          \A q \in Procs : ~Holds(q)' /\ (pc'[q] = "write" => q = p)
<1>a. Foreground
  BY ForegroundBefore
<1>b. ~raced /\ ~unsaved /\ ~spawned
  <2>1. ASSUME NEW p \in Procs, Write(p) PROVE ~raced /\ ~unsaved /\ ~spawned
    BY <2>1 DEF Write
  <2>2. ASSUME NEW p \in Procs, Check(p) PROVE ~raced /\ ~unsaved /\ ~spawned
    <3>1. raced => raced'
      BY <2>2 DEF Check
    <3>2. unsaved' = unsaved /\ spawned' = spawned
      BY <2>2 DEF Check
    <3>3. QED
      BY <3>1, <3>2
  <2>3. ASSUME ~\E p \in Procs : Check(p) \/ Write(p)
        PROVE  raced' = raced /\ unsaved' = unsaved /\ (spawned => spawned')
    <3>1. CASE \E s \in Starts : Start(s)
      BY <3>1 DEF Start
    <3>2. CASE \E p \in Procs : Fork(p) \/ End(p) \/ Exit(p) \/ Kill(p) \/ SpawnFails(p)
      BY <3>2 DEF Fork, End, Exit, Kill, SpawnFails, history
    <3>3. CASE \E n \in Numbers : Taken(n) \/ Returned(n)
      BY <3>3 DEF Taken, Returned, history
    <3>4. CASE UNCHANGED vars
      BY <3>4 DEF vars, history
    <3>5. QED
      BY <2>3, <3>1, <3>2, <3>3, <3>4 DEF Next
  <2>4. QED
    BY <2>1, <2>2, <2>3
<1>c. \A p \in Procs :
        /\ Holds(p) => file = number[p]
        /\ pc[p] = "write" =>
             \A q \in Procs : ~Holds(q) /\ (pc[q] = "write" => q = p)
  BY <1>a, <1>b DEF HolderInv
<1> USE DEF TypeOK, Holds, history
<1>1. ASSUME NEW s \in Starts, Start(s) PROVE Goal
  BY <1>1, <1>c, PidParts DEF Start, Goto, Gets
<1>2. ASSUME NEW p \in Procs, Check(p) PROVE Goal
  <2>1. p[1] \in Starts /\ ground[p[1]] = "fore" /\ pc[p] = "check" /\ ~wrote[p]
    BY <1>2, <1>a, ForegroundParents, PidParts DEF Check, FlagInv
  <2>2. file' = file /\ wrote' = wrote /\ number' = number
    BY <1>2 DEF Check
  <2>3. CASE AlreadyRunning(file)
    <3>1. pc' = [pc EXCEPT ![p] = "exit"]
      BY <1>2, <2>3 DEF Check, Goto
    <3>2. QED
      BY <1>c, <2>1, <2>2, <3>1
  <2>4. CASE ~AlreadyRunning(file)
    <3>1. pc' = [pc EXCEPT ![p] = "write"]
      BY <1>2, <2>1, <2>4 DEF Check, Goto
    <3>2. \A q \in Procs : pc[q] # "write"
      BY <1>2, <2>4 DEF Check, Unwritten
    <3>3. \A q \in Procs : ~Holds(q)
      BY <1>c, <2>4 DEF AlreadyRunning, Exists
    <3>4. QED
      BY <2>1, <2>2, <3>1, <3>2, <3>3
  <2>5. QED
    BY <2>3, <2>4
<1>3. ASSUME NEW p \in Procs, Write(p) PROVE Goal
  <2>1. pc[p] = "write" /\ p[2] = "parent"
    BY <1>3, <1>a, ForegroundParents DEF Write
  <2>2. file' = number[p] /\ number' = number /\ pc' = [pc EXCEPT ![p] = "runs"]
    BY <1>3, <2>1 DEF Write, Goto
  <2>3. \A q \in Procs \ {p} : wrote'[q] = wrote[q] /\ pc[q] # "write" /\ ~Holds(q)
    BY <1>3, <1>c, <2>1 DEF Write
  <2>4. QED
    BY <2>2, <2>3
<1>4. ASSUME NEW p \in Procs, Fork(p) PROVE Goal
  BY <1>4, <1>a, ForegroundParents DEF Fork
<1>5. ASSUME NEW p \in Procs, End(p) PROVE Goal
  BY <1>5, <1>c DEF End, Goto
<1>6. ASSUME NEW p \in Procs, Exit(p) PROVE Goal
  <2>1. pc[p] = "exit" /\ pc' = [pc EXCEPT ![p] = "dead"]
    BY <1>6 DEF Exit, Goto
  <2>2. number' = number /\ wrote' = wrote /\ (file' = file \/ wrote[p])
    BY <1>6 DEF Exit, Unlinks
  <2>3. ASSUME NEW q \in Procs, Holds(q)' PROVE file' = number[q]
    <3>1. q # p /\ Holds(q) /\ Exists(q) /\ Exists(p)
      BY <2>1, <2>2, <2>3 DEF Exists
    <3>2. wrote[p] => number[p] = number[q]
      BY <1>c, <2>1, <3>1
    <3>3. ~wrote[p]
      BY <3>1, <3>2 DEF NumberInv
    <3>4. QED
      BY <1>c, <2>2, <3>1, <3>3
  <2>4. QED
    BY <1>c, <2>1, <2>2, <2>3
<1>7. ASSUME NEW p \in Procs, Kill(p) PROVE Goal
  BY <1>7, <1>c DEF Kill, Goto
<1>8. ASSUME NEW p \in Procs, SpawnFails(p) PROVE Goal
  BY <1>8, <1>c DEF SpawnFails
<1>9. ASSUME NEW n \in Numbers, Taken(n) PROVE Goal
  BY <1>9, <1>c DEF Taken
<1>10. ASSUME NEW n \in Numbers, Returned(n) PROVE Goal
  BY <1>10, <1>c DEF Returned
<1>11. ASSUME UNCHANGED vars PROVE Goal
  BY <1>11, <1>c DEF vars
<1>12. QED
  BY <1>1, <1>2, <1>3, <1>4, <1>5, <1>6, <1>7, <1>8, <1>9, <1>10, <1>11 DEF Next

----------------------------------------------------------------------------

\* The invariant holds in every state.
LEMMA Invariant == Spec => []IInv
<1>1. Init => IInv
  BY InitInv
<1>2. IInv /\ [Next]_vars => IInv'
  BY TypeKept, FamilyKept, FlagInvKept, OwnerInvKept, NumberInvKept,
     FreshInvKept, HolderInvKept DEF IInv
<1>3. QED
  BY <1>1, <1>2, PTL DEF Spec

(***************************************************************************)
(* NothingLeft for any number of starts, in the foreground or the          *)
(* background: whoever exits last has weWroteThePIDFile set, or the file   *)
(* is gone already (xpleventShutdown).                                     *)
(***************************************************************************)
THEOREM FileRemoved == Spec => []NothingLeft
<1>1. IInv => NothingLeft
  BY DEF IInv, OwnerInv, NothingLeft
<1>2. QED
  BY Invariant, <1>1, PTL

(***************************************************************************)
(* FileNamesDaemon for any number of starts in the foreground: the check   *)
(* in main keeps the number of the one that runs in the file.              *)
(***************************************************************************)
THEOREM DaemonNamed == Spec => []FileNamesDaemon
<1>1. IInv => FileNamesDaemon
  BY DEF IInv, HolderInv, Holds, FileNamesDaemon
<1>2. QED
  BY Invariant, <1>1, PTL

(***************************************************************************)
(* RefusedForWriter for any number of starts and of PIDs: unless the       *)
(* number in the file was given once more, the process that kill(pid, 0)   *)
(* finds in UtilPIDRead is one that has written the file.                  *)
(***************************************************************************)
THEOREM NeverRefusedForStale == Spec => RefusedForWriter
<1>1. IInv /\ [Next]_vars =>
        [\A p \in Procs :
           Check(p) /\ pc'[p] = "exit" /\ ~again =>
             \E q \in Procs \ {p} : Exists(q) /\ wrote[q] /\ number[q] = file]_vars
  <2> SUFFICES ASSUME IInv, NEW p \in Procs, Check(p), pc'[p] = "exit", ~again
               PROVE  \E q \in Procs \ {p} : Exists(q) /\ wrote[q] /\ number[q] = file
    OBVIOUS
  <2>1. pc[p] = "check" /\ ~wrote[p] /\ p \in DOMAIN pc
    BY DEF Check, IInv, FlagInv, TypeOK
  <2>2. AlreadyRunning(file)
    BY <2>1 DEF Check, Goto
  <2>3. file \in Numbers /\ file \notin others
    BY <2>2 DEF AlreadyRunning, IInv, FreshInv
  <2>4. PICK q \in Procs : Exists(q) /\ number[q] = file
    BY <2>2, <2>3 DEF AlreadyRunning
  <2>5. wrote[q]
    BY <2>3, <2>4 DEF IInv, FreshInv
  <2>6. QED
    BY <2>1, <2>4, <2>5
<1>2. QED
  BY Invariant, <1>1, PTL DEF Spec, RefusedForWriter

============================================================================

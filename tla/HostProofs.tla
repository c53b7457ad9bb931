------------------------------ MODULE HostProofs ------------------------------
(* What MCHost checks on small instances, for any number of processes, paths, *)
(* texts, messages and calls, and for any capacity of a pipe or a socket: the *)
(* lease on a file, the files that are replaced, read and appended to, and    *)
(* the messages and octets that arrive.                                       *)
EXTENDS MCHost, FiniteSetTheorems, SequenceTheorems, WellFoundedInduction, TLAPS

(* A set of natural numbers has a least element.                              *)
LEMMA LessIsWellFounded == IsWellFoundedOn({p \in Nat \X Nat : p[1] < p[2]}, Nat)
BY NatLessThanWellFounded DEF OpToRel

LEMMA LeastOf ==
  ASSUME NEW S \in SUBSET Nat, S # {}
  PROVE  \E n \in S : \A m \in S : n <= m
<1> DEFINE R == {p \in Nat \X Nat : p[1] < p[2]}
<1>1. IsWellFoundedOn(R, Nat)
  BY LessIsWellFounded
<1>2. PICK x \in S : \A y \in S : <<y, x>> \notin R
  <2> HIDE DEF R
  <2> QED
    BY <1>1, WFMin
<1>3. \A y \in S : x <= y
  <2> SUFFICES ASSUME NEW y \in S PROVE x <= y
    OBVIOUS
  <2>1. ~(y < x)
    BY <1>2
  <2> QED
    BY <2>1
<1> QED
  BY <1>3

-----------------------------------------------------------------------------
(* The lease on a file, for any number of processes and descriptors.          *)

OwnerSteps == {"idle", "low", "open", "closing", "dead"}

(* A process that opens the file has it behind the descriptor it works with,  *)
(* which is not the one it was granted; the file behind the descriptor it was *)
(* granted, and that file only, has the lock.                                 *)
OwnerOk(o, files, what, lock) ==
  /\ what.at \in {"low", "open", "closing"} => what.fd \in Fds /\ files[what.fd] > 0
  /\ what.at = "open" => what.fd > LastStandardFd
  /\ what.at \in {"closing", "dead"} => what.granted = Ungranted
  /\ what.granted # Ungranted =>
       /\ what.granted \in Fds /\ what.granted > LastStandardFd
       /\ what.at \in {"low", "open"} => what.fd # what.granted
       /\ lock > 0 /\ files[what.granted] = lock

FileLeaseInv ==
  /\ opener \in Seq(Owner) /\ flocked \in Nat /\ flocked <= Len(opener)
  /\ descriptor \in [Owner -> [Fds -> {Standard, Closed} \cup Nat]]
  /\ owner \in [Owner -> [at : OwnerSteps, fd : Int, granted : Int]]
  /\ \A o \in Owner :
       /\ OwnerOk(o, descriptor[o], owner[o], flocked)
       /\ \A n \in Fds : descriptor[o][n] > 0 =>
            descriptor[o][n] <= Len(opener) /\ opener[descriptor[o][n]] = o
  /\ flocked # Closed =>
       owner[opener[flocked]].granted # Ungranted \/ owner[opener[flocked]].at = "dead"

LEMMA LowestIsLeast ==
  ASSUME NEW o, NEW from, Free(o, from) # {}
  PROVE  /\ Lowest(Free(o, from)) \in Fds /\ Lowest(Free(o, from)) >= from
         /\ descriptor[o][Lowest(Free(o, from))] = Closed
<1>1. Free(o, from) \in SUBSET Nat
  BY FileLeaseAssumption DEF Free, Fds
<1>2. \E n \in Free(o, from) : \A m \in Free(o, from) : n <= m
  BY <1>1, LeastOf
<1>3. Lowest(Free(o, from)) \in Free(o, from)
  BY <1>2 DEF Lowest
<1> QED
  BY <1>3 DEF Free

(* The lock stays with an open file that somebody has open.                   *)
LEMMA KeptIs ==
  ASSUME NEW lock, NEW files, NEW kids
  PROVE  /\ Kept(lock, files, kids) \in {lock, Closed}
         /\ \A o \in Owner : \A n \in Fds : files[o][n] = lock => Kept(lock, files, kids) = lock
<1>1. \A o \in Owner : \A n \in Fds : files[o][n] \in StillOpen(files, kids)
  <2> SUFFICES ASSUME NEW o \in Owner, NEW n \in Fds PROVE files[o][n] \in StillOpen(files, kids)
    OBVIOUS
  <2>1. files[o][n] \in {files[o][m] : m \in Fds}
    OBVIOUS
  <2> QED
    BY <2>1 DEF StillOpen
<1> QED
  BY <1>1 DEF Kept

(* One process does something: what the others do and have stays, and the     *)
(* lock is kept by whoever was granted it.                                    *)
LEMMA OneOwnerMoves ==
  ASSUME FileLeaseInv, NEW o \in Owner,
         NEW what, NEW files \in [Fds -> {Standard, Closed} \cup Nat],
         owner' = [owner EXCEPT ![o] = what], descriptor' = [descriptor EXCEPT ![o] = files],
         what.fd \in Int, what.granted \in Int,
         what \in [at : OwnerSteps, fd : Int, granted : Int],
         opener' = opener \/ opener' = Append(opener, o),
         OwnerOk(o, files, what, flocked'),
         \A n \in Fds : files[n] > 0 => files[n] <= Len(opener') /\ opener'[files[n]] = o,
         flocked' \in Nat, flocked' <= Len(opener'),
         \A q \in Owner \ {o} : owner[q].granted # Ungranted => flocked' = flocked,
         flocked' # Closed =>
           \/ flocked' = flocked /\ opener[flocked] # o
           \/ opener'[flocked'] = o /\ (what.granted # Ungranted \/ what.at = "dead")
  PROVE  FileLeaseInv'
<1>1. /\ opener \in Seq(Owner) /\ flocked \in Nat /\ flocked <= Len(opener)
      /\ descriptor \in [Owner -> [Fds -> {Standard, Closed} \cup Nat]]
      /\ owner \in [Owner -> [at : OwnerSteps, fd : Int, granted : Int]]
      /\ \A q \in Owner : OwnerOk(q, descriptor[q], owner[q], flocked)
      /\ \A q \in Owner : \A n \in Fds : descriptor[q][n] > 0 =>
           descriptor[q][n] <= Len(opener) /\ opener[descriptor[q][n]] = q
      /\ flocked # Closed =>
           owner[opener[flocked]].granted # Ungranted \/ owner[opener[flocked]].at = "dead"
  BY DEF FileLeaseInv
<1>2. /\ opener' \in Seq(Owner) /\ Len(opener) <= Len(opener')
      /\ \A n \in 1..Len(opener) : opener'[n] = opener[n]
  <2>1. opener \in Seq(Owner) /\ Len(opener) \in Nat
    BY <1>1, LenProperties
  <2>2. CASE opener' = Append(opener, o)
    BY <2>1, <2>2, AppendProperties
  <2> QED
    BY <2>1, <2>2
<1>3. /\ owner' \in [Owner -> [at : OwnerSteps, fd : Int, granted : Int]]
      /\ descriptor' \in [Owner -> [Fds -> {Standard, Closed} \cup Nat]]
      /\ owner'[o] = what /\ descriptor'[o] = files
      /\ \A q \in Owner \ {o} : owner'[q] = owner[q] /\ descriptor'[q] = descriptor[q]
  BY <1>1
<1>4. ASSUME NEW q \in Owner PROVE OwnerOk(q, descriptor'[q], owner'[q], flocked')
  <2>1. CASE q = o
    BY <1>3, <2>1
  <2>2. CASE q # o
    <3>1. OwnerOk(q, descriptor[q], owner[q], flocked)
          /\ (owner[q].granted # Ungranted => flocked' = flocked)
      BY <1>1, <2>2
    <3>2. OwnerOk(q, descriptor[q], owner[q], flocked')
      BY <3>1 DEF OwnerOk
    <3> QED
      BY <1>3, <2>2, <3>2
  <2> QED
    BY <2>1, <2>2
<1>5. ASSUME NEW q \in Owner, NEW n \in Fds, descriptor'[q][n] > 0
      PROVE  descriptor'[q][n] <= Len(opener') /\ opener'[descriptor'[q][n]] = q
  <2>1. CASE q = o
    BY <1>3, <1>5, <2>1
  <2>2. CASE q # o
    <3> DEFINE file == descriptor[q][n]
    <3>1. file > 0 /\ file <= Len(opener) /\ opener[file] = q /\ descriptor'[q][n] = file
      BY <1>1, <1>3, <1>5, <2>2
    <3>2. file \in {Standard, Closed} \cup Nat
      BY <1>1
    <3>3. file \in Nat /\ Len(opener) \in Nat /\ Len(opener') \in Nat
      BY <1>1, <1>2, <3>1, <3>2, LenProperties DEF Standard, Closed
    <3> HIDE DEF file
    <3>4. file \in 1..Len(opener) /\ file <= Len(opener')
      BY <1>2, <3>1, <3>3
    <3> QED
      BY <1>2, <3>1, <3>4
  <2> QED
    BY <2>1, <2>2
<1>6. ASSUME flocked' # Closed
      PROVE  owner'[opener'[flocked']].granted # Ungranted \/ owner'[opener'[flocked']].at = "dead"
  <2>1. CASE flocked' = flocked /\ opener[flocked] # o
    <3>1. flocked \in 1..Len(opener)
      BY <1>1, <1>6, <2>1, LenProperties DEF Closed
    <3>2. opener'[flocked'] = opener[flocked] /\ opener[flocked] \in Owner
      BY <1>1, <1>2, <2>1, <3>1, ElementOfSeq
    <3> QED
      BY <1>1, <1>3, <1>6, <2>1, <3>2
  <2>2. CASE opener'[flocked'] = o /\ (what.granted # Ungranted \/ what.at = "dead")
    BY <1>3, <2>2
  <2> QED
    BY <1>6, <2>1, <2>2
<1> QED
  BY <1>2, <1>3, <1>4, <1>5, <1>6 DEF FileLeaseInv

LEMMA OwnerFacts ==
  ASSUME FileLeaseInv, NEW o \in Owner
  PROVE  /\ opener \in Seq(Owner) /\ Len(opener) \in Nat
         /\ flocked \in Nat /\ flocked <= Len(opener)
         /\ descriptor \in [Owner -> [Fds -> {Standard, Closed} \cup Nat]]
         /\ descriptor[o] \in [Fds -> {Standard, Closed} \cup Nat]
         /\ owner \in [Owner -> [at : OwnerSteps, fd : Int, granted : Int]]
         /\ owner[o] \in [at : OwnerSteps, fd : Int, granted : Int]
         /\ OwnerOk(o, descriptor[o], owner[o], flocked)
         /\ (\A n \in Fds : descriptor[o][n] > 0 =>
               descriptor[o][n] <= Len(opener) /\ opener[descriptor[o][n]] = o)
         /\ (\A q \in Owner : owner[q].granted # Ungranted =>
               /\ flocked > 0 /\ owner[q].granted \in Fds /\ descriptor[q][owner[q].granted] = flocked
               /\ opener[flocked] = q)
         /\ (flocked # Closed =>
               /\ opener[flocked] \in Owner
               /\ owner[opener[flocked]].granted # Ungranted \/ owner[opener[flocked]].at = "dead")
<1>1. /\ opener \in Seq(Owner) /\ Len(opener) \in Nat
      /\ flocked \in Nat /\ flocked <= Len(opener)
      /\ descriptor \in [Owner -> [Fds -> {Standard, Closed} \cup Nat]]
      /\ owner \in [Owner -> [at : OwnerSteps, fd : Int, granted : Int]]
      /\ \A q \in Owner :
           /\ OwnerOk(q, descriptor[q], owner[q], flocked)
           /\ \A n \in Fds : descriptor[q][n] > 0 =>
                descriptor[q][n] <= Len(opener) /\ opener[descriptor[q][n]] = q
  BY LenProperties DEF FileLeaseInv
<1>2. \A q \in Owner : owner[q].granted # Ungranted =>
        /\ flocked > 0 /\ owner[q].granted \in Fds /\ descriptor[q][owner[q].granted] = flocked
        /\ opener[flocked] = q
  <2> SUFFICES ASSUME NEW q \in Owner, owner[q].granted # Ungranted
               PROVE  /\ flocked > 0 /\ owner[q].granted \in Fds
                      /\ descriptor[q][owner[q].granted] = flocked /\ opener[flocked] = q
    OBVIOUS
  <2>1. /\ flocked > 0 /\ owner[q].granted \in Fds /\ descriptor[q][owner[q].granted] = flocked
    BY <1>1 DEF OwnerOk
  <2> QED
    BY <1>1, <2>1
<1>3. flocked # Closed =>
        /\ opener[flocked] \in Owner
        /\ owner[opener[flocked]].granted # Ungranted \/ owner[opener[flocked]].at = "dead"
  <2>1. flocked # Closed => flocked \in 1..Len(opener)
    BY <1>1 DEF Closed
  <2> QED
    BY <1>1, <2>1, ElementOfSeq DEF FileLeaseInv
<1> QED
  BY <1>1, <1>2, <1>3

LEMMA OpenFileKeeps == ASSUME FileLeaseInv, NEW o \in Owner, OpenFile(o) PROVE FileLeaseInv'
<1> DEFINE fd == Lowest(Free(o, 0))
           file == Len(opener) + 1
           files == [descriptor[o] EXCEPT ![fd] = file]
           what == [owner[o] EXCEPT !.fd = fd, !.at = IF fd <= LastStandardFd THEN "low" ELSE "open"]
<1>1. /\ owner[o].at = "idle" /\ Free(o, 0) # {} /\ UNCHANGED flocked
      /\ descriptor' = [descriptor EXCEPT ![o][fd] = file]
      /\ owner' = [owner EXCEPT ![o].fd = fd, ![o].at = IF fd <= LastStandardFd THEN "low" ELSE "open"]
      /\ opener' = Append(opener, o)
  BY DEF OpenFile
<1>2. fd \in Fds /\ descriptor[o][fd] = Closed /\ fd \in Int
  BY <1>1, LowestIsLeast, FileLeaseAssumption DEF Fds
<1>3. /\ opener \in Seq(Owner) /\ Len(opener) \in Nat /\ flocked \in Nat /\ flocked <= Len(opener)
      /\ descriptor \in [Owner -> [Fds -> {Standard, Closed} \cup Nat]]
      /\ descriptor[o] \in [Fds -> {Standard, Closed} \cup Nat]
      /\ owner \in [Owner -> [at : OwnerSteps, fd : Int, granted : Int]]
      /\ owner[o] \in [at : OwnerSteps, fd : Int, granted : Int]
      /\ OwnerOk(o, descriptor[o], owner[o], flocked)
      /\ (\A n \in Fds : descriptor[o][n] > 0 =>
            descriptor[o][n] <= Len(opener) /\ opener[descriptor[o][n]] = o)
      /\ (flocked # Closed =>
            /\ opener[flocked] \in Owner
            /\ owner[opener[flocked]].granted # Ungranted \/ owner[opener[flocked]].at = "dead")
  BY OwnerFacts
<1>4. descriptor' = [descriptor EXCEPT ![o] = files] /\ owner' = [owner EXCEPT ![o] = what]
  BY <1>1, <1>3
<1>5. /\ what \in [at : OwnerSteps, fd : Int, granted : Int]
      /\ what.at = (IF fd <= LastStandardFd THEN "low" ELSE "open") /\ what.fd = fd
      /\ what.granted = owner[o].granted
  BY <1>2, <1>3 DEF OwnerSteps
<1>6. file \in Nat /\ file > 0
  BY <1>3
<1>7. files \in [Fds -> {Standard, Closed} \cup Nat] /\ files[fd] = file
      /\ \A n \in Fds \ {fd} : files[n] = descriptor[o][n]
  BY <1>2, <1>3, <1>6
<1>8. Len(opener') = file /\ opener'[file] = o /\ \A n \in 1..Len(opener) : opener'[n] = opener[n]
  BY <1>1, <1>3, AppendProperties
<1> HIDE DEF files, what, file, fd
<1>9. OwnerOk(o, files, what, flocked')
  <2>1. /\ what.at \in {"low", "open"} /\ files[what.fd] > 0 /\ what.fd \in Fds
        /\ what.at = "open" => what.fd > LastStandardFd
    BY <1>2, <1>5, <1>6, <1>7 DEF LastStandardFd
  <2>2. owner[o].granted # Ungranted =>
           /\ owner[o].granted \in Fds /\ owner[o].granted > LastStandardFd
           /\ flocked > 0 /\ descriptor[o][owner[o].granted] = flocked
    BY <1>3 DEF OwnerOk
  <2>3. owner[o].granted # Ungranted => owner[o].granted # fd
    BY <1>2, <2>2 DEF Closed
  <2> QED
    BY <1>1, <1>5, <1>7, <2>1, <2>2, <2>3 DEF OwnerOk
<1>10. \A n \in Fds : files[n] > 0 => files[n] <= Len(opener') /\ opener'[files[n]] = o
  <2> SUFFICES ASSUME NEW n \in Fds, files[n] > 0
               PROVE  files[n] <= Len(opener') /\ opener'[files[n]] = o
    OBVIOUS
  <2>1. CASE n = fd
    BY <1>6, <1>7, <1>8, <2>1
  <2>2. CASE n # fd
    <3>1. files[n] \in Nat /\ files[n] <= Len(opener) /\ opener[files[n]] = o
      BY <1>3, <1>7, <2>2 DEF Standard, Closed
    <3>2. files[n] \in 1..Len(opener) /\ files[n] <= Len(opener')
      BY <1>3, <1>8, <3>1 DEF file
    <3> QED
      BY <1>8, <3>1, <3>2
  <2> QED
    BY <2>1, <2>2
<1>11. flocked' # Closed =>
         \/ flocked' = flocked /\ opener[flocked] # o
         \/ opener'[flocked'] = o /\ (what.granted # Ungranted \/ what.at = "dead")
  <2>1. flocked # Closed => flocked \in 1..Len(opener)
    BY <1>3 DEF Closed
  <2> QED
    BY <1>1, <1>3, <1>5, <1>8, <2>1
<1>12. flocked' \in Nat /\ flocked' <= Len(opener')
  BY <1>1, <1>3, <1>8 DEF file
<1>13. what.fd \in Int /\ what.granted \in Int
  BY <1>5
<1> QED
  BY <1>1, <1>4, <1>5, <1>7, <1>9, <1>10, <1>11, <1>12, <1>13, OneOwnerMoves

(* A step of a process that takes no new open file.                           *)
LEMMA SameFilesMove ==
  ASSUME FileLeaseInv, NEW o \in Owner, NEW what \in [at : OwnerSteps, fd : Int, granted : Int],
         NEW files \in [Fds -> {Standard, Closed} \cup Nat],
         \A n \in Fds : files[n] > 0 => \E m \in Fds : files[n] = descriptor[o][m],
         owner' = [owner EXCEPT ![o] = what], descriptor' = [descriptor EXCEPT ![o] = files],
         UNCHANGED opener, OwnerOk(o, files, what, flocked'),
         flocked' \in Nat, flocked' <= Len(opener),
         \A q \in Owner \ {o} : owner[q].granted # Ungranted => flocked' = flocked,
         flocked' # Closed =>
           \/ flocked' = flocked /\ opener[flocked] # o
           \/ opener[flocked'] = o /\ (what.granted # Ungranted \/ what.at = "dead")
  PROVE  FileLeaseInv'
<1>1. \A n \in Fds : descriptor[o][n] > 0 =>
        descriptor[o][n] <= Len(opener) /\ opener[descriptor[o][n]] = o
  BY OwnerFacts
<1>2. \A n \in Fds : files[n] > 0 => files[n] <= Len(opener') /\ opener'[files[n]] = o
  BY <1>1
<1>3. what.fd \in Int /\ what.granted \in Int
  OBVIOUS
<1> QED
  BY <1>2, <1>3, OneOwnerMoves

LEMMA MoveUpKeeps == ASSUME FileLeaseInv, NEW o \in Owner, MoveUp(o) PROVE FileLeaseInv'
<1> DEFINE fd == owner[o].fd
<1>1. /\ owner[o].at = "low" /\ UNCHANGED <<child, flocked, opener>>
  BY DEF MoveUp
<1>2. /\ flocked \in Nat /\ flocked <= Len(opener)
      /\ descriptor \in [Owner -> [Fds -> {Standard, Closed} \cup Nat]]
      /\ descriptor[o] \in [Fds -> {Standard, Closed} \cup Nat]
      /\ owner \in [Owner -> [at : OwnerSteps, fd : Int, granted : Int]]
      /\ owner[o] \in [at : OwnerSteps, fd : Int, granted : Int]
      /\ OwnerOk(o, descriptor[o], owner[o], flocked)
      /\ (flocked # Closed =>
            /\ opener[flocked] \in Owner
            /\ owner[opener[flocked]].granted # Ungranted \/ owner[opener[flocked]].at = "dead")
  BY OwnerFacts
<1>3. /\ fd \in Fds /\ descriptor[o][fd] > 0 /\ owner[o].granted \in Int
      /\ owner[o].granted # Ungranted =>
           /\ owner[o].granted \in Fds /\ owner[o].granted > LastStandardFd
           /\ fd # owner[o].granted /\ flocked > 0 /\ descriptor[o][owner[o].granted] = flocked
  BY <1>1, <1>2 DEF OwnerOk
<1>4. flocked # Closed =>
         \/ opener[flocked] # o
         \/ opener[flocked] = o /\ owner[o].granted # Ungranted
  BY <1>1, <1>2
<1>5. /\ UNCHANGED opener /\ flocked' \in Nat /\ flocked' <= Len(opener)
      /\ \A q \in Owner \ {o} : owner[q].granted # Ungranted => flocked' = flocked
  BY <1>1, <1>2
<1>6. CASE Free(o, LastStandardFd + 1) = {}
  <2> DEFINE files == [descriptor[o] EXCEPT ![fd] = Closed]
             what == [owner[o] EXCEPT !.at = "idle"]
  <2>1. descriptor' = [descriptor EXCEPT ![o] = files] /\ owner' = [owner EXCEPT ![o] = what]
    BY <1>2, <1>6 DEF MoveUp, CloseFd
  <2>2. /\ what \in [at : OwnerSteps, fd : Int, granted : Int] /\ what.at = "idle"
        /\ what.granted = owner[o].granted
    BY <1>2 DEF OwnerSteps
  <2>3. files \in [Fds -> {Standard, Closed} \cup Nat] /\ files[fd] = Closed
        /\ \A n \in Fds \ {fd} : files[n] = descriptor[o][n]
    BY <1>2, <1>3
  <2>4. \A n \in Fds : files[n] > 0 => \E m \in Fds : files[n] = descriptor[o][m]
    BY <2>3 DEF Closed
  <2> HIDE DEF files, what
  <2>5. OwnerOk(o, files, what, flocked')
    BY <1>1, <1>3, <2>2, <2>3 DEF OwnerOk
  <2>6. flocked' # Closed =>
           \/ flocked' = flocked /\ opener[flocked] # o
           \/ opener[flocked'] = o /\ (what.granted # Ungranted \/ what.at = "dead")
    BY <1>1, <1>4, <2>2
  <2> QED
    BY <1>5, <2>1, <2>2, <2>3, <2>4, <2>5, <2>6, SameFilesMove
<1>7. CASE Free(o, LastStandardFd + 1) # {}
  <2> DEFINE higher == Lowest(Free(o, LastStandardFd + 1))
             files == [descriptor[o] EXCEPT ![higher] = descriptor[o][fd], ![fd] = Closed]
             what == [owner[o] EXCEPT !.fd = higher, !.at = "open"]
  <2>1. higher \in Fds /\ higher >= LastStandardFd + 1 /\ descriptor[o][higher] = Closed
    BY <1>7, LowestIsLeast
  <2>2. descriptor' = [descriptor EXCEPT ![o] = files] /\ owner' = [owner EXCEPT ![o] = what]
    <3>1. /\ descriptor' = [descriptor EXCEPT ![o][higher] = descriptor[o][fd], ![o][fd] = Closed]
          /\ owner' = [owner EXCEPT ![o].fd = higher, ![o].at = "open"]
      BY <1>7 DEF MoveUp
    <3> QED
      BY <1>2, <3>1
  <2>3. higher \in Int
    BY <2>1 DEF Fds
  <2>4. /\ what \in [at : OwnerSteps, fd : Int, granted : Int] /\ what.at = "open"
        /\ what.granted = owner[o].granted /\ what.fd = higher
    BY <1>2, <2>3 DEF OwnerSteps
  <2>5. higher # fd
    BY <1>3, <2>1 DEF Closed
  <2>6. files \in [Fds -> {Standard, Closed} \cup Nat] /\ files[fd] = Closed
        /\ files[higher] = descriptor[o][fd]
        /\ \A n \in Fds \ {fd, higher} : files[n] = descriptor[o][n]
    BY <1>2, <1>3, <2>1, <2>5
  <2>7. \A n \in Fds : files[n] > 0 => \E m \in Fds : files[n] = descriptor[o][m]
    BY <1>3, <2>6 DEF Closed
  <2>8. owner[o].granted # Ungranted => owner[o].granted # higher
    BY <1>3, <2>1 DEF Closed
  <2>9. higher > LastStandardFd
    BY <2>1, <2>3 DEF LastStandardFd
  <2> HIDE DEF files, what, higher
  <2>10. OwnerOk(o, files, what, flocked')
    <3>1. what.fd \in Fds /\ what.fd > LastStandardFd /\ files[what.fd] > 0
      BY <1>3, <2>1, <2>4, <2>6, <2>9
    <3>2. what.at = "open" /\ what.granted = owner[o].granted
      BY <2>4
    <3>3. ASSUME owner[o].granted # Ungranted
          PROVE  /\ owner[o].granted \in Fds /\ owner[o].granted > LastStandardFd
                 /\ higher # owner[o].granted /\ flocked' > 0
                 /\ files[owner[o].granted] = flocked'
      <4>1. /\ owner[o].granted \in Fds /\ owner[o].granted > LastStandardFd
            /\ owner[o].granted # fd /\ flocked > 0 /\ descriptor[o][owner[o].granted] = flocked
        BY <1>1, <1>3, <3>3 DEF OwnerOk
      <4>2. files[owner[o].granted] = descriptor[o][owner[o].granted]
        BY <2>6, <2>8, <3>3, <4>1
      <4> QED
        BY <1>1, <2>8, <3>3, <4>1, <4>2
    <3> QED
      BY <2>4, <3>1, <3>2, <3>3 DEF OwnerOk
  <2>11. flocked' # Closed =>
           \/ flocked' = flocked /\ opener[flocked] # o
           \/ opener[flocked'] = o /\ (what.granted # Ungranted \/ what.at = "dead")
    BY <1>1, <1>4, <2>4
  <2> QED
    BY <1>5, <2>2, <2>4, <2>6, <2>7, <2>10, <2>11, SameFilesMove
<1> QED
  BY <1>6, <1>7

LEMMA LockKeeps == ASSUME FileLeaseInv, NEW o \in Owner, Lock(o) PROVE FileLeaseInv'
<1> DEFINE fd == owner[o].fd
<1>1. owner[o].at = "open" /\ UNCHANGED <<child, opener>>
  BY DEF Lock
<1>2. /\ flocked \in Nat /\ flocked <= Len(opener)
      /\ descriptor \in [Owner -> [Fds -> {Standard, Closed} \cup Nat]]
      /\ descriptor[o] \in [Fds -> {Standard, Closed} \cup Nat]
      /\ owner \in [Owner -> [at : OwnerSteps, fd : Int, granted : Int]]
      /\ owner[o] \in [at : OwnerSteps, fd : Int, granted : Int]
      /\ OwnerOk(o, descriptor[o], owner[o], flocked)
      /\ (\A n \in Fds : descriptor[o][n] > 0 =>
            descriptor[o][n] <= Len(opener) /\ opener[descriptor[o][n]] = o)
      /\ (\A q \in Owner : owner[q].granted # Ungranted => flocked > 0)
      /\ (flocked # Closed =>
            /\ opener[flocked] \in Owner
            /\ owner[opener[flocked]].granted # Ungranted \/ owner[opener[flocked]].at = "dead")
  BY OwnerFacts
<1>3. /\ fd \in Fds /\ fd > LastStandardFd /\ descriptor[o][fd] > 0 /\ owner[o].granted \in Int
      /\ owner[o].granted # Ungranted =>
           /\ owner[o].granted \in Fds /\ owner[o].granted > LastStandardFd
           /\ fd # owner[o].granted /\ flocked > 0 /\ descriptor[o][owner[o].granted] = flocked
  BY <1>1, <1>2 DEF OwnerOk
<1>4. CASE flocked = Closed
  <2> DEFINE what == [owner[o] EXCEPT !.at = "idle", !.granted = fd]
             file == descriptor[o][fd]
  <2>1. /\ flocked' = file /\ owner' = [owner EXCEPT ![o] = what] /\ UNCHANGED descriptor
    BY <1>2, <1>4 DEF Lock
  <2>2. fd \in Int /\ fd # Ungranted
    BY <1>3, FileLeaseAssumption DEF Fds, Ungranted
  <2>3. /\ what \in [at : OwnerSteps, fd : Int, granted : Int] /\ what.at = "idle"
        /\ what.granted = fd
    BY <1>2, <2>2 DEF OwnerSteps
  <2>4. file \in Nat /\ file > 0 /\ file <= Len(opener) /\ opener[file] = o
    BY <1>2, <1>3 DEF Standard, Closed
  <2>5. descriptor' = [descriptor EXCEPT ![o] = descriptor[o]]
    BY <1>2, <2>1
  <2> HIDE DEF what, file
  <2>6. OwnerOk(o, descriptor[o], what, flocked')
    BY <1>3, <2>1, <2>3, <2>4 DEF OwnerOk, file
  <2>7. \A q \in Owner : owner[q].granted = Ungranted
    BY <1>2, <1>4 DEF Closed
  <2>8. opener[flocked'] = o /\ what.granted # Ungranted
    BY <2>1, <2>2, <2>3, <2>4
  <2> QED
    BY <1>1, <1>2, <2>1, <2>3, <2>4, <2>5, <2>6, <2>7, <2>8, SameFilesMove
<1>5. CASE flocked # Closed
  <2> DEFINE files == [descriptor[o] EXCEPT ![fd] = Closed]
             what == [owner[o] EXCEPT !.at = "idle"]
  <2>1. descriptor' = [descriptor EXCEPT ![o] = files] /\ owner' = [owner EXCEPT ![o] = what]
        /\ flocked' = flocked
    BY <1>2, <1>5 DEF Lock, CloseFd
  <2>2. /\ what \in [at : OwnerSteps, fd : Int, granted : Int] /\ what.at = "idle"
        /\ what.granted = owner[o].granted
    BY <1>2 DEF OwnerSteps
  <2>3. files \in [Fds -> {Standard, Closed} \cup Nat] /\ files[fd] = Closed
        /\ \A n \in Fds \ {fd} : files[n] = descriptor[o][n]
    BY <1>2, <1>3
  <2>4. \A n \in Fds : files[n] > 0 => \E m \in Fds : files[n] = descriptor[o][m]
    BY <2>3 DEF Closed
  <2>5. opener[flocked] # o \/ (opener[flocked] = o /\ owner[o].granted # Ungranted)
    BY <1>1, <1>2, <1>5
  <2> HIDE DEF files, what
  <2>6. OwnerOk(o, files, what, flocked')
    BY <1>3, <2>1, <2>2, <2>3 DEF OwnerOk
  <2> QED
    BY <1>1, <1>2, <2>1, <2>2, <2>3, <2>4, <2>5, <2>6, SameFilesMove
<1> QED
  BY <1>4, <1>5

LEMMA UnlockKeeps == ASSUME FileLeaseInv, NEW o \in Owner, Unlock(o) PROVE FileLeaseInv'
<1> DEFINE fd == owner[o].granted
           what == [at |-> "closing", fd |-> fd, granted |-> Ungranted]
<1>1. /\ owner[o].at = "idle" /\ fd > LastStandardFd /\ flocked' = LockGiven(descriptor[o][fd])
      /\ owner' = [owner EXCEPT ![o] = what] /\ UNCHANGED <<descriptor, child, opener>>
  BY DEF Unlock
<1>2. /\ flocked \in Nat /\ flocked <= Len(opener)
      /\ descriptor \in [Owner -> [Fds -> {Standard, Closed} \cup Nat]]
      /\ descriptor[o] \in [Fds -> {Standard, Closed} \cup Nat]
      /\ owner[o] \in [at : OwnerSteps, fd : Int, granted : Int]
      /\ (\A q \in Owner : owner[q].granted # Ungranted =>
            /\ flocked > 0 /\ owner[q].granted \in Fds /\ descriptor[q][owner[q].granted] = flocked
            /\ opener[flocked] = q)
  BY OwnerFacts
<1>3. fd \in Int /\ fd # Ungranted
  BY <1>1, <1>2 DEF Ungranted, LastStandardFd
<1>4. fd \in Fds /\ descriptor[o][fd] = flocked /\ flocked > 0
  BY <1>2, <1>3
<1>5. flocked' = Closed /\ Closed \in Nat /\ Closed <= Len(opener)
  <2>1. flocked' = Closed
    BY <1>1, <1>4 DEF LockGiven
  <2> QED
    BY <1>2, <2>1 DEF Closed
<1>6. \A q \in Owner \ {o} : owner[q].granted = Ungranted
  BY <1>2, <1>3
<1>7. what \in [at : OwnerSteps, fd : Int, granted : Int]
  BY <1>3 DEF OwnerSteps, Ungranted
<1>8. OwnerOk(o, descriptor[o], what, flocked')
  BY <1>4 DEF OwnerOk, Ungranted
<1>9. descriptor' = [descriptor EXCEPT ![o] = descriptor[o]]
  BY <1>1, <1>2
<1> HIDE DEF what
<1>10. /\ descriptor[o] \in [Fds -> {Standard, Closed} \cup Nat] /\ UNCHANGED opener
       /\ owner' = [owner EXCEPT ![o] = what]
       /\ \A n \in Fds : descriptor[o][n] > 0 => \E m \in Fds : descriptor[o][n] = descriptor[o][m]
  BY <1>1, <1>2
<1>11. flocked' \in Nat /\ flocked' <= Len(opener) /\ ~(flocked' # Closed)
  BY <1>5
<1> QED
  BY <1>6, <1>7, <1>8, <1>9, <1>10, <1>11, SameFilesMove

LEMMA CloseLeaseKeeps == ASSUME FileLeaseInv, NEW o \in Owner, CloseLease(o) PROVE FileLeaseInv'
<1> DEFINE fd == owner[o].fd
           files == [descriptor[o] EXCEPT ![fd] = Closed]
           what == [owner[o] EXCEPT !.at = "idle"]
<1>1. /\ owner[o].at = "closing" /\ descriptor' = [descriptor EXCEPT ![o][fd] = Closed]
      /\ flocked' = Kept(flocked, descriptor', child) /\ UNCHANGED <<child, opener>>
      /\ owner' = [owner EXCEPT ![o].at = "idle"]
  BY DEF CloseLease, CloseFd
<1>2. /\ flocked \in Nat /\ flocked <= Len(opener)
      /\ descriptor \in [Owner -> [Fds -> {Standard, Closed} \cup Nat]]
      /\ descriptor[o] \in [Fds -> {Standard, Closed} \cup Nat]
      /\ owner \in [Owner -> [at : OwnerSteps, fd : Int, granted : Int]]
      /\ owner[o] \in [at : OwnerSteps, fd : Int, granted : Int]
      /\ OwnerOk(o, descriptor[o], owner[o], flocked)
      /\ (\A q \in Owner : owner[q].granted # Ungranted =>
            /\ flocked > 0 /\ owner[q].granted \in Fds /\ descriptor[q][owner[q].granted] = flocked)
      /\ (flocked # Closed =>
            /\ opener[flocked] \in Owner
            /\ owner[opener[flocked]].granted # Ungranted \/ owner[opener[flocked]].at = "dead")
  BY OwnerFacts
<1>3. fd \in Fds /\ owner[o].granted = Ungranted
  BY <1>1, <1>2 DEF OwnerOk
<1>4. descriptor' = [descriptor EXCEPT ![o] = files] /\ owner' = [owner EXCEPT ![o] = what]
  BY <1>1, <1>2
<1>5. /\ what \in [at : OwnerSteps, fd : Int, granted : Int] /\ what.at = "idle"
      /\ what.granted = Ungranted
  BY <1>2, <1>3 DEF OwnerSteps
<1>6. files \in [Fds -> {Standard, Closed} \cup Nat] /\ files[fd] = Closed
      /\ \A n \in Fds \ {fd} : files[n] = descriptor[o][n]
  BY <1>2, <1>3
<1>7. \A n \in Fds : files[n] > 0 => \E m \in Fds : files[n] = descriptor[o][m]
  BY <1>6 DEF Closed
<1> HIDE DEF files, what
<1>8. flocked' \in {flocked, Closed}
  BY <1>1, KeptIs
<1>9. \A q \in Owner \ {o} : owner[q].granted # Ungranted => flocked' = flocked
  <2> SUFFICES ASSUME NEW q \in Owner \ {o}, owner[q].granted # Ungranted
               PROVE  flocked' = flocked
    OBVIOUS
  <2> DEFINE now == descriptor'
  <2>1. owner[q].granted \in Fds /\ now[q][owner[q].granted] = flocked
    BY <1>2, <1>4
  <2>2. flocked' = Kept(flocked, now, child)
    BY <1>1
  <2> HIDE DEF now
  <2>3. Kept(flocked, now, child) = flocked
    BY <2>1, KeptIs
  <2> QED
    BY <2>2, <2>3
<1>10. OwnerOk(o, files, what, flocked')
  BY <1>5 DEF OwnerOk
<1>11. flocked' # Closed => flocked' = flocked /\ opener[flocked] # o
  BY <1>1, <1>2, <1>3, <1>8
<1>12. flocked' \in Nat /\ flocked' <= Len(opener)
  BY <1>2, <1>8, LenProperties DEF Closed
<1>13. UNCHANGED opener
  BY <1>1
<1> QED
  BY <1>4, <1>5, <1>6, <1>7, <1>9, <1>10, <1>11, <1>12, <1>13, SameFilesMove

LEMMA PerishKeeps == ASSUME FileLeaseInv, NEW o \in Owner, Perish(o) PROVE FileLeaseInv'
<1> DEFINE files == [n \in Fds |-> Closed]
           what == [Outside EXCEPT !.at = "dead"]
<1>1. /\ descriptor' = [descriptor EXCEPT ![o] = files] /\ owner' = [owner EXCEPT ![o] = what]
      /\ flocked' = Kept(flocked, descriptor', child) /\ UNCHANGED opener
  BY DEF Perish
<1>2. /\ flocked \in Nat /\ flocked <= Len(opener)
      /\ descriptor \in [Owner -> [Fds -> {Standard, Closed} \cup Nat]]
      /\ (\A q \in Owner : owner[q].granted # Ungranted =>
            /\ flocked > 0 /\ owner[q].granted \in Fds /\ descriptor[q][owner[q].granted] = flocked)
  BY OwnerFacts
<1>3. /\ what \in [at : OwnerSteps, fd : Int, granted : Int] /\ what.at = "dead"
      /\ what.granted = Ungranted
  BY DEF OwnerSteps, Outside, Ungranted
<1>4. files \in [Fds -> {Standard, Closed} \cup Nat] /\ \A n \in Fds : ~(files[n] > 0)
  BY DEF Closed
<1>5. flocked' \in {flocked, Closed}
  BY <1>1, KeptIs
<1>6. \A q \in Owner \ {o} : owner[q].granted # Ungranted => flocked' = flocked
  <2> SUFFICES ASSUME NEW q \in Owner \ {o}, owner[q].granted # Ungranted
               PROVE  flocked' = flocked
    OBVIOUS
  <2>1. owner[q].granted \in Fds /\ descriptor'[q][owner[q].granted] = flocked
    BY <1>1, <1>2
  <2> QED
    BY <1>1, <2>1, KeptIs
<1> HIDE DEF files, what
<1>7. OwnerOk(o, files, what, flocked')
  BY <1>3 DEF OwnerOk
<1>8. flocked' # Closed =>
        \/ flocked' = flocked /\ opener[flocked] # o
        \/ opener[flocked'] = o /\ (what.granted # Ungranted \/ what.at = "dead")
  BY <1>3, <1>5
<1>9. flocked' \in Nat /\ flocked' <= Len(opener)
  BY <1>2, <1>5, LenProperties, OwnerFacts DEF Closed
<1> QED
  BY <1>1, <1>3, <1>4, <1>6, <1>7, <1>8, <1>9, SameFilesMove

LEMMA EndChildKeeps == ASSUME FileLeaseInv, NEW o \in Owner, EndChild(o) PROVE FileLeaseInv'
<1>1. flocked' = Kept(flocked, descriptor, child') /\ UNCHANGED <<descriptor, opener, owner>>
  BY DEF EndChild
<1>2. flocked' \in {flocked, Closed}
  BY <1>1, KeptIs
<1>3. \A q \in Owner : owner[q].granted # Ungranted => flocked' = flocked
  <2> SUFFICES ASSUME NEW q \in Owner, owner[q].granted # Ungranted
               PROVE  flocked' = flocked
    OBVIOUS
  <2>1. owner[q].granted \in Fds /\ descriptor[q][owner[q].granted] = flocked
    BY OwnerFacts
  <2> QED
    BY <1>1, <2>1, KeptIs
<1>4. \A q \in Owner : OwnerOk(q, descriptor[q], owner[q], flocked')
  <2> SUFFICES ASSUME NEW q \in Owner PROVE OwnerOk(q, descriptor[q], owner[q], flocked')
    OBVIOUS
  <2>1. OwnerOk(q, descriptor[q], owner[q], flocked)
    BY DEF FileLeaseInv
  <2> QED
    BY <1>3, <2>1 DEF OwnerOk
<1>5. flocked' \in Nat /\ flocked' <= Len(opener)
  BY <1>2, OwnerFacts, LenProperties DEF Closed, FileLeaseInv
<1>6. flocked' # Closed =>
        owner[opener[flocked']].granted # Ungranted \/ owner[opener[flocked']].at = "dead"
  BY <1>2 DEF FileLeaseInv
<1> QED
  BY <1>1, <1>4, <1>5, <1>6 DEF FileLeaseInv

(* The invariant of the lease.                                                *)
LEMMA FileLeaseInit1 == FileLeaseInit => FileLeaseInv
<1> SUFFICES ASSUME FileLeaseInit PROVE FileLeaseInv
  OBVIOUS
<1>1. /\ opener = <<>> /\ flocked = Closed /\ owner = [o \in Owner |-> Outside]
      /\ descriptor \in [Owner -> {[n \in Fds |-> IF n \in open THEN Standard ELSE Closed] :
                                 open \in {{}, {1, 2}, 0..LastStandardFd}}]
  BY DEF FileLeaseInit
<1>2. opener \in Seq(Owner) /\ Len(opener) = 0
  BY <1>1, EmptySeq
<1>3. Outside \in [at : OwnerSteps, fd : Int, granted : Int] /\ Outside.at = "idle"
      /\ Outside.granted = Ungranted
  BY DEF Outside, OwnerSteps, Ungranted
<1>4. \A o \in Owner : OwnerOk(o, descriptor[o], owner[o], flocked)
  BY <1>1, <1>3 DEF OwnerOk
<1>5. ASSUME NEW o \in Owner
      PROVE  descriptor[o] \in [Fds -> {Standard, Closed}]
  <2>1. PICK open \in {{}, {1, 2}, 0..LastStandardFd} :
          descriptor[o] = [n \in Fds |-> IF n \in open THEN Standard ELSE Closed]
    BY <1>1
  <2> QED
    BY <2>1
<1>6. \A o \in Owner : \A n \in Fds : ~(descriptor[o][n] > 0)
  BY <1>5 DEF Standard, Closed
<1>7. descriptor \in [Owner -> [Fds -> {Standard, Closed} \cup Nat]]
  BY <1>1, <1>5
<1> QED
  BY <1>1, <1>2, <1>3, <1>4, <1>6, <1>7 DEF FileLeaseInv, Closed

LEMMA FileLeaseStep == FileLeaseInv /\ [FileLeaseNext]_leaseVars => FileLeaseInv'
<1> SUFFICES ASSUME FileLeaseInv, [FileLeaseNext]_leaseVars PROVE FileLeaseInv'
  OBVIOUS
<1>1. ASSUME NEW o \in Owner, Fork(o) PROVE FileLeaseInv'
  BY <1>1 DEF Fork, FileLeaseInv
<1>2. CASE UNCHANGED leaseVars
  BY <1>2 DEF leaseVars, FileLeaseInv
<1> QED
  BY <1>1, <1>2, OpenFileKeeps, MoveUpKeeps, LockKeeps, UnlockKeeps, CloseLeaseKeeps,
     EndChildKeeps, PerishKeeps DEF FileLeaseNext

LEMMA LeaseFollows == FileLeaseInv => LeaseIsExclusive
<1> SUFFICES ASSUME FileLeaseInv PROVE LeaseIsExclusive
  OBVIOUS
<1>1. \A q \in Owner : owner[q].granted # Ungranted =>
        /\ flocked > 0 /\ owner[q].granted \in Fds /\ descriptor[q][owner[q].granted] = flocked
        /\ opener[flocked] = q /\ owner[q].granted > LastStandardFd
  <2> SUFFICES ASSUME NEW q \in Owner, owner[q].granted # Ungranted
               PROVE  /\ flocked > 0 /\ owner[q].granted \in Fds
                      /\ descriptor[q][owner[q].granted] = flocked
                      /\ opener[flocked] = q /\ owner[q].granted > LastStandardFd
    OBVIOUS
  <2>1. OwnerOk(q, descriptor[q], owner[q], flocked)
    BY DEF FileLeaseInv
  <2> QED
    BY <2>1, OwnerFacts DEF OwnerOk
<1>2. flocked \in Nat
  BY DEF FileLeaseInv
<1>3. flocked # Closed =>
        owner[opener[flocked]].granted # Ungranted \/ owner[opener[flocked]].at = "dead"
  BY DEF FileLeaseInv
<1> QED
  BY <1>1, <1>2, <1>3 DEF LeaseIsExclusive, Closed

-----------------------------------------------------------------------------
(* Files, for any number of processes, paths, texts and calls.                *)

Node == {file \in [data : Seq(Texts), synced : Nat] : file.synced <= Len(file.data)}
Making == {"write", "sync", "rename"}
CallStages == Making \cup {"idle", "make", "open", "read", "append"}
CallResults == {"none", "error", "ok", "toobig", "durable"}
FileCalls ==
  [at : CallStages, id : Nat, path : Path \cup {NoFile}, text : Texts \cup {NoFile},
   inode : Nat, done : Nat, buffer : Seq(Texts), capacity : Nat, bound : Nat,
   result : CallResults]

(* A file that is finished is one whole text, on the disk; a file that        *)
(* somebody may see is finished and nobody writes it.                         *)
Finished(file) == file.synced = Len(file.data) /\ \E t \in Texts : file.data = Whole(t)
FrozenIn(i, nodes, siblings) ==
  i \in DOMAIN nodes /\ Finished(nodes[i]) /\ \A g \in Program : siblings[g] # i
Frozen(i) == FrozenIn(i, inode, temporary)

(* The sibling of a process that writes holds as much as it has written.      *)
WriterOk(file, call, nodes) ==
  /\ call.at \in Making <=> file # NoFile
  /\ call.at \in Making =>
       /\ file \in DOMAIN nodes
       /\ call.at = "write" =>
            call.done <= Size[call.text] /\ nodes[file].data = [i \in 1..call.done |-> call.text]
       /\ call.at \in {"sync", "rename"} => nodes[file].data = Whole(call.text)
       /\ call.at = "rename" => nodes[file].synced = Len(nodes[file].data)
  /\ call.at \in Making \cup {"make"} => call.text \in Texts /\ call.path \in Path /\ call.inode = NoFile
  /\ call.at = "make" => call.done = 0

(* What a read has is the beginning of the file, within its room.             *)
ReaderOk(call, nodes) ==
  /\ call.at # "idle" => call.result = "none"
  /\ call.at = "read" => call.inode # NoFile /\ call.bound \in Nat
  /\ call.at = "open" => call.path \in Path
  /\ call.at \in {"open", "read"} => Len(call.buffer) <= call.capacity /\ call.capacity <= call.bound
  /\ call.at = "open" => call.buffer = <<>> /\ call.inode = NoFile
  /\ call.inode # NoFile =>
       LET data == nodes[call.inode].data
       IN  /\ call.at \in {"read", "idle"}
           /\ Len(call.buffer) <= Len(data) /\ call.buffer = SubSeq(data, 1, Len(call.buffer))
           /\ call.result = "ok" => Len(call.buffer) = Len(data) /\ Len(data) <= call.bound
           /\ call.result = "toobig" => Len(data) > call.bound

(* What has been appended of a call is in the journal; all of it is on the    *)
(* disk once the call has said so.                                            *)
Appended(id, log) == {i \in 1..Len(log.data) : log.data[i] = id}
AppenderOk(call, log) ==
  /\ call.at = "append" \/ call.result = "durable" =>
       call.text \in Texts /\ call.id > 0 /\ call.inode = NoFile
  /\ call.at = "append" =>
       call.done <= Size[call.text] /\ Cardinality(Appended(call.id, log)) = call.done
  /\ call.result = "durable" =>
       /\ call.at = "idle" /\ Appended(call.id, log) \subseteq 1..log.synced
       /\ Cardinality(Appended(call.id, log)) = Size[call.text]
JournalOk(log, n) ==
  /\ log \in [data : Seq(Nat), synced : Nat] /\ log.synced <= Len(log.data)
  /\ \A i \in 1..Len(log.data) : log.data[i] <= n

FilesInv ==
  /\ inode \in Seq(Node) /\ entry \in past /\ past \subseteq [Path -> Nat]
  /\ \A d \in past : \A p \in Path : d[p] # NoFile => Frozen(d[p])
  /\ temporary \in [Program -> Nat] /\ program \in [Program -> FileCalls]
  /\ \A g \in Program : /\ WriterOk(temporary[g], program[g], inode)
                        /\ ReaderOk(program[g], inode)
                        /\ AppenderOk(program[g], journal)
                        /\ program[g].inode # NoFile => Frozen(program[g].inode)
                        /\ program[g].id <= calls
  /\ \A g, h \in Program : g # h => /\ temporary[g] # NoFile => temporary[g] # temporary[h]
                                    /\ program[g].id > 0 => program[g].id # program[h].id
  /\ calls \in Nat /\ JournalOk(journal, calls)

LEMMA FilesFacts ==
  ASSUME FilesInv
  PROVE  /\ inode \in Seq(Node) /\ Len(inode) \in Nat /\ DOMAIN inode = 1..Len(inode)
         /\ entry \in past /\ past \subseteq [Path -> Nat] /\ calls \in Nat
         /\ temporary \in [Program -> Nat] /\ program \in [Program -> FileCalls]
         /\ JournalOk(journal, calls)
         /\ \A d \in past : \A p \in Path : d[p] # NoFile => Frozen(d[p])
         /\ \A g \in Program :
              /\ WriterOk(temporary[g], program[g], inode) /\ ReaderOk(program[g], inode)
              /\ AppenderOk(program[g], journal)
              /\ program[g].inode # NoFile => Frozen(program[g].inode)
              /\ program[g].id <= calls /\ program[g] \in FileCalls
              /\ temporary[g] # NoFile => temporary[g] \in 1..Len(inode)
         /\ \A g, h \in Program : g # h => /\ temporary[g] # NoFile => temporary[g] # temporary[h]
                                           /\ program[g].id > 0 => program[g].id # program[h].id
BY LenProperties DEF FilesInv, WriterOk

(* What a path may lead to: a file that is frozen, or the sibling that has    *)
(* just become one.                                                           *)
Seen(directories, own, file, nodes) ==
  \A d \in directories : \A p \in Path : d[p] # NoFile =>
    Frozen(d[p]) \/ (d[p] = own /\ file = NoFile /\ Finished(nodes[d[p]]))

(* One process takes a step: of the inodes it changes only its own sibling.   *)
LEMMA FilesMove ==
  ASSUME FilesInv, NEW g \in Program, NEW call \in FileCalls, NEW file \in Nat,
         program' = [program EXCEPT ![g] = call], temporary' = [temporary EXCEPT ![g] = file],
         inode' \in Seq(Node), Len(inode) <= Len(inode'),
         \A i \in 1..Len(inode) : i # temporary[g] => inode'[i] = inode[i],
         file \in {NoFile, temporary[g], Len(inode) + 1},
         entry' \in past', past' \subseteq [Path -> Nat],
         Seen(past', temporary[g], file, inode'),
         WriterOk(file, call, inode'), ReaderOk(call, inode'), AppenderOk(call, journal'),
         call.inode # NoFile => Frozen(call.inode),
         call.id = program[g].id \/ call.id = 0 \/ call.id > calls,
         \A h \in Program \ {g} : AppenderOk(program[h], journal'),
         calls' \in Nat, calls <= calls', call.id <= calls', JournalOk(journal', calls')
  PROVE  FilesInv'
<1>1. /\ Len(inode) \in Nat /\ Len(inode') \in Nat /\ DOMAIN inode = 1..Len(inode)
      /\ DOMAIN inode' = 1..Len(inode') /\ calls \in Nat
      /\ temporary \in [Program -> Nat] /\ program \in [Program -> FileCalls]
      /\ \A h \in Program :
           /\ WriterOk(temporary[h], program[h], inode) /\ ReaderOk(program[h], inode)
           /\ program[h].inode # NoFile => Frozen(program[h].inode)
           /\ program[h].id <= calls /\ program[h].id \in Nat
           /\ temporary[h] # NoFile => temporary[h] \in 1..Len(inode)
      /\ \A h, k \in Program : h # k => /\ temporary[h] # NoFile => temporary[h] # temporary[k]
                                        /\ program[h].id > 0 => program[h].id # program[k].id
  BY FilesFacts, LenProperties DEF FileCalls
<1>2. /\ program'[g] = call /\ temporary'[g] = file
      /\ program' \in [Program -> FileCalls] /\ temporary' \in [Program -> Nat]
      /\ \A h \in Program \ {g} : program'[h] = program[h] /\ temporary'[h] = temporary[h]
  BY <1>1
<1>3. ASSUME NEW i, Frozen(i)
      PROVE  inode'[i] = inode[i] /\ FrozenIn(i, inode', temporary')
  <2>1. i \in 1..Len(inode) /\ Finished(inode[i]) /\ \A h \in Program : temporary[h] # i
    BY <1>1, <1>3 DEF Frozen, FrozenIn
  <2>2. i \in DOMAIN inode' /\ inode'[i] = inode[i]
    BY <1>1, <2>1
  <2>3. i # NoFile /\ i # Len(inode) + 1
    BY <1>1, <2>1 DEF NoFile
  <2> QED
    BY <1>2, <2>1, <2>2, <2>3 DEF FrozenIn
<1>4. ASSUME NEW h \in Program
      PROVE  /\ WriterOk(temporary'[h], program'[h], inode') /\ ReaderOk(program'[h], inode')
             /\ AppenderOk(program'[h], journal') /\ program'[h].id <= calls'
             /\ program'[h].inode # NoFile => FrozenIn(program'[h].inode, inode', temporary')
  <2>1. CASE h = g
    BY <1>2, <1>3, <2>1
  <2>2. CASE h # g
    <3>1. WriterOk(temporary[h], program[h], inode')
      <4>1. WriterOk(temporary[h], program[h], inode)
        BY <1>1
      <4>2. temporary[h] # NoFile => temporary[h] \in DOMAIN inode' /\ inode'[temporary[h]] = inode[temporary[h]]
        BY <1>1, <2>2
      <4> QED
        BY <4>1, <4>2 DEF WriterOk
    <3>2. ReaderOk(program[h], inode') 
          /\ (program[h].inode # NoFile => FrozenIn(program[h].inode, inode', temporary'))
      <4>1. ReaderOk(program[h], inode)
        BY <1>1
      <4>2. CASE program[h].inode = NoFile
        BY <4>1, <4>2 DEF ReaderOk
      <4>3. CASE program[h].inode # NoFile
        <5>1. Frozen(program[h].inode)
          BY <1>1, <4>3
        <5>2. inode'[program[h].inode] = inode[program[h].inode]
          BY <1>3, <5>1
        <5> QED
          BY <1>3, <4>1, <5>1, <5>2 DEF ReaderOk
      <4> QED
        BY <4>2, <4>3
    <3>3. program[h].id <= calls' /\ AppenderOk(program[h], journal')
      BY <1>1, <2>2
    <3>4. program'[h] = program[h] /\ temporary'[h] = temporary[h]
      BY <1>2, <2>2
    <3> QED
      BY <3>1, <3>2, <3>3, <3>4
  <2> QED
    BY <2>1, <2>2
<1>5. ASSUME NEW h \in Program, NEW k \in Program, h # k
      PROVE  /\ temporary'[h] # NoFile => temporary'[h] # temporary'[k]
             /\ program'[h].id > 0 => program'[h].id # program'[k].id
  <2>1. temporary'[h] # NoFile => temporary'[h] # temporary'[k]
    BY <1>1, <1>2, <1>5 DEF NoFile
  <2>2. call.id \in Nat
    BY DEF FileCalls
  <2>3. CASE h = g
    <3>1. program'[h].id = call.id /\ program'[k].id = program[k].id
      BY <1>2, <1>5, <2>3
    <3>2. program[k].id <= calls /\ program[k].id \in Nat
      BY <1>1
    <3>3. program[g].id > 0 => program[g].id # program[k].id
      BY <1>1, <1>5, <2>3
    <3> QED
      BY <1>1, <2>1, <2>2, <3>1, <3>2, <3>3
  <2>4. CASE k = g
    <3>1. program'[k].id = call.id /\ program'[h].id = program[h].id
      BY <1>2, <1>5, <2>4
    <3>2. program[h].id <= calls /\ program[h].id \in Nat
      BY <1>1
    <3>3. program[h].id > 0 => program[h].id # program[g].id
      BY <1>1, <1>5, <2>4
    <3> QED
      BY <1>1, <2>1, <2>2, <3>1, <3>2, <3>3
  <2>5. CASE h # g /\ k # g
    BY <1>1, <1>2, <1>5, <2>1, <2>5
  <2> QED
    BY <2>3, <2>4, <2>5
<1>6. ASSUME NEW d \in past', NEW p \in Path, d[p] # NoFile
      PROVE  FrozenIn(d[p], inode', temporary')
  <2>1. CASE Frozen(d[p])
    BY <1>3, <2>1
  <2>2. CASE d[p] = temporary[g] /\ file = NoFile /\ Finished(inode'[d[p]])
    <3>1. d[p] \in 1..Len(inode) /\ d[p] \in DOMAIN inode'
      BY <1>1, <1>6, <2>2
    <3>2. \A h \in Program : temporary'[h] # d[p]
      BY <1>1, <1>2, <1>6, <2>2
    <3> QED
      BY <2>2, <3>1, <3>2 DEF FrozenIn
  <2> QED
    BY <1>6, <2>1, <2>2 DEF Seen
<1> QED
  BY <1>2, <1>4, <1>5, <1>6 DEF FilesInv, Frozen

(* A step that leaves the inodes, the directory and the journal alone.        *)
LEMMA DiskStays ==
  ASSUME FilesInv, NEW g \in Program, NEW call \in FileCalls, NEW file \in {NoFile, temporary[g]},
         program' = [program EXCEPT ![g] = call], temporary' = [temporary EXCEPT ![g] = file],
         UNCHANGED <<inode, entry, past, journal>>, calls' \in Nat, calls <= calls', call.id <= calls',
         WriterOk(file, call, inode), ReaderOk(call, inode), AppenderOk(call, journal),
         call.inode # NoFile => Frozen(call.inode),
         call.id = program[g].id \/ call.id = 0 \/ call.id > calls
  PROVE  FilesInv'
<1>1. /\ inode \in Seq(Node) /\ Len(inode) \in Nat /\ entry \in past /\ past \subseteq [Path -> Nat]
      /\ calls \in Nat /\ temporary \in [Program -> Nat] /\ JournalOk(journal, calls)
      /\ (\A d \in past : \A p \in Path : d[p] # NoFile => Frozen(d[p]))
      /\ (\A h \in Program : AppenderOk(program[h], journal))
  BY FilesFacts
<1>2. file \in Nat /\ file \in {NoFile, temporary[g], Len(inode) + 1}
  BY <1>1 DEF NoFile
<1>3. JournalOk(journal', calls')
  <2>1. \A i \in 1..Len(journal.data) : journal.data[i] \in Nat
    BY <1>1, LenProperties DEF JournalOk
  <2> QED
    BY <1>1, <2>1 DEF JournalOk
<1>4. inode' \in Seq(Node) /\ Len(inode) <= Len(inode') /\ \A i \in 1..Len(inode) : inode'[i] = inode[i]
  BY <1>1
<1>5. Seen(past', temporary[g], file, inode')
  BY <1>1 DEF Seen
<1> QED
  BY <1>1, <1>2, <1>3, <1>4, <1>5, FilesMove

(* A call begins.                                                             *)
LEMMA CallBegins ==
  ASSUME FilesInv, NEW g \in Program, NEW call \in FileCalls, Call(g, call), UNCHANGED temporary,
         call.inode = NoFile, call.done = 0, call.buffer = <<>>, call.result = "none",
         \/ call.at = "make" /\ call.text \in Texts /\ call.path \in Path
         \/ call.at = "append" /\ call.text \in Texts
         \/ call.at = "open" /\ call.path \in Path /\ call.capacity <= call.bound
  PROVE  FilesInv'
<1> DEFINE new == [call EXCEPT !.id = calls + 1]
<1>1. /\ program[g].at = "idle" /\ calls' = calls + 1 /\ program' = [program EXCEPT ![g] = new]
      /\ UNCHANGED <<inode, entry, past, temporary, journal>>
  BY DEF Call, disk
<1>2. /\ calls \in Nat /\ temporary \in [Program -> Nat] /\ WriterOk(temporary[g], program[g], inode)
      /\ JournalOk(journal, calls)
  BY FilesFacts
<1>3. temporary[g] = NoFile
  BY <1>1, <1>2 DEF WriterOk, Making
<1>4. calls + 1 \in Nat
  BY <1>2
<1>5. /\ new \in FileCalls /\ new.at = call.at /\ new.text = call.text /\ new.path = call.path
      /\ new.inode = NoFile /\ new.done = 0 /\ new.buffer = <<>> /\ new.result = "none"
      /\ new.capacity = call.capacity /\ new.bound = call.bound /\ new.id = calls + 1
  BY <1>4 DEF FileCalls
<1> HIDE DEF new
<1>6. call.capacity \in Nat /\ call.bound \in Nat
  BY DEF FileCalls
<1>7. WriterOk(temporary[g], new, inode)
  BY <1>3, <1>5 DEF WriterOk, Making
<1>8. ReaderOk(new, inode)
  <2>1. Len(new.buffer) = 0
    BY <1>5, EmptySeq
  <2> QED
    BY <1>5, <1>6, <2>1 DEF ReaderOk
<1>9. AppenderOk(new, journal)
  <2>1. Appended(calls + 1, journal) = {}
    <3>1. \A i \in 1..Len(journal.data) : journal.data[i] \in Nat /\ journal.data[i] <= calls
      BY <1>2, LenProperties, ElementOfSeq DEF JournalOk
    <3>2. \A i \in 1..Len(journal.data) : journal.data[i] # calls + 1
      BY <1>2, <3>1
    <3> QED
      BY <3>2 DEF Appended
  <2>2. Cardinality(Appended(calls + 1, journal)) = 0
    BY <2>1, FS_EmptySet
  <2>3. new.at = "append" => new.text \in Texts /\ 0 <= Size[new.text]
    <3>1. \A t \in Texts : Size[t] \in Nat
      BY FilesAssumption, ElementOfSeq, LenProperties DEF Texts
    <3> QED
      BY <1>5, <3>1
  <2> QED
    BY <1>2, <1>5, <2>2, <2>3 DEF AppenderOk
<1>10. calls' \in Nat /\ calls <= calls' /\ new.id <= calls' /\ new.id > calls
  BY <1>1, <1>2, <1>5
<1>11. temporary' = [temporary EXCEPT ![g] = temporary[g]]
  BY <1>1, <1>2
<1>12. UNCHANGED <<inode, entry, past, journal>> /\ ~(new.inode # NoFile)
  BY <1>1, <1>5
<1> QED
  BY <1>1, <1>5, <1>7, <1>8, <1>9, <1>10, <1>11, <1>12, DiskStays

LEMMA BeginsKeep ==
  ASSUME FilesInv, NEW g \in Program,
         \/ \E p \in Path :
              \/ \E t \in Texts : WriteText(g, p, t)
              \/ \E bound \in Bounds, room \in {0, FirstRoom} : ReadText(g, p, bound, room)
         \/ \E t \in Texts, durably \in BOOLEAN : AppendTo(g, t, durably)
  PROVE  FilesInv'
<1>1. /\ Quiet \in FileCalls /\ Quiet.inode = NoFile /\ Quiet.done = 0 /\ Quiet.buffer = <<>>
      /\ Quiet.result = "none"
  BY EmptySeq DEF Quiet, FileCalls, CallStages, CallResults, NoFile
<1>2. {"make", "open", "append"} \subseteq CallStages
  BY DEF CallStages
<1>3. ASSUME NEW p \in Path, NEW t \in Texts, WriteText(g, p, t) PROVE FilesInv'
  <2> DEFINE call == [Quiet EXCEPT !.at = "make", !.path = p, !.text = t]
  <2>1. Call(g, call) /\ UNCHANGED temporary
    BY <1>3 DEF WriteText, Call, disk
  <2>2. /\ call \in FileCalls /\ call.at = "make" /\ call.path = p /\ call.text = t
        /\ call.inode = NoFile /\ call.done = 0 /\ call.buffer = <<>> /\ call.result = "none"
    BY <1>1, <1>2 DEF FileCalls
  <2> HIDE DEF call
  <2> QED
    BY <2>1, <2>2, CallBegins
<1>4. ASSUME NEW p \in Path, NEW bound \in Bounds, NEW room \in {0, FirstRoom}, ReadText(g, p, bound, room)
      PROVE  FilesInv'
  <2> DEFINE capacity == Smaller2(bound, room)
             call == [Quiet EXCEPT !.at = "open", !.path = p, !.bound = bound, !.capacity = capacity]
  <2>1. Call(g, call) /\ UNCHANGED temporary
    BY <1>4 DEF ReadText, Call, disk
  <2>2. bound \in Nat /\ capacity \in Nat /\ capacity <= bound
    BY FilesAssumption DEF Smaller2
  <2> HIDE DEF capacity
  <2>3. /\ call \in FileCalls /\ call.at = "open" /\ call.path = p
        /\ call.bound = bound /\ call.capacity = capacity
        /\ call.inode = NoFile /\ call.done = 0 /\ call.buffer = <<>> /\ call.result = "none"
    BY <1>1, <1>2, <2>2 DEF FileCalls
  <2> HIDE DEF call
  <2> QED
    BY <2>1, <2>2, <2>3, CallBegins
<1>5. ASSUME NEW t \in Texts, NEW durably \in BOOLEAN, AppendTo(g, t, durably) PROVE FilesInv'
  <2> DEFINE bound == IF durably THEN 1 ELSE 0
             call == [Quiet EXCEPT !.at = "append", !.text = t, !.bound = bound]
  <2>1. Call(g, call) /\ UNCHANGED temporary
    BY <1>5 DEF AppendTo, Call, disk
  <2>2. bound \in Nat
    OBVIOUS
  <2> HIDE DEF bound
  <2>3. /\ call \in FileCalls /\ call.at = "append" /\ call.text = t
        /\ call.inode = NoFile /\ call.done = 0 /\ call.buffer = <<>> /\ call.result = "none"
    BY <1>1, <1>2, <2>2 DEF FileCalls
  <2> HIDE DEF call
  <2> QED
    BY <2>1, <2>3, CallBegins
<1> QED
  BY <1>3, <1>4, <1>5

(* What the steps below start from.                                           *)
LEMMA ProgramFacts ==
  ASSUME FilesInv, NEW g \in Program
  PROVE  /\ program \in [Program -> FileCalls] /\ temporary \in [Program -> Nat]
         /\ program[g] \in FileCalls /\ WriterOk(temporary[g], program[g], inode)
         /\ ReaderOk(program[g], inode) /\ AppenderOk(program[g], journal)
         /\ program[g].inode # NoFile => Frozen(program[g].inode)
         /\ program[g].id <= calls /\ program[g].id \in Nat /\ calls \in Nat
         /\ inode \in Seq(Node) /\ Len(inode) \in Nat /\ DOMAIN inode = 1..Len(inode)
         /\ temporary[g] # NoFile => temporary[g] \in 1..Len(inode) /\ inode[temporary[g]] \in Node
<1>1. /\ program \in [Program -> FileCalls] /\ temporary \in [Program -> Nat]
      /\ program[g] \in FileCalls /\ WriterOk(temporary[g], program[g], inode)
      /\ ReaderOk(program[g], inode) /\ AppenderOk(program[g], journal)
      /\ program[g].inode # NoFile => Frozen(program[g].inode)
      /\ program[g].id <= calls /\ calls \in Nat
      /\ inode \in Seq(Node) /\ Len(inode) \in Nat /\ DOMAIN inode = 1..Len(inode)
      /\ temporary[g] # NoFile => temporary[g] \in 1..Len(inode)
  BY FilesFacts
<1>2. temporary[g] # NoFile => inode[temporary[g]] \in Node
  BY <1>1, ElementOfSeq
<1> QED
  BY <1>1, <1>2 DEF FileCalls

(* What another field of a call being changed leaves of it.                   *)
LEMMA CallMoved ==
  ASSUME NEW call \in FileCalls, NEW at \in CallStages, NEW new, new = [call EXCEPT !.at = at]
  PROVE  /\ new \in FileCalls /\ new.at = at /\ new.result = call.result /\ new.id = call.id
         /\ new.path = call.path /\ new.text = call.text /\ new.inode = call.inode
         /\ new.done = call.done /\ new.buffer = call.buffer
         /\ new.capacity = call.capacity /\ new.bound = call.bound
BY DEF FileCalls

(* A call ends without having changed anything a reader may see.              *)
LEMMA ErrorKeeps ==
  ASSUME FilesInv, NEW g \in Program,
         \/ WriteFails(g) \/ CallFails(g)
         \/ Make(g) /\ UNCHANGED <<inode, temporary>> /\ Returns(g, "error")
  PROVE  FilesInv'
<1> DEFINE new == [program[g] EXCEPT !.at = "idle", !.result = "error"]
<1>1. /\ program[g].at \in Making \cup {"make", "read", "append"}
      /\ program' = [program EXCEPT ![g].at = "idle", ![g].result = "error"]
      /\ UNCHANGED <<inode, entry, past, journal, calls>>
      /\ \/ temporary' = [temporary EXCEPT ![g] = NoFile]
         \/ program[g].at \notin Making /\ UNCHANGED temporary
  BY DEF WriteFails, CallFails, Make, Returns, disk, Making
<1>2. /\ program \in [Program -> FileCalls] /\ temporary \in [Program -> Nat]
      /\ program[g] \in FileCalls /\ WriterOk(temporary[g], program[g], inode)
      /\ ReaderOk(program[g], inode) /\ AppenderOk(program[g], journal)
      /\ program[g].inode # NoFile => Frozen(program[g].inode)
      /\ program[g].id <= calls /\ calls \in Nat
  BY ProgramFacts
<1>3. "idle" \in CallStages /\ "error" \in CallResults
  BY DEF CallStages, CallResults
<1>4. /\ new \in FileCalls /\ new.at = "idle" /\ new.result = "error" /\ new.id = program[g].id
      /\ new.inode = program[g].inode /\ new.buffer = program[g].buffer /\ new.bound = program[g].bound
  <2>1. program[g] \in FileCalls /\ "idle" \in CallStages /\ "error" \in CallResults
    BY <1>2, <1>3
  <2> QED
    BY <2>1 DEF FileCalls
<1>5. program' = [program EXCEPT ![g] = new]
  BY <1>1, <1>2
<1> HIDE DEF new
<1>6. temporary' = [temporary EXCEPT ![g] = NoFile]
  <2>1. program[g].at \notin Making => temporary[g] = NoFile
    BY <1>2 DEF WriterOk
  <2> QED
    BY <1>1, <1>2, <2>1
<1>7. WriterOk(NoFile, new, inode)
  BY <1>4 DEF WriterOk, Making
<1>8. ReaderOk(new, inode)
  <2>1. program[g].inode # NoFile =>
          LET data == inode[program[g].inode].data
          IN  Len(program[g].buffer) <= Len(data)
              /\ program[g].buffer = SubSeq(data, 1, Len(program[g].buffer))
    BY <1>2 DEF ReaderOk
  <2> QED
    BY <1>4, <2>1 DEF ReaderOk
<1>9. AppenderOk(new, journal)
  BY <1>4 DEF AppenderOk
<1>10. /\ calls' \in Nat /\ calls <= calls' /\ new.id <= calls' /\ new.id = program[g].id
       /\ new.inode # NoFile => Frozen(new.inode)
  BY <1>1, <1>2, <1>4
<1>11. UNCHANGED <<inode, entry, past, journal>>
  BY <1>1
<1> QED
  BY <1>4, <1>5, <1>6, <1>7, <1>8, <1>9, <1>10, <1>11, DiskStays

LEMMA DieKeeps == ASSUME FilesInv, NEW g \in Program, Die(g) PROVE FilesInv'
<1>1. /\ program' = [program EXCEPT ![g] = Quiet] /\ temporary' = [temporary EXCEPT ![g] = NoFile]
      /\ UNCHANGED <<inode, entry, past, journal, calls>>
  BY DEF Die
<1>2. /\ Quiet \in FileCalls /\ Quiet.inode = NoFile /\ Quiet.done = 0 /\ Quiet.buffer = <<>>
      /\ Quiet.result = "none" /\ Quiet.at = "idle" /\ Quiet.id = 0
  BY EmptySeq DEF Quiet, FileCalls, CallStages, CallResults, NoFile
<1>3. WriterOk(NoFile, Quiet, inode) /\ ReaderOk(Quiet, inode) /\ AppenderOk(Quiet, journal)
  BY <1>2 DEF WriterOk, ReaderOk, AppenderOk, Making
<1>4. calls \in Nat /\ calls' \in Nat /\ calls <= calls' /\ Quiet.id <= calls'
  BY <1>1, <1>2, ProgramFacts
<1>5. UNCHANGED <<inode, entry, past, journal>>
  BY <1>1
<1>6. NoFile \in {NoFile, temporary[g]}
  OBVIOUS
<1> QED
  BY <1>1, <1>2, <1>3, <1>4, <1>5, <1>6, DiskStays

LEMMA MakeKeeps ==
  ASSUME FilesInv, NEW g \in Program, Make(g), ~UNCHANGED <<inode, temporary>>
  PROVE  FilesInv'
<1> DEFINE new == [program[g] EXCEPT !.at = "write"]
           node == [data |-> <<>>, synced |-> 0]
           file == Len(inode) + 1
<1>1. /\ program[g].at = "make" /\ inode' = Append(inode, node)
      /\ temporary' = [temporary EXCEPT ![g] = file]
      /\ program' = [program EXCEPT ![g].at = "write"]
      /\ UNCHANGED <<entry, past, journal, calls>>
  BY DEF Make, Goes
<1>2. /\ program \in [Program -> FileCalls] /\ temporary \in [Program -> Nat]
      /\ program[g] \in FileCalls /\ WriterOk(temporary[g], program[g], inode)
      /\ ReaderOk(program[g], inode) /\ AppenderOk(program[g], journal)
      /\ program[g].id <= calls /\ calls \in Nat
      /\ inode \in Seq(Node) /\ Len(inode) \in Nat
  BY ProgramFacts
<1>3. "write" \in CallStages
  BY DEF CallStages, Making
<1>4. /\ new \in FileCalls /\ new.at = "write" /\ new.result = program[g].result
      /\ new.id = program[g].id /\ new.path = program[g].path /\ new.text = program[g].text
      /\ new.inode = program[g].inode /\ new.done = program[g].done
  BY <1>2, <1>3, CallMoved
<1>5. program' = [program EXCEPT ![g] = new]
  BY <1>1, <1>2
<1> HIDE DEF new
<1>6. node \in Node /\ node.data = <<>> /\ node.synced = 0
  BY EmptySeq DEF Node
<1>7. /\ inode' \in Seq(Node) /\ Len(inode') = file /\ inode'[file] = node
      /\ \A i \in 1..Len(inode) : inode'[i] = inode[i]
  BY <1>1, <1>2, <1>6, AppendProperties
<1>8. /\ program[g].text \in Texts /\ program[g].path \in Path /\ program[g].inode = NoFile
      /\ program[g].done = 0 /\ program[g].result = "none"
  BY <1>1, <1>2 DEF WriterOk, ReaderOk, Making
<1>9. Size[program[g].text] \in Nat
  BY <1>8, FilesAssumption, ElementOfSeq, LenProperties DEF Texts
<1>10. file \in DOMAIN inode' /\ file \in Nat /\ file # NoFile
  BY <1>2, <1>7, LenProperties DEF NoFile
<1>11. inode'[file].data = [i \in 1..0 |-> program[g].text]
  BY <1>6, <1>7
<1> HIDE DEF file, node
<1>12. WriterOk(file, new, inode')
  BY <1>4, <1>8, <1>9, <1>10, <1>11 DEF WriterOk, Making
<1>13. ReaderOk(new, inode')
  BY <1>4, <1>8 DEF ReaderOk
<1>14. AppenderOk(new, journal')
  BY <1>4, <1>8 DEF AppenderOk
<1>15. /\ entry' \in past' /\ past' \subseteq [Path -> Nat] /\ JournalOk(journal', calls')
       /\ (\A d \in past' : \A p \in Path : d[p] # NoFile => Frozen(d[p]))
       /\ (\A h \in Program \ {g} : AppenderOk(program[h], journal'))
  BY <1>1, FilesFacts
<1>16. file \in {NoFile, temporary[g], Len(inode) + 1} /\ Len(inode) <= Len(inode')
  BY <1>2, <1>7 DEF file
<1>17. calls' \in Nat /\ calls <= calls' /\ new.id <= calls' /\ new.id = program[g].id
       /\ ~(new.inode # NoFile)
  BY <1>1, <1>2, <1>4, <1>8
<1>18. Seen(past', temporary[g], file, inode')
  BY <1>15 DEF Seen
<1> QED
  BY <1>1, <1>4, <1>5, <1>7, <1>10, <1>12, <1>13, <1>14, <1>15, <1>16, <1>17, <1>18, FilesMove

(* A process that makes a file does something to its sibling, or goes on.     *)
LEMMA SiblingChanges ==
  ASSUME FilesInv, NEW g \in Program, program[g].at \in Making,
         NEW call \in FileCalls, NEW node \in Node,
         program' = [program EXCEPT ![g] = call],
         inode' = [inode EXCEPT ![temporary[g]] = node],
         UNCHANGED <<entry, past, temporary, journal, calls>>,
         call.at \in Making, call.id = program[g].id, call.text = program[g].text,
         call.path = program[g].path, call.inode = program[g].inode,
         call.result = program[g].result,
         call.at = "write" =>
           call.done <= Size[call.text] /\ node.data = [i \in 1..call.done |-> call.text],
         call.at \in {"sync", "rename"} => node.data = Whole(call.text),
         call.at = "rename" => node.synced = Len(node.data)
  PROVE  FilesInv'
<1> DEFINE file == temporary[g]
<1>1. /\ program \in [Program -> FileCalls] /\ temporary \in [Program -> Nat]
      /\ WriterOk(file, program[g], inode) /\ ReaderOk(program[g], inode)
      /\ program[g].id <= calls /\ calls \in Nat
      /\ inode \in Seq(Node) /\ Len(inode) \in Nat
      /\ file # NoFile => file \in 1..Len(inode)
  BY ProgramFacts
<1>2. /\ file # NoFile /\ file \in 1..Len(inode) /\ call.text \in Texts /\ call.path \in Path
      /\ call.inode = NoFile /\ call.result = "none"
  BY <1>1 DEF WriterOk, ReaderOk, Making
<1>3. /\ inode' \in Seq(Node) /\ Len(inode') = Len(inode) /\ inode'[file] = node
      /\ \A i \in 1..Len(inode) : i # file => inode'[i] = inode[i]
  BY <1>1, <1>2, ExceptSeq
<1>4. file \in DOMAIN inode'
  BY <1>2, <1>3, LenProperties
<1>5. WriterOk(file, call, inode')
  BY <1>2, <1>3, <1>4 DEF WriterOk, Making
<1>6. ReaderOk(call, inode') /\ AppenderOk(call, journal')
  BY <1>2 DEF ReaderOk, AppenderOk, Making
<1>7. /\ entry' \in past' /\ past' \subseteq [Path -> Nat] /\ JournalOk(journal', calls')
      /\ (\A d \in past' : \A p \in Path : d[p] # NoFile => Frozen(d[p]))
      /\ (\A h \in Program \ {g} : AppenderOk(program[h], journal'))
  BY FilesFacts
<1>8. temporary' = [temporary EXCEPT ![g] = file] /\ file \in Nat /\ file \in {NoFile, temporary[g], Len(inode) + 1}
  BY <1>1
<1>9. calls' \in Nat /\ calls <= calls' /\ call.id <= calls' /\ ~(call.inode # NoFile)
  BY <1>1, <1>2
<1>10. Len(inode) <= Len(inode')
  BY <1>1, <1>3
<1>11. Seen(past', temporary[g], file, inode')
  BY <1>7 DEF Seen
<1> QED
  BY <1>3, <1>5, <1>6, <1>7, <1>8, <1>9, <1>10, <1>11, FilesMove

LEMMA RepeatedUnit ==
  ASSUME NEW n \in Nat, NEW t \in Texts
  PROVE  Append([i \in 1..n |-> t], t) = [i \in 1..n + 1 |-> t]
<1> DEFINE r == [i \in 1..n |-> t]
           s == [i \in 1..n + 1 |-> t]
<1>1. r \in Seq(Texts) /\ Len(r) = n /\ s \in Seq(Texts) /\ Len(s) = n + 1
  BY IsASeq
<1>2. Append(r, t) \in Seq(Texts) /\ Len(Append(r, t)) = n + 1
      /\ \A i \in 1..n + 1 : Append(r, t)[i] = t
  <2>1. /\ Append(r, t) \in Seq(Texts) /\ Len(Append(r, t)) = n + 1 /\ Append(r, t)[n + 1] = t
        /\ \A i \in 1..n : Append(r, t)[i] = r[i]
    BY <1>1, AppendProperties
  <2>2. \A i \in 1..n : r[i] = t
    OBVIOUS
  <2>3. \A i \in 1..n + 1 : i = n + 1 \/ i \in 1..n
    OBVIOUS
  <2> QED
    BY <2>1, <2>2, <2>3
<1>3. \A i \in 1..n + 1 : s[i] = t
  OBVIOUS
<1> HIDE DEF r, s
<1>4. \A i \in 1..Len(s) : Append(r, t)[i] = s[i]
  BY <1>1, <1>2, <1>3
<1>5. Append(r, t) = s
  BY <1>1, <1>2, <1>4, SeqEqual
<1> QED
  BY <1>5 DEF r, s

LEMMA WriteKeeps == ASSUME FilesInv, NEW g \in Program, Write(g) PROVE FilesInv'
<1> DEFINE call == program[g]
           file == temporary[g]
<1>1. /\ call.at = "write" /\ UNCHANGED <<entry, past, temporary, journal, calls>>
      /\ IF call.done < Size[call.text]
           THEN /\ inode' = [inode EXCEPT ![file].data = Append(@, call.text)]
                /\ program' = [program EXCEPT ![g].done = @ + 1]
           ELSE program' = [program EXCEPT ![g].at = "sync"] /\ UNCHANGED inode
  BY DEF Write, Goes
<1>2. /\ program \in [Program -> FileCalls] /\ call \in FileCalls
      /\ WriterOk(file, call, inode) /\ inode \in Seq(Node) /\ Len(inode) \in Nat
      /\ file # NoFile => file \in 1..Len(inode) /\ inode[file] \in Node
  BY ProgramFacts
<1>3. /\ file \in 1..Len(inode) /\ inode[file] \in Node /\ call.text \in Texts
      /\ call.done <= Size[call.text] /\ inode[file].data = [i \in 1..call.done |-> call.text]
      /\ call.at \in Making
  BY <1>1, <1>2 DEF WriterOk, Making
<1>4. call.done \in Nat /\ Size[call.text] \in Nat
  <2>1. call.done \in Nat
    BY <1>2 DEF FileCalls
  <2>2. Size[call.text] \in Nat
    BY <1>3, FilesAssumption, ElementOfSeq, LenProperties DEF Texts
  <2> QED
    BY <2>1, <2>2
<1>5. CASE call.done < Size[call.text]
  <2> DEFINE new == [call EXCEPT !.done = @ + 1]
             node == [inode[file] EXCEPT !.data = Append(@, call.text)]
  <2>1. program' = [program EXCEPT ![g] = new] /\ inode' = [inode EXCEPT ![file] = node]
    BY <1>1, <1>2, <1>3, <1>5
  <2>2. /\ new \in FileCalls /\ new.at = "write" /\ new.result = call.result /\ new.id = call.id
        /\ new.path = call.path /\ new.text = call.text /\ new.inode = call.inode
        /\ new.done = call.done + 1
    <3>1. call.done + 1 \in Nat
      BY <1>4
    <3> QED
      BY <1>1, <1>2, <3>1 DEF FileCalls
  <2>3. Append(inode[file].data, call.text) = [i \in 1..call.done + 1 |-> call.text]
    BY <1>3, <1>4, RepeatedUnit
  <2>4. node \in Node /\ node.data = [i \in 1..new.done |-> new.text]
    <3> DEFINE old == inode[file]
    <3>0. old \in Node /\ call.text \in Texts
      BY <1>3
    <3> HIDE DEF old
    <3>1. /\ old.data \in Seq(Texts) /\ Append(old.data, call.text) \in Seq(Texts)
          /\ Len(Append(old.data, call.text)) = Len(old.data) + 1
          /\ Len(old.data) \in Nat
      BY <3>0, AppendProperties, LenProperties DEF Node
    <3>2. old \in [data : Seq(Texts), synced : Nat] /\ old.synced <= Len(old.data) + 1
      BY <3>0, <3>1 DEF Node
    <3>3. node \in [data : Seq(Texts), synced : Nat]
          /\ node.data = Append(old.data, call.text) /\ node.synced = old.synced
      BY <3>1, <3>2 DEF old
    <3> HIDE DEF new, node
    <3>4. node \in Node
      BY <3>1, <3>2, <3>3 DEF Node
    <3> QED
      BY <2>2, <2>3, <3>3, <3>4 DEF old
  <2>5. new.done <= Size[new.text] /\ new.at \in Making
    BY <1>4, <1>5, <2>2 DEF Making
  <2> HIDE DEF new, node
  <2> QED
    BY <1>1, <1>3, <2>1, <2>2, <2>4, <2>5, SiblingChanges
<1>6. CASE ~(call.done < Size[call.text])
  <2> DEFINE new == [call EXCEPT !.at = "sync"]
  <2>1. program' = [program EXCEPT ![g] = new] /\ inode' = [inode EXCEPT ![file] = inode[file]]
    BY <1>1, <1>2, <1>6
  <2>2. /\ new \in FileCalls /\ new.at = "sync" /\ new.result = call.result /\ new.id = call.id
        /\ new.path = call.path /\ new.text = call.text /\ new.inode = call.inode
    BY <1>2 DEF FileCalls, CallStages, Making
  <2>3. call.done = Size[call.text]
    BY <1>3, <1>4, <1>6
  <2>4. inode[file].data = Whole(new.text)
    BY <1>3, <2>2, <2>3 DEF Whole
  <2>5. new.at \in Making /\ new.at # "write" /\ new.at # "rename"
    BY <2>2 DEF Making
  <2> HIDE DEF new
  <2> QED
    BY <1>1, <1>3, <2>1, <2>2, <2>4, <2>5, SiblingChanges
<1> QED
  BY <1>5, <1>6

LEMMA SyncKeeps == ASSUME FilesInv, NEW g \in Program, Sync(g) PROVE FilesInv'
<1> DEFINE call == program[g]
           file == temporary[g]
           new == [call EXCEPT !.at = "rename"]
           node == Synced(inode[file])
<1>1. /\ call.at = "sync" /\ UNCHANGED <<entry, past, temporary, journal, calls>>
      /\ inode' = [inode EXCEPT ![file] = node]
      /\ program' = [program EXCEPT ![g].at = "rename"]
  BY DEF Sync, Goes
<1>2. /\ program \in [Program -> FileCalls] /\ call \in FileCalls
      /\ WriterOk(file, call, inode) /\ inode \in Seq(Node) /\ Len(inode) \in Nat
      /\ file # NoFile => file \in 1..Len(inode) /\ inode[file] \in Node
  BY ProgramFacts
<1>3. inode[file] \in Node /\ inode[file].data = Whole(call.text) /\ call.at \in Making
  BY <1>1, <1>2 DEF WriterOk, Making
<1>4. program' = [program EXCEPT ![g] = new]
  BY <1>1, <1>2
<1>5. /\ new \in FileCalls /\ new.at = "rename" /\ new.result = call.result /\ new.id = call.id
      /\ new.path = call.path /\ new.text = call.text /\ new.inode = call.inode
  BY <1>2 DEF FileCalls, CallStages, Making
<1>6. node \in Node /\ node.data = inode[file].data /\ node.synced = Len(node.data)
  <2>1. Len(inode[file].data) \in Nat
    BY <1>3, LenProperties DEF Node
  <2> QED
    BY <1>3, <2>1 DEF Node, Synced
<1> HIDE DEF new, node
<1>7. new.at \in Making /\ new.at # "write" /\ node.data = Whole(new.text)
  BY <1>3, <1>5, <1>6 DEF Making
<1> QED
  BY <1>1, <1>3, <1>4, <1>5, <1>6, <1>7, SiblingChanges

LEMMA ReplaceKeeps == ASSUME FilesInv, NEW g \in Program, Replace(g) PROVE FilesInv'
<1> DEFINE call == program[g]
           file == temporary[g]
           new == [call EXCEPT !.at = "idle", !.result = "ok"]
           directory == [entry EXCEPT ![call.path] = file]
<1>1. /\ call.at = "rename" /\ UNCHANGED <<inode, journal, calls>>
      /\ entry' = directory /\ past' = past \cup {directory}
      /\ temporary' = [temporary EXCEPT ![g] = NoFile]
      /\ program' = [program EXCEPT ![g].at = "idle", ![g].result = "ok"]
  BY DEF Replace, Relink, Returns
<1>2. /\ program \in [Program -> FileCalls] /\ call \in FileCalls /\ call.id <= calls /\ calls \in Nat
      /\ temporary \in [Program -> Nat]
      /\ WriterOk(file, call, inode) /\ inode \in Seq(Node) /\ Len(inode) \in Nat
      /\ file # NoFile => file \in 1..Len(inode) /\ inode[file] \in Node
  BY ProgramFacts
<1>3. /\ file \in 1..Len(inode) /\ inode[file].data = Whole(call.text) /\ call.text \in Texts
      /\ inode[file].synced = Len(inode[file].data) /\ call.inode = NoFile /\ call.path \in Path
  BY <1>1, <1>2 DEF WriterOk, Making
<1>4. program' = [program EXCEPT ![g] = new]
  BY <1>1, <1>2
<1>5. /\ new \in FileCalls /\ new.at = "idle" /\ new.result = "ok" /\ new.id = call.id
      /\ new.inode = NoFile
  <2>1. "idle" \in CallStages /\ "ok" \in CallResults
    BY DEF CallStages, CallResults
  <2> QED
    BY <1>2, <1>3, <2>1 DEF FileCalls
<1>6. Finished(inode[file])
  BY <1>3 DEF Finished
<1>7. /\ entry \in past /\ past \subseteq [Path -> Nat] /\ JournalOk(journal, calls)
      /\ (\A d \in past : \A p \in Path : d[p] # NoFile => Frozen(d[p]))
      /\ (\A h \in Program : AppenderOk(program[h], journal))
  BY FilesFacts
<1>8. directory \in [Path -> Nat] /\ \A p \in Path : directory[p] \in {entry[p], file}
  BY <1>3, <1>7
<1>9. \A d \in past' : \A p \in Path : d[p] # NoFile =>
        Frozen(d[p]) \/ (d[p] = file /\ Finished(inode'[d[p]]))
  <2> SUFFICES ASSUME NEW d \in past', NEW p \in Path, d[p] # NoFile
               PROVE  Frozen(d[p]) \/ (d[p] = file /\ Finished(inode'[d[p]]))
    OBVIOUS
  <2>1. CASE d \in past
    BY <1>7, <2>1
  <2>2. CASE d = directory
    BY <1>1, <1>6, <1>7, <1>8, <2>2
  <2> QED
    BY <1>1, <2>1, <2>2
<1> HIDE DEF new, directory
<1>10. WriterOk(NoFile, new, inode') /\ ReaderOk(new, inode') /\ AppenderOk(new, journal')
  BY <1>5 DEF WriterOk, ReaderOk, AppenderOk, Making
<1>11. /\ entry' \in past' /\ past' \subseteq [Path -> Nat] /\ JournalOk(journal', calls')
       /\ (\A h \in Program \ {g} : AppenderOk(program[h], journal'))
       /\ inode' \in Seq(Node) /\ Len(inode) <= Len(inode')
       /\ (\A i \in 1..Len(inode) : inode'[i] = inode[i])
       /\ NoFile \in Nat /\ NoFile \in {NoFile, temporary[g], Len(inode) + 1}
  BY <1>1, <1>2, <1>7, <1>8 DEF NoFile
<1>12. calls' \in Nat /\ calls <= calls' /\ new.id <= calls' /\ new.id = program[g].id
       /\ ~(new.inode # NoFile)
  BY <1>1, <1>2, <1>5
<1> DEFINE none == NoFile
<1>13. /\ temporary' = [temporary EXCEPT ![g] = none] /\ new \in FileCalls
       /\ none \in Nat /\ none \in {NoFile, temporary[g], Len(inode) + 1}
       /\ WriterOk(none, new, inode')
       /\ Seen(past', temporary[g], none, inode')
  BY <1>1, <1>5, <1>9, <1>10, <1>11 DEF Seen
<1>14. \A i \in 1..Len(inode) : i # temporary[g] => inode'[i] = inode[i]
  BY <1>11
<1> HIDE DEF none
<1>15. /\ program' = [program EXCEPT ![g] = new] /\ new \in FileCalls
       /\ ReaderOk(new, inode') /\ AppenderOk(new, journal')
       /\ (new.inode # NoFile => Frozen(new.inode))
       /\ (new.id = program[g].id \/ new.id = 0 \/ new.id > calls)
       /\ calls' \in Nat /\ calls <= calls' /\ new.id <= calls'
  BY <1>4, <1>5, <1>10, <1>12
<1>16. /\ entry' \in past' /\ past' \subseteq [Path -> Nat] /\ JournalOk(journal', calls')
       /\ (\A h \in Program \ {g} : AppenderOk(program[h], journal'))
       /\ inode' \in Seq(Node) /\ Len(inode) <= Len(inode')
  BY <1>11
<1> HIDE DEF call, file
<1> QED
  BY <1>13, <1>14, <1>15, <1>16, FilesMove

(* A path is renamed or removed.                                              *)
LEMMA DirectoryKeeps ==
  ASSUME FilesInv,
         \/ \E from, to \in Path : from # to /\ RenameFile(from, to)
         \/ \E p \in Path : RemoveFile(p)
  PROVE  FilesInv'
<1>1. /\ entry \in past /\ past \subseteq [Path -> Nat] /\ JournalOk(journal, calls) /\ calls \in Nat
      /\ (\A d \in past : \A p \in Path : d[p] # NoFile => Frozen(d[p]))
      /\ (\A h \in Program : program[h].id <= calls /\ program[h].id \in Nat)
  BY FilesFacts, ProgramFacts
<1>2. ASSUME NEW directory \in [Path -> Nat],
             \A p \in Path : directory[p] # NoFile => \E q \in Path : directory[p] = entry[q],
             Relink(directory), calls' = calls + 1, UNCHANGED <<inode, temporary, journal, program>>
      PROVE  FilesInv'
  <2>1. entry' = directory /\ past' = past \cup {directory}
    BY <1>2 DEF Relink
  <2>2. \A d \in past' : \A p \in Path : d[p] # NoFile => Frozen(d[p])
    BY <1>1, <1>2, <2>1
  <2>3. entry' \in past' /\ past' \subseteq [Path -> Nat] /\ calls' \in Nat
        /\ \A h \in Program : program[h].id <= calls'
    BY <1>1, <1>2, <2>1
  <2>4. JournalOk(journal, calls')
    <3>1. \A i \in 1..Len(journal.data) : journal.data[i] \in Nat
      BY <1>1, LenProperties DEF JournalOk
    <3> QED
      BY <1>1, <1>2, <3>1 DEF JournalOk
  <2>5. \A d \in past' : \A p \in Path : d[p] # NoFile => FrozenIn(d[p], inode', temporary')
    BY <1>2, <2>2 DEF Frozen
  <2>6. \A h \in Program :
          program[h].inode # NoFile => FrozenIn(program[h].inode, inode', temporary')
    BY <1>2 DEF FilesInv, Frozen
  <2> QED
    BY <1>2, <2>3, <2>4, <2>5, <2>6 DEF FilesInv, Frozen
<1>3. ASSUME NEW from \in Path, NEW to \in Path, from # to, RenameFile(from, to) PROVE FilesInv'
  <2> DEFINE directory == [entry EXCEPT ![to] = entry[from], ![from] = NoFile]
  <2>1. Relink(directory) /\ calls' = calls + 1 /\ UNCHANGED <<inode, temporary, journal, program>>
    BY <1>3 DEF RenameFile
  <2>2. entry \in [Path -> Nat] /\ NoFile \in Nat
    BY <1>1 DEF NoFile
  <2>3. directory \in [Path -> Nat]
        /\ \A p \in Path : directory[p] # NoFile => \E q \in Path : directory[p] = entry[q]
    BY <1>3, <2>2
  <2> HIDE DEF directory
  <2> QED
    BY <1>2, <2>1, <2>3
<1>4. ASSUME NEW p \in Path, RemoveFile(p) PROVE FilesInv'
  <2> DEFINE directory == [entry EXCEPT ![p] = NoFile]
  <2>1. Relink(directory) /\ calls' = calls + 1 /\ UNCHANGED <<inode, temporary, journal, program>>
    BY <1>4 DEF RemoveFile
  <2>2. entry \in [Path -> Nat] /\ NoFile \in Nat
    BY <1>1 DEF NoFile
  <2>3. directory \in [Path -> Nat]
        /\ \A q \in Path : directory[q] # NoFile => \E r \in Path : directory[q] = entry[r]
    BY <2>2
  <2> HIDE DEF directory
  <2> QED
    BY <1>2, <2>1, <2>3
<1> QED
  BY <1>3, <1>4

LEMMA OpenToReadKeeps == ASSUME FilesInv, NEW g \in Program, OpenToRead(g) PROVE FilesInv'
<1> DEFINE call == program[g]
           file == entry[call.path]
           new == IF file = NoFile THEN [call EXCEPT !.at = "idle", !.result = "error"]
                  ELSE [call EXCEPT !.at = "read", !.inode = file]
<1>1. /\ call.at = "open" /\ UNCHANGED <<inode, entry, past, temporary, journal, calls>>
      /\ program' = IF file = NoFile
                      THEN [program EXCEPT ![g].at = "idle", ![g].result = "error"]
                      ELSE [program EXCEPT ![g].at = "read", ![g].inode = file]
  BY DEF OpenToRead, Returns, disk
<1>2. /\ program \in [Program -> FileCalls] /\ temporary \in [Program -> Nat]
      /\ call \in FileCalls /\ WriterOk(temporary[g], call, inode) /\ ReaderOk(call, inode)
      /\ call.id <= calls /\ calls \in Nat /\ inode \in Seq(Node)
  BY ProgramFacts
<1>3. call.buffer = <<>> /\ call.inode = NoFile /\ call.path \in Path /\ call.result = "none"
      /\ Len(call.buffer) <= call.capacity /\ call.capacity <= call.bound /\ temporary[g] = NoFile
  BY <1>1, <1>2 DEF ReaderOk, WriterOk, Making
<1>4. program' = [program EXCEPT ![g] = new]
  BY <1>1, <1>2
<1>5. file \in Nat /\ (file # NoFile => Frozen(file))
  BY <1>3, FilesFacts
<1>6. {"idle", "read"} \subseteq CallStages /\ "error" \in CallResults
  BY DEF CallStages, CallResults
<1>7. /\ new \in FileCalls /\ new.id = call.id /\ new.buffer = <<>>
      /\ new.capacity = call.capacity /\ new.bound = call.bound
      /\ IF file = NoFile THEN new.at = "idle" /\ new.result = "error" /\ new.inode = NoFile
         ELSE new.at = "read" /\ new.result = "none" /\ new.inode = file
  BY <1>2, <1>3, <1>5, <1>6 DEF FileCalls
<1> HIDE DEF new
<1>8. WriterOk(temporary[g], new, inode)
  BY <1>3, <1>7 DEF WriterOk, Making
<1>9. ReaderOk(new, inode)
  <2>1. CASE file = NoFile
    BY <1>7, <2>1 DEF ReaderOk
  <2>2. CASE file # NoFile
    <3>1. inode[file].data \in Seq(Texts)
      <4>1. file \in 1..Len(inode)
        BY <1>2, <1>5, <2>2, LenProperties DEF Frozen, FrozenIn
      <4>2. inode[file] \in Node
        BY <1>2, <4>1, ElementOfSeq
      <4> QED
        BY <4>2 DEF Node
    <3>2. Len(new.buffer) = 0 /\ 0 <= Len(inode[file].data)
          /\ SubSeq(inode[file].data, 1, 0) = <<>>
      BY <1>7, <3>1, LenProperties, EmptySeq, SubSeqProperties
    <3>3. new.bound \in Nat
      BY <1>7 DEF FileCalls
    <3> QED
      BY <1>3, <1>7, <2>2, <3>2, <3>3 DEF ReaderOk
  <2> QED
    BY <2>1, <2>2
<1>10. AppenderOk(new, journal)
  BY <1>7 DEF AppenderOk
<1>11. /\ temporary' = [temporary EXCEPT ![g] = temporary[g]]
       /\ UNCHANGED <<inode, entry, past, journal>> /\ (new.inode # NoFile => Frozen(new.inode))
       /\ calls' \in Nat /\ calls <= calls' /\ new.id <= calls' /\ new.id = program[g].id
  BY <1>1, <1>2, <1>5, <1>7
<1> QED
  BY <1>4, <1>7, <1>8, <1>9, <1>10, <1>11, DiskStays

(* A read goes on: what it holds stays within its room and its bound.         *)
LEMMA ReadMoves ==
  ASSUME FilesInv, NEW g \in Program, program[g].at = "read", NEW new \in FileCalls,
         program' = [program EXCEPT ![g] = new],
         UNCHANGED <<inode, entry, past, temporary, journal, calls>>,
         new.at \in {"read", "idle"}, new.result \in {"none", "ok", "toobig"},
         new.id = program[g].id, new.inode = program[g].inode, ReaderOk(new, inode)
  PROVE  FilesInv'
<1>1. /\ temporary \in [Program -> Nat] /\ program[g].id <= calls /\ calls \in Nat
      /\ WriterOk(temporary[g], program[g], inode)
      /\ program[g].inode # NoFile => Frozen(program[g].inode)
  BY ProgramFacts
<1>2. temporary[g] = NoFile
  BY <1>1 DEF WriterOk, Making
<1>3. WriterOk(temporary[g], new, inode) /\ AppenderOk(new, journal)
  BY <1>2 DEF WriterOk, AppenderOk, Making
<1>4. /\ temporary' = [temporary EXCEPT ![g] = temporary[g]] /\ calls' \in Nat /\ calls <= calls'
      /\ new.id <= calls' /\ (new.inode # NoFile => Frozen(new.inode))
      /\ UNCHANGED <<inode, entry, past, journal>> /\ temporary[g] \in {NoFile, temporary[g]}
  BY <1>1
<1> QED
  BY <1>3, <1>4, DiskStays

LEMMA ReadOnKeeps == ASSUME FilesInv, NEW g \in Program, ReadOn(g) PROVE FilesInv'
<1> DEFINE call == program[g]
           data == inode[call.inode].data
           length == Len(call.buffer)
<1>1. /\ call.at = "read" /\ UNCHANGED <<inode, entry, past, temporary, journal, calls>>
      /\ \/ length = call.capacity /\ call.capacity # call.bound
            /\ program' = [program EXCEPT ![g] = MoreRoom(call)]
         \/ length = call.capacity /\ call.capacity = call.bound
            /\ Returns(g, IF length < Len(data) THEN "toobig" ELSE "ok")
         \/ length # call.capacity /\ length = Len(data) /\ Returns(g, "ok")
         \/ \E n \in length + 1 .. Smaller2(call.capacity, Len(data)) :
              program' = [program EXCEPT ![g].buffer = SubSeq(data, 1, n)]
  BY DEF ReadOn, GoesOn, disk
<1>2. /\ program \in [Program -> FileCalls] /\ call \in FileCalls /\ ReaderOk(call, inode)
      /\ call.inode # NoFile => Frozen(call.inode)
      /\ inode \in Seq(Node) /\ DOMAIN inode = 1..Len(inode)
  BY ProgramFacts
<1>3. /\ call.inode # NoFile /\ call.bound \in Nat /\ call.capacity \in Nat
      /\ call.buffer \in Seq(Texts) /\ call.result = "none" /\ length \in Nat
      /\ length <= call.capacity /\ call.capacity <= call.bound
      /\ length <= Len(data) /\ call.buffer = SubSeq(data, 1, length)
  <2>1. call.buffer \in Seq(Texts) /\ call.capacity \in Nat /\ call.bound \in Nat
    BY <1>2 DEF FileCalls
  <2> QED
    BY <1>1, <1>2, <2>1, LenProperties DEF ReaderOk
<1>4. data \in Seq(Texts) /\ Len(data) \in Nat
  <2>1. call.inode \in 1..Len(inode)
    BY <1>2, <1>3 DEF Frozen, FrozenIn
  <2>2. inode[call.inode] \in Node
    BY <1>2, <2>1, ElementOfSeq
  <2> QED
    BY <2>2, LenProperties DEF Node
<1>5. {"idle", "read"} \subseteq CallStages /\ {"ok", "toobig"} \subseteq CallResults
  BY DEF CallStages, CallResults
<1>6. CASE /\ length = call.capacity /\ call.capacity # call.bound
           /\ program' = [program EXCEPT ![g] = MoreRoom(call)]
  <2> DEFINE new == MoreRoom(call)
             room == IF call.capacity = 0 THEN Smaller2(1, call.bound)
                     ELSE Smaller2(2 * call.capacity, call.bound)
  <2>1. room \in Nat /\ length <= room /\ room <= call.bound
    BY <1>3 DEF Smaller2
  <2>2. new = [call EXCEPT !.capacity = room]
    BY <1>2 DEF MoreRoom, FileCalls
  <2> HIDE DEF new, room
  <2>3. /\ new \in FileCalls /\ new.at = "read" /\ new.result = "none" /\ new.id = call.id
        /\ new.inode = call.inode /\ new.buffer = call.buffer /\ new.bound = call.bound
        /\ new.capacity = room
    BY <1>1, <1>2, <1>3, <2>1, <2>2 DEF FileCalls
  <2>4. ReaderOk(new, inode)
    BY <1>3, <2>1, <2>3 DEF ReaderOk
  <2>5. program' = [program EXCEPT ![g] = new]
    BY <1>6 DEF new
  <2> QED
    BY <1>1, <2>3, <2>4, <2>5, ReadMoves
<1>7. ASSUME NEW result \in {"ok", "toobig"}, Returns(g, result),
             result = "ok" => length = Len(data) /\ Len(data) <= call.bound,
             result = "toobig" => Len(data) > call.bound
      PROVE  FilesInv'
  <2> DEFINE new == [call EXCEPT !.at = "idle", !.result = result]
  <2>1. /\ new \in FileCalls /\ new.at = "idle" /\ new.result = result /\ new.id = call.id
        /\ new.inode = call.inode /\ new.buffer = call.buffer /\ new.bound = call.bound
    BY <1>2, <1>5 DEF FileCalls
  <2>2. program' = [program EXCEPT ![g] = new]
    BY <1>2, <1>7 DEF Returns
  <2> HIDE DEF new
  <2>3. ReaderOk(new, inode)
    BY <1>3, <1>7, <2>1 DEF ReaderOk
  <2> QED
    BY <1>1, <2>1, <2>2, <2>3, ReadMoves
<1>8. ASSUME NEW n \in length + 1 .. Smaller2(call.capacity, Len(data)),
             program' = [program EXCEPT ![g].buffer = SubSeq(data, 1, n)]
      PROVE  FilesInv'
  <2> DEFINE buffer == SubSeq(data, 1, n)
             new == [call EXCEPT !.buffer = buffer]
  <2>1. n \in Nat /\ 1 <= n /\ n <= call.capacity /\ n <= Len(data)
    BY <1>3, <1>4 DEF Smaller2
  <2>2. buffer \in Seq(Texts) /\ Len(buffer) = n
    <3>1. \A i \in 1..n : data[i] \in Texts
      BY <1>4, <2>1, ElementOfSeq
    <3> QED
      BY <2>1, <3>1, SubSeqProperties
  <2>3. buffer = SubSeq(data, 1, Len(buffer))
    BY <2>2
  <2>4. program' = [program EXCEPT ![g] = new]
    BY <1>2, <1>8
  <2> HIDE DEF buffer
  <2>5. /\ new \in FileCalls /\ new.at = "read" /\ new.result = "none" /\ new.id = call.id
        /\ new.inode = call.inode /\ new.buffer = buffer /\ new.bound = call.bound
        /\ new.capacity = call.capacity
    BY <1>1, <1>2, <1>3, <2>2 DEF FileCalls
  <2> HIDE DEF new
  <2>6. ReaderOk(new, inode)
    BY <1>3, <2>1, <2>2, <2>3, <2>5 DEF ReaderOk
  <2> QED
    BY <1>1, <2>4, <2>5, <2>6, ReadMoves
<1>9. CASE length = call.capacity /\ call.capacity = call.bound
           /\ Returns(g, IF length < Len(data) THEN "toobig" ELSE "ok")
  BY <1>3, <1>4, <1>7, <1>9
<1>10. CASE length # call.capacity /\ length = Len(data) /\ Returns(g, "ok")
  BY <1>3, <1>4, <1>7, <1>10
<1> QED
  BY <1>1, <1>6, <1>8, <1>9, <1>10

(* A step that changes the journal and its own call, and nothing else.        *)
LEMMA JournalMoves ==
  ASSUME FilesInv, NEW g \in Program, program[g].at = "append", NEW new \in FileCalls,
         program' = [program EXCEPT ![g] = new],
         UNCHANGED <<inode, entry, past, temporary, calls>>,
         new.at \in {"append", "idle"}, new.id = program[g].id, new.inode = NoFile,
         new.result # "none" => new.at = "idle",
         AppenderOk(new, journal'), \A h \in Program \ {g} : AppenderOk(program[h], journal'),
         JournalOk(journal', calls)
  PROVE  FilesInv'
<1>1. /\ temporary \in [Program -> Nat] /\ program[g].id <= calls /\ calls \in Nat
      /\ WriterOk(temporary[g], program[g], inode) /\ inode \in Seq(Node) /\ Len(inode) \in Nat
      /\ entry \in past /\ past \subseteq [Path -> Nat]
      /\ (\A d \in past : \A p \in Path : d[p] # NoFile => Frozen(d[p]))
  BY ProgramFacts, FilesFacts
<1>2. temporary[g] = NoFile
  BY <1>1 DEF WriterOk, Making
<1>3. WriterOk(temporary[g], new, inode') /\ ReaderOk(new, inode')
  BY <1>2 DEF WriterOk, ReaderOk, Making
<1>4. Seen(past', temporary[g], temporary[g], inode')
  BY <1>1 DEF Seen
<1>5. /\ temporary' = [temporary EXCEPT ![g] = temporary[g]] /\ calls' \in Nat /\ calls <= calls'
      /\ new.id <= calls' /\ ~(new.inode # NoFile) /\ temporary[g] \in Nat
      /\ entry' \in past' /\ past' \subseteq [Path -> Nat] /\ JournalOk(journal', calls')
      /\ inode' \in Seq(Node) /\ Len(inode) <= Len(inode')
      /\ temporary[g] \in {NoFile, temporary[g], Len(inode) + 1}
      /\ \A i \in 1..Len(inode) : i # temporary[g] => inode'[i] = inode[i]
  BY <1>1
<1> QED
  BY <1>3, <1>4, <1>5, FilesMove

AppendedTo(log, longer, id) ==
  /\ longer.data \in Seq(Nat)
  /\ Len(log.data) \in Nat /\ Len(longer.data) = Len(log.data) + 1
  /\ \A i \in 1..Len(log.data) : longer.data[i] = log.data[i]
  /\ longer.data[Len(log.data) + 1] = id
  /\ \A k \in Nat \ {id} : Appended(k, longer) = Appended(k, log)
  /\ Cardinality(Appended(id, log)) \in Nat
  /\ Cardinality(Appended(id, longer)) = Cardinality(Appended(id, log)) + 1

LEMMA AppendedGrows ==
  ASSUME NEW log, log.data \in Seq(Nat), NEW id \in Nat,
         NEW longer, longer.data = Append(log.data, id)
  PROVE  AppendedTo(log, longer, id)
<1> DEFINE n == Len(log.data)
<1>1. log.data \in Seq(Nat) /\ n \in Nat /\ longer.data = Append(log.data, id)
  BY LenProperties
<1>2. /\ longer.data \in Seq(Nat) /\ Len(longer.data) = n + 1 /\ longer.data[n + 1] = id
      /\ \A i \in 1..n : longer.data[i] = log.data[i]
  BY <1>1, AppendProperties
<1>3. longer.data \in Seq(Nat)
  BY <1>2
<1>4. \A i : i \in 1..n + 1 <=> i \in 1..n \/ i = n + 1
  BY <1>1
<1>5. \A k \in Nat \ {id} : Appended(k, longer) = Appended(k, log)
  BY <1>2, <1>4 DEF Appended
<1>6. Appended(id, longer) = Appended(id, log) \cup {n + 1}
  BY <1>2, <1>4 DEF Appended
<1>7. n + 1 \notin Appended(id, log)
  BY <1>1 DEF Appended
<1>8. IsFiniteSet(Appended(id, log))
  <2>1. 1 \in Int /\ n \in Int
    BY <1>1
  <2>2. IsFiniteSet(1..n)
    BY <2>1, FS_Interval
  <2>3. Appended(id, log) \in SUBSET (1..n)
    BY DEF Appended
  <2> QED
    BY <2>2, <2>3, FS_Subset
<1> HIDE DEF n
<1> QED
  BY <1>1, <1>2, <1>3, <1>5, <1>6, <1>7, <1>8, FS_AddElement, FS_CardinalityType, SMTT(30) DEF n, AppendedTo

LEMMA AppendUnitKeeps == ASSUME FilesInv, NEW g \in Program, AppendUnit(g) PROVE FilesInv'
<1> DEFINE call == program[g]
           done == call.done + 1
           new == [call EXCEPT !.done = done]
<1>1. /\ call.at = "append" /\ call.done < Size[call.text]
      /\ journal' = [journal EXCEPT !.data = Append(@, call.id)]
      /\ program' = [program EXCEPT ![g].done = @ + 1]
      /\ UNCHANGED <<inode, entry, past, temporary, calls>>
  BY DEF AppendUnit
<1>2. /\ program \in [Program -> FileCalls] /\ call \in FileCalls /\ AppenderOk(call, journal)
      /\ call.id <= calls /\ call.id \in Nat /\ calls \in Nat /\ JournalOk(journal, calls)
      /\ ReaderOk(call, inode)
      /\ \A h \in Program : AppenderOk(program[h], journal) /\ program[h].id \in Nat
      /\ \A h \in Program \ {g} : program[h].id > 0 => program[h].id # call.id
  BY ProgramFacts, FilesFacts
<1>3. /\ call.text \in Texts /\ call.id > 0 /\ call.inode = NoFile /\ call.done \in Nat
      /\ Cardinality(Appended(call.id, journal)) = call.done /\ call.result = "none"
  BY <1>1, <1>2 DEF AppenderOk, ReaderOk, FileCalls
<1>4. Size[call.text] \in Nat
  BY <1>3, FilesAssumption, ElementOfSeq, LenProperties DEF Texts
<1>5. program' = [program EXCEPT ![g] = new]
  BY <1>1, <1>2
<1>6. /\ new \in FileCalls /\ new.at = "append" /\ new.id = call.id /\ new.inode = NoFile
      /\ new.text = call.text /\ new.done = call.done + 1 /\ new.result = "none"
  <2>1. done \in Nat /\ done = call.done + 1
    BY <1>3
  <2> HIDE DEF done
  <2> QED
    BY <1>1, <1>2, <1>3, <2>1 DEF FileCalls
<1>7. journal \in [data : Seq(Nat), synced : Nat] /\ journal.synced <= Len(journal.data)
      /\ \A i \in 1..Len(journal.data) : journal.data[i] <= calls
  BY <1>2 DEF JournalOk
<1>8. /\ journal' \in [data : Seq(Nat), synced : Nat] /\ journal'.synced = journal.synced
      /\ Len(journal.data) \in Nat /\ Len(journal'.data) = Len(journal.data) + 1
      /\ \A i \in 1..Len(journal.data) : journal'.data[i] = journal.data[i]
      /\ journal'.data[Len(journal.data) + 1] = call.id
      /\ \A k \in Nat \ {call.id} : Appended(k, journal') = Appended(k, journal)
      /\ Cardinality(Appended(call.id, journal')) = Cardinality(Appended(call.id, journal)) + 1
  <2>1. /\ journal'.data = Append(journal.data, call.id) /\ journal'.synced = journal.synced
        /\ journal' = [data |-> journal'.data, synced |-> journal'.synced]
        /\ journal.data \in Seq(Nat) /\ journal.synced \in Nat
    BY <1>1, <1>7
  <2> HIDE DEF call
  <2>2. AppendedTo(journal, journal', call.id)
    BY <1>2, <2>1, AppendedGrows
  <2>3. journal' \in [data : Seq(Nat), synced : Nat]
    BY <2>1, <2>2 DEF AppendedTo
  <2> QED
    BY <2>1, <2>2, <2>3 DEF AppendedTo
<1> HIDE DEF new, call
<1>9. AppenderOk(new, journal')
  BY <1>1, <1>3, <1>4, <1>6, <1>8 DEF AppenderOk
<1>10. ASSUME NEW h \in Program \ {g} PROVE AppenderOk(program[h], journal')
  <2>1. program[h].id > 0 => Appended(program[h].id, journal') = Appended(program[h].id, journal)
    BY <1>2, <1>8
  <2>2. AppenderOk(program[h], journal)
    BY <1>2
  <2> QED
    BY <1>8, <2>1, <2>2 DEF AppenderOk
<1>11. JournalOk(journal', calls)
  <2>1. \A i \in 1..Len(journal'.data) : i \in 1..Len(journal.data) \/ i = Len(journal.data) + 1
    BY <1>8
  <2> QED
    BY <1>2, <1>7, <1>8, <2>1, SMTT(30) DEF JournalOk
<1> QED
  BY <1>1, <1>5, <1>6, <1>9, <1>10, <1>11, JournalMoves DEF call

LEMMA EndAppendKeeps == ASSUME FilesInv, NEW g \in Program, EndAppend(g) PROVE FilesInv'
<1> DEFINE call == program[g]
           result == IF call.bound = 1 THEN "durable" ELSE "ok"
           new == [call EXCEPT !.at = "idle", !.result = result]
<1>1. /\ call.at = "append" /\ call.done = Size[call.text]
      /\ journal' = IF call.bound = 1 THEN Synced(journal) ELSE journal
      /\ program' = [program EXCEPT ![g].at = "idle", ![g].result = result]
      /\ UNCHANGED <<inode, entry, past, temporary, calls>>
  BY DEF EndAppend, Returns
<1>2. /\ program \in [Program -> FileCalls] /\ call \in FileCalls /\ AppenderOk(call, journal)
      /\ JournalOk(journal, calls)
      /\ \A h \in Program : AppenderOk(program[h], journal)
  BY ProgramFacts, FilesFacts
<1>3. /\ call.text \in Texts /\ call.id > 0 /\ call.inode = NoFile
      /\ Cardinality(Appended(call.id, journal)) = Size[call.text]
  BY <1>1, <1>2 DEF AppenderOk
<1>4. program' = [program EXCEPT ![g] = new]
  BY <1>1, <1>2
<1>5. "idle" \in CallStages /\ {"ok", "durable"} \subseteq CallResults
  BY DEF CallStages, CallResults
<1>6. /\ new \in FileCalls /\ new.at = "idle" /\ new.id = call.id /\ new.inode = NoFile
      /\ new.text = call.text /\ new.result = result
  BY <1>2, <1>3, <1>5 DEF FileCalls
<1>7. journal \in [data : Seq(Nat), synced : Nat] /\ journal.synced <= Len(journal.data)
      /\ Len(journal.data) \in Nat /\ \A i \in 1..Len(journal.data) : journal.data[i] <= calls
  BY <1>2, LenProperties DEF JournalOk
<1>8. /\ journal' \in [data : Seq(Nat), synced : Nat] /\ journal'.data = journal.data
      /\ journal.synced <= journal'.synced /\ journal'.synced <= Len(journal.data)
      /\ call.bound = 1 => journal'.synced = Len(journal.data)
  BY <1>1, <1>7 DEF Synced
<1>9. \A k : Appended(k, journal') = Appended(k, journal)
  BY <1>8 DEF Appended
<1>10. \A k : Appended(k, journal) \subseteq 1..Len(journal.data)
  BY DEF Appended
<1>11. new.result = "durable" => call.bound = 1
  BY <1>6
<1> HIDE DEF new, result, call
<1>12. AppenderOk(new, journal')
  BY <1>3, <1>6, <1>8, <1>9, <1>10, <1>11 DEF AppenderOk
<1>13. ASSUME NEW h \in Program \ {g} PROVE AppenderOk(program[h], journal')
  <2>1. AppenderOk(program[h], journal)
    BY <1>2
  <2>2. 1..journal.synced \subseteq 1..journal'.synced
    BY <1>7, <1>8
  <2> QED
    BY <1>9, <2>1, <2>2 DEF AppenderOk
<1>14. JournalOk(journal', calls)
  BY <1>7, <1>8 DEF JournalOk
<1> QED
  BY <1>1, <1>4, <1>6, <1>12, <1>13, <1>14, JournalMoves DEF call

(* The power fails: a file that is finished stays, and so does what has been  *)
(* appended durably.                                                          *)
LeftOf(file, keep) == [file EXCEPT !.data = IF keep THEN @ ELSE SubSeq(@, 1, file.synced)]

Cut(nodes, keep) == [i \in DOMAIN nodes |-> LeftOf(nodes[i], keep)]

LEMMA CutFiles ==
  ASSUME NEW keep \in BOOLEAN, NEW nodes \in Seq(Node)
  PROVE  /\ Cut(nodes, keep) \in Seq(Node) /\ DOMAIN Cut(nodes, keep) = DOMAIN nodes
         /\ \A i \in DOMAIN nodes : Finished(nodes[i]) => Cut(nodes, keep)[i] = nodes[i]
<1> DEFINE cut == Cut(nodes, keep)
<1>1. Len(nodes) \in Nat /\ DOMAIN nodes = 1..Len(nodes)
  BY LenProperties
<1>2. ASSUME NEW i \in 1..Len(nodes)
      PROVE  cut[i] \in Node /\ (Finished(nodes[i]) => cut[i] = nodes[i])
  <2> DEFINE node == nodes[i]
             data == IF keep THEN node.data ELSE SubSeq(node.data, 1, node.synced)
  <2>1. node \in Node
    BY ElementOfSeq
  <2>2. cut[i] = [node EXCEPT !.data = data]
    BY <1>1 DEF LeftOf, Cut
  <2> HIDE DEF node
  <2>3. /\ node \in [data : Seq(Texts), synced : Nat] /\ node.data \in Seq(Texts)
        /\ node.synced \in Nat /\ node.synced <= Len(node.data) /\ Len(node.data) \in Nat
    BY <2>1, LenProperties DEF Node
  <2>4. /\ SubSeq(node.data, 1, node.synced) \in Seq(Texts)
        /\ Len(SubSeq(node.data, 1, node.synced)) = node.synced
    <3>1. \A k \in 1..node.synced : node.data[k] \in Texts
      BY <2>3, ElementOfSeq
    <3> QED
      BY <2>3, <3>1, SubSeqProperties
  <2>5. data \in Seq(Texts) /\ node.synced <= Len(data)
    BY <2>3, <2>4
  <2>6. Finished(node) => data = node.data
    BY <2>3, SubSeqFull DEF Finished
  <2> HIDE DEF data
  <2> HIDE DEF cut
  <2>7. [node EXCEPT !.data = data] \in Node
    BY <2>3, <2>5 DEF Node
  <2>8. [node EXCEPT !.data = node.data] = node
    BY <2>3
  <2>9. Finished(node) => cut[i] = node
    BY <2>2, <2>6, <2>8
  <2> QED
    BY <2>2, <2>7, <2>9 DEF node
<1>3. cut \in [1..Len(nodes) -> Node]
  BY <1>1, <1>2 DEF Cut
<1>4. cut \in Seq(Node)
  BY <1>1, <1>3, SeqDef
<1>5. DOMAIN cut = DOMAIN nodes
  BY <1>1 DEF Cut
<1>6. \A i \in DOMAIN nodes : Finished(nodes[i]) => cut[i] = nodes[i]
  BY <1>1, <1>2
<1> QED
  BY <1>4, <1>5, <1>6

LEMMA LosePowerKeeps == ASSUME FilesInv, LosePower PROVE FilesInv'
<1>1. PICK directory \in past : entry' = directory /\ past' = {directory}
  BY DEF LosePower
<1>2. PICK keep \in BOOLEAN :
 inode' = Cut(inode, keep)
  BY DEF LosePower, LeftOf, Cut
<1>3. PICK rest \in Left(journal) : journal' = [data |-> rest, synced |-> Len(rest)]
  BY DEF LosePower
<1>4. /\ program' = [g \in Program |-> IF program[g].result = "durable" THEN program[g] ELSE Quiet]
      /\ temporary' = [g \in Program |-> NoFile] /\ calls' = calls
  BY DEF LosePower
<1>5. /\ inode \in Seq(Node) /\ DOMAIN inode = 1..Len(inode) /\ Len(inode) \in Nat
      /\ past \subseteq [Path -> Nat] /\ calls \in Nat /\ program \in [Program -> FileCalls]
      /\ JournalOk(journal, calls)
      /\ \A d \in past : \A p \in Path : d[p] # NoFile => Frozen(d[p])
      /\ \A g \in Program : /\ ReaderOk(program[g], inode) /\ AppenderOk(program[g], journal)
                            /\ program[g].id <= calls
      /\ \A g, h \in Program : g # h => (program[g].id > 0 => program[g].id # program[h].id)
  BY FilesFacts
<1>6. /\ inode' \in Seq(Node) /\ DOMAIN inode' = DOMAIN inode
      /\ \A i \in DOMAIN inode : Finished(inode[i]) => inode'[i] = inode[i]
  BY <1>2, <1>5, CutFiles
<1>7. entry' \in past' /\ past' \subseteq [Path -> Nat]
  BY <1>1, <1>5
<1>8. \A d \in past' : \A p \in Path : d[p] # NoFile => FrozenIn(d[p], inode', temporary')
  <2> SUFFICES ASSUME NEW p \in Path, directory[p] # NoFile
               PROVE  FrozenIn(directory[p], inode', temporary')
    BY <1>1
  <2>1. Frozen(directory[p])
    BY <1>5
  <2>2. directory[p] \in DOMAIN inode /\ Finished(inode[directory[p]])
    BY <2>1 DEF Frozen, FrozenIn
  <2> QED
    BY <1>4, <1>6, <2>2 DEF FrozenIn
<1>9. /\ Quiet \in FileCalls /\ Quiet.inode = NoFile /\ Quiet.done = 0 /\ Quiet.buffer = <<>>
      /\ Quiet.result = "none" /\ Quiet.at = "idle" /\ Quiet.id = 0
  BY EmptySeq DEF Quiet, FileCalls, CallStages, CallResults, NoFile
<1>10. temporary' \in [Program -> Nat] /\ program' \in [Program -> FileCalls]
  BY <1>4, <1>5, <1>9 DEF NoFile
<1>11. PICK n \in journal.synced .. Len(journal.data) : rest = SubSeq(journal.data, 1, n)
  BY <1>3 DEF Left
<1>12. /\ journal.data \in Seq(Nat) /\ Len(journal.data) \in Nat /\ journal.synced \in Nat
       /\ journal.synced <= Len(journal.data)
       /\ \A i \in 1..Len(journal.data) : journal.data[i] \in Nat /\ journal.data[i] <= calls
  BY <1>5, LenProperties, ElementOfSeq DEF JournalOk
<1>13. n \in Nat /\ n <= Len(journal.data) /\ journal.synced <= n
  BY <1>11, <1>12
<1>14. rest \in Seq(Nat) /\ Len(rest) = n /\ \A i \in 1..n : rest[i] = journal.data[i]
  <2>1. \A i \in 1..n : journal.data[i] \in Nat
    BY <1>12, <1>13
  <2>2. 1 \in Int /\ n \in Int /\ \A i \in 1..n : 1 + i - 1 = i
    BY <1>13
  <2> QED
    BY <1>11, <1>13, <2>1, <2>2, SubSeqProperties
<1>15. JournalOk(journal', calls')
  <2>1. journal' \in [data : Seq(Nat), synced : Nat] /\ journal'.synced = n /\ journal'.data = rest
    BY <1>3, <1>13, <1>14
  <2>2. \A i \in 1..Len(journal'.data) : journal'.data[i] <= calls'
    BY <1>4, <1>12, <1>13, <1>14, <2>1, SMTT(30)
  <2>3. journal'.synced <= Len(journal'.data)
    BY <1>13, <1>14, <2>1
  <2> QED
    BY <2>1, <2>2, <2>3 DEF JournalOk
<1>16. \A id : Appended(id, journal) \subseteq 1..journal.synced =>
         Appended(id, journal') = Appended(id, journal)
  <2>1. journal'.data = rest /\ 1..journal.synced \subseteq 1..n
        /\ 1..n \subseteq 1..Len(journal.data)
    BY <1>3, <1>12, <1>13
  <2> QED
    BY <1>14, <2>1 DEF Appended
<1>17. ASSUME NEW g \in Program
       PROVE  /\ WriterOk(temporary'[g], program'[g], inode') /\ ReaderOk(program'[g], inode')
              /\ AppenderOk(program'[g], journal') /\ program'[g].id <= calls'
              /\ program'[g].inode = NoFile
  <2>1. CASE program[g].result = "durable"
    <3>1. program'[g] = program[g] /\ temporary'[g] = NoFile
      BY <1>4, <2>1
    <3>2. AppenderOk(program[g], journal) /\ ReaderOk(program[g], inode) /\ program[g].id <= calls
      BY <1>5
    <3>3. /\ program[g].at = "idle" /\ program[g].inode = NoFile /\ program[g].id > 0
          /\ program[g].text \in Texts /\ Appended(program[g].id, journal) \subseteq 1..journal.synced
          /\ Cardinality(Appended(program[g].id, journal)) = Size[program[g].text]
      BY <2>1, <3>2 DEF AppenderOk
    <3>4. Appended(program[g].id, journal') = Appended(program[g].id, journal)
      BY <1>16, <3>3
    <3>5. 1..journal.synced \subseteq 1..journal'.synced
      BY <1>3, <1>12, <1>13, <1>14
    <3>6. AppenderOk(program[g], journal')
      BY <3>3, <3>4, <3>5 DEF AppenderOk
    <3>7. WriterOk(NoFile, program[g], inode') /\ ReaderOk(program[g], inode')
      BY <3>3 DEF WriterOk, ReaderOk, Making
    <3> QED
      BY <1>4, <3>1, <3>2, <3>3, <3>6, <3>7
  <2>2. CASE program[g].result # "durable"
    <3>1. program'[g] = Quiet /\ temporary'[g] = NoFile
      BY <1>4, <2>2
    <3> QED
      BY <1>4, <1>5, <1>9, <3>1 DEF WriterOk, ReaderOk, AppenderOk, Making
  <2> QED
    BY <2>1, <2>2
<1>18. \A g, h \in Program : g # h =>
         /\ temporary'[g] # NoFile => temporary'[g] # temporary'[h]
         /\ program'[g].id > 0 => program'[g].id # program'[h].id
  <2>1. \A g \in Program : program'[g] = program[g] \/ program'[g].id = 0
    BY <1>4, <1>9
  <2>2. \A g \in Program : temporary'[g] = NoFile
    BY <1>4
  <2> QED
    BY <1>5, <2>1, <2>2
<1> QED
  BY <1>4, <1>5, <1>6, <1>7, <1>8, <1>10, <1>15, <1>17, <1>18 DEF FilesInv, Frozen

(* The invariant of the files.                                                *)
LEMMA FilesInit1 == FilesInit => FilesInv
<1> SUFFICES ASSUME FilesInit PROVE FilesInv
  OBVIOUS
<1>1. PICK t \in Texts : inode = <<[data |-> Whole(t), synced |-> Size[t]]>>
  BY DEF FilesInit
<1>2. /\ entry \in [Path -> {NoFile, 1}] /\ past = {entry}
      /\ temporary = [g \in Program |-> NoFile] /\ journal = [data |-> <<>>, synced |-> 0]
      /\ program = [g \in Program |-> Quiet] /\ calls = 0
  BY DEF FilesInit
<1> DEFINE node == [data |-> Whole(t), synced |-> Size[t]]
<1>3. node \in Node /\ Finished(node)
  <2>1. Size[t] \in Nat
    BY FilesAssumption, ElementOfSeq, LenProperties DEF Texts
  <2>2. Whole(t) \in Seq(Texts) /\ Len(Whole(t)) = Size[t]
    BY <2>1, IsASeq DEF Whole
  <2>3. node \in [data : Seq(Texts), synced : Nat] /\ node.data = Whole(t) /\ node.synced = Size[t]
    BY <2>1, <2>2
  <2> HIDE DEF node
  <2> QED
    BY <2>1, <2>2, <2>3 DEF Node, Finished
<1> HIDE DEF node
<1>4. inode = <<node>> /\ inode \in Seq(Node) /\ DOMAIN inode = {1} /\ inode[1] = node
  <2>1. inode = <<node>>
    BY <1>1 DEF node
  <2> QED
    BY <1>3, <2>1
<1>5. /\ Quiet \in FileCalls /\ Quiet.inode = NoFile /\ Quiet.done = 0 /\ Quiet.buffer = <<>>
      /\ Quiet.result = "none" /\ Quiet.at = "idle" /\ Quiet.id = 0
  BY EmptySeq DEF Quiet, FileCalls, CallStages, CallResults, NoFile
<1>6. Frozen(1)
  BY <1>2, <1>3, <1>4 DEF Frozen, FrozenIn, NoFile
<1>7. \A g \in Program : WriterOk(temporary[g], program[g], inode) /\ ReaderOk(program[g], inode)
                         /\ AppenderOk(program[g], journal)
  BY <1>2, <1>5 DEF WriterOk, ReaderOk, AppenderOk, Making
<1>8. JournalOk(journal, calls)
  BY <1>2, EmptySeq DEF JournalOk
<1>9. entry \in [Path -> Nat]
  BY <1>2 DEF NoFile
<1>10. \A d \in past : \A p \in Path : d[p] # NoFile => Frozen(d[p])
  BY <1>2, <1>6
<1> QED
  BY <1>2, <1>4, <1>5, <1>7, <1>8, <1>9, <1>10 DEF FilesInv, NoFile

LEMMA FilesStep == FilesInv /\ [FilesNext]_filesVars => FilesInv'
<1> SUFFICES ASSUME FilesInv, [FilesNext]_filesVars PROVE FilesInv'
  OBVIOUS
<1>1. CASE UNCHANGED filesVars
  BY <1>1 DEF filesVars, FilesInv, Frozen
<1>2. ASSUME NEW g \in Program, Make(g) PROVE FilesInv'
  <2>1. CASE Returns(g, "error") /\ UNCHANGED <<inode, temporary>>
    BY <1>2, <2>1, ErrorKeeps
  <2>2. CASE ~UNCHANGED <<inode, temporary>>
    BY <1>2, <2>2, MakeKeeps
  <2>3. CASE temporary' = [temporary EXCEPT ![g] = Len(inode) + 1] /\ UNCHANGED <<inode, temporary>>
    <3>1. /\ temporary \in [Program -> Nat] /\ Len(inode) \in Nat
          /\ temporary[g] # NoFile => temporary[g] \in 1..Len(inode)
      BY ProgramFacts
    <3>2. temporary[g] = Len(inode) + 1
      BY <2>3, <3>1
    <3> QED
      BY <3>1, <3>2 DEF NoFile
  <2> QED
    BY <1>2, <2>1, <2>2, <2>3 DEF Make
<1>3. ASSUME NEW g \in Program,
             \/ WriteFails(g) \/ CallFails(g) \/ Write(g) \/ Sync(g) \/ Replace(g)
             \/ OpenToRead(g) \/ ReadOn(g) \/ AppendUnit(g) \/ EndAppend(g) \/ Die(g)
      PROVE  FilesInv'
  BY <1>3, ErrorKeeps, WriteKeeps, SyncKeeps, ReplaceKeeps, OpenToReadKeeps, ReadOnKeeps,
     AppendUnitKeeps, EndAppendKeeps, DieKeeps
<1>4. ASSUME NEW g \in Program,
             \/ \E p \in Path :
                  \/ \E t \in Texts : WriteText(g, p, t)
                  \/ \E bound \in Bounds, room \in {0, FirstRoom} : ReadText(g, p, bound, room)
             \/ \E t \in Texts, durably \in BOOLEAN : AppendTo(g, t, durably)
      PROVE  FilesInv'
  BY <1>4, BeginsKeep
<1> QED
  BY <1>1, <1>2, <1>3, <1>4, DirectoryKeeps, LosePowerKeeps DEF FilesNext

LEMMA FilesFollow == FilesInv => FilesAreWhole
<1> SUFFICES ASSUME FilesInv PROVE FilesAreWhole
  OBVIOUS
<1>1. PathsHoldWholeTexts
  BY FilesFacts DEF PathsHoldWholeTexts, Frozen, FrozenIn, Finished
<1>2. ReadsAreWhole
  <2> SUFFICES ASSUME NEW g \in Program, program[g].inode # NoFile, program[g].result # "none"
               PROVE  LET data == inode[program[g].inode].data
                      IN  /\ program[g].result = "ok" => program[g].buffer = data
                          /\ program[g].result = "toobig" => Len(data) > program[g].bound
                          /\ program[g].result = "ok" => Len(data) <= program[g].bound
    BY DEF ReadsAreWhole
  <2> DEFINE data == inode[program[g].inode].data
  <2>1. /\ ReaderOk(program[g], inode) /\ Frozen(program[g].inode)
        /\ inode \in Seq(Node) /\ DOMAIN inode = 1..Len(inode)
    BY ProgramFacts
  <2>2. data \in Seq(Texts)
    <3>1. program[g].inode \in 1..Len(inode)
      BY <2>1 DEF Frozen, FrozenIn
    <3>2. inode[program[g].inode] \in Node
      BY <2>1, <3>1, ElementOfSeq
    <3> QED
      BY <3>2 DEF Node
  <2>3. SubSeq(data, 1, Len(data)) = data
    BY <2>2, SubSeqFull
  <2> QED
    BY <2>1, <2>3 DEF ReaderOk
<1>3. ConfirmedIsOnDisk
  <2> SUFFICES ASSUME NEW g \in Program, program[g].result = "durable"
               PROVE  Cardinality({i \in 1..journal.synced : journal.data[i] = program[g].id})
                        = Size[program[g].text]
    BY DEF ConfirmedIsOnDisk
  <2>1. AppenderOk(program[g], journal) /\ JournalOk(journal, calls)
    BY ProgramFacts, FilesFacts
  <2>2. {i \in 1..journal.synced : journal.data[i] = program[g].id}
          = Appended(program[g].id, journal)
    <3>1. Appended(program[g].id, journal) \subseteq 1..journal.synced
      BY <2>1 DEF AppenderOk
    <3>2. 1..journal.synced \subseteq 1..Len(journal.data)
      BY <2>1, LenProperties DEF JournalOk
    <3> QED
      BY <3>1, <3>2 DEF Appended
  <2> QED
    BY <2>1, <2>2 DEF AppenderOk
<1> QED
  BY <1>1, <1>2, <1>3 DEF FilesAreWhole

(* Files are whole: whoever writes, reads, renames, removes or appends at the *)
(* same time, whichever call fails, whoever dies and whenever the power fails, *)
(* a path holds one whole text or nothing, a read returns a whole text or     *)
(* refuses it, and octets confirmed durable are on the disk (the calls of     *)
(* native_host_filesystem).                                                   *)
THEOREM FilesStayWhole == FilesSpec => []FilesAreWhole
BY FilesInit1, FilesStep, FilesFollow, PTL DEF FilesSpec

(* The lease on a file has one holder, above the standard descriptors, and is *)
(* never stuck with nobody (native_host_filesystem_lock_exclusive_v0).         *)
THEOREM LeasesStayExclusive == FileLeaseSpec => []LeaseIsExclusive
BY FileLeaseInit1, FileLeaseStep, LeaseFollows, PTL DEF FileLeaseSpec

-----------------------------------------------------------------------------
(* Messages through a FIFO, for any number of writers, messages and bounds.   *)

Unit == [of : Nat, unit : {"lf", "cr", "x"}]
WriterResults == {"none", "timeout", "toolong", "broken", "ok", "unclosed"}
WriterCalls ==
  [at : {"idle", "open", "write", "close"}, number : Nat, result : WriterResults]
ReaderCalls ==
  [at : {"closed", "idle", "read"}, line : Seq(Unit), overflow : BOOLEAN, bound : Nat,
   timed : BOOLEAN, result : {"none", "line", "toobig", "nothing", "eof"}]

(* The units of a message that has a number.                                  *)
Spelled(m, n) ==
  [i \in 1..m.length + 1 |->
     [of |-> n, unit |-> IF i = m.length + 1 THEN "lf"
                         ELSE IF m.cr /\ i = m.length THEN "cr" ELSE "x"]]

(* A message has reached the pipe exactly when its writer knows, once.        *)
InOrder(n, order) == \E i \in 1..Len(order) : order[i] = n
Numbered(order, texts) ==
  /\ order \in Seq(Nat) /\ texts \in Seq(Message)
  /\ \A i \in 1..Len(order) : order[i] \in 1..Len(texts)
  /\ \A i, j \in 1..Len(order) : order[i] = order[j] => i = j
SenderOk(call, order, texts) ==
  /\ call.number <= Len(texts) /\ (call.at # "idle" => call.number > 0)
  /\ call.at \in {"open", "write"} => call.result = "none" /\ ~InOrder(call.number, order)
  /\ call.at = "close" => call.result \in {"toolong", "broken", "timeout", "ok"}
  /\ call.result \in {"toolong", "broken", "timeout"} => ~InOrder(call.number, order)
  /\ call.result \in {"ok", "unclosed"} => InOrder(call.number, order)

(* The pipe holds, one after another, the units of every message not yet      *)
(* taken; of the first one the reader may have read some.  start: where each  *)
(* message would start in the pipe, so that 1 - start of the first one is     *)
(* what has been read of it.                                                  *)
Laid(start, units, order, from, texts) ==
  /\ start \in [from + 1 .. Len(order) + 1 -> Int]
  /\ start[from + 1] <= 1 /\ start[Len(order) + 1] = Len(units) + 1
  /\ \A j \in from + 1 .. Len(order) :
       /\ start[j + 1] = start[j] + texts[order[j]].length + 1
       /\ start[j + 1] > 1 /\ start[j + 1] <= Len(units) + 1
       /\ \A u \in 1..texts[order[j]].length + 1 :
            start[j] + u > 1 =>
              units[start[j] + u - 1] = Spelled(texts[order[j]], order[j])[u]

(* What the reader has of the first message: its beginning, or more than it   *)
(* has room for.                                                              *)
HasRead(k, call, order, from, texts) ==
  /\ call.at # "read" => k = 0
  /\ call.at = "read" /\ call.overflow => k > call.bound + 1 /\ Len(call.line) = call.bound + 1
  /\ call.at = "read" /\ ~call.overflow =>
       /\ k <= call.bound + 1 /\ Len(call.line) = k
       /\ \A i \in 1..k : call.line[i] = Spelled(texts[order[from + 1]], order[from + 1])[i]
Flows(start, units, order, from, texts, call) ==
  Laid(start, units, order, from, texts) /\ HasRead(1 - start[from + 1], call, order, from, texts)

(* What the last call of the reader returned is the message taken last.       *)
Returned(call, order, from, texts) ==
  LET n == order[from]
  IN  /\ call.result # "none" => call.at = "idle"
      /\ call.result = "line" =>
           from > 0 /\ call.line = Stripped(SubSeq(Spelled(texts[n], n), 1, texts[n].length))
      /\ call.result = "toobig" =>
           from > 0 /\ texts[n].length - (IF texts[n].cr THEN 1 ELSE 0) > call.bound

StreamsInv ==
  /\ Numbered(sent, numbered) /\ taken \in 0..Len(sent) /\ pipe \in Seq(Unit)
  /\ writer \in [Writer -> WriterCalls] /\ reader \in ReaderCalls
  /\ \A w \in Writer : SenderOk(writer[w], sent, numbered)
  /\ \A w, v \in Writer : w # v /\ writer[w].number > 0 => writer[w].number # writer[v].number
  /\ \E start \in [taken + 1 .. Len(sent) + 1 -> Int] :
       Flows(start, pipe, sent, taken, numbered, reader)
  /\ Returned(reader, sent, taken, numbered)

LEMMA SpelledFacts ==
  ASSUME NEW m \in Message, NEW n \in Nat
  PROVE  /\ m.length \in Nat /\ m.cr \in BOOLEAN
         /\ Spelled(m, n) \in Seq(Unit) /\ Len(Spelled(m, n)) = m.length + 1
         /\ \A u \in 1..m.length + 1 :
              /\ Spelled(m, n)[u] \in Unit
              /\ Spelled(m, n)[u].unit = "lf" <=> u = m.length + 1
              /\ u <= m.length => (Spelled(m, n)[u].unit = "cr" <=> m.cr /\ u = m.length)
<1>1. m.length \in Nat /\ m.cr \in BOOLEAN /\ m.length + 1 \in Nat
  BY StreamsAssumption
<1>2. \A u \in 1..m.length + 1 :
        /\ Spelled(m, n)[u] \in Unit
        /\ Spelled(m, n)[u].unit = "lf" <=> u = m.length + 1
        /\ u <= m.length => (Spelled(m, n)[u].unit = "cr" <=> m.cr /\ u = m.length)
  BY <1>1 DEF Spelled, Unit
<1>3. Spelled(m, n) \in [1..m.length + 1 -> Unit]
  BY <1>1, <1>2 DEF Spelled
<1>4. Spelled(m, n) \in Seq(Unit) /\ Len(Spelled(m, n)) = m.length + 1
  BY <1>1, <1>3, SeqDef, LenProperties
<1> QED
  BY <1>1, <1>2, <1>4

LEMMA NumberedFacts ==
  ASSUME NEW order, NEW texts, Numbered(order, texts)
  PROVE  /\ order \in Seq(Nat) /\ texts \in Seq(Message) /\ Len(order) \in Nat /\ Len(texts) \in Nat
         /\ \A j \in 1..Len(order) :
              /\ order[j] \in 1..Len(texts) /\ order[j] \in Nat /\ texts[order[j]] \in Message
              /\ texts[order[j]].length \in Nat
<1>1. /\ order \in Seq(Nat) /\ texts \in Seq(Message) /\ Len(order) \in Nat /\ Len(texts) \in Nat
      /\ \A j \in 1..Len(order) : order[j] \in 1..Len(texts)
  BY LenProperties DEF Numbered
<1>2. ASSUME NEW j \in 1..Len(order)
      PROVE  order[j] \in Nat /\ texts[order[j]] \in Message /\ texts[order[j]].length \in Nat
  <2>1. texts[order[j]] \in Message
    BY <1>1, ElementOfSeq
  <2> QED
    BY <1>1, <2>1, StreamsAssumption
<1> QED
  BY <1>1, <1>2

(* What has been read of the first message, if there is one.                  *)
LEMMA FlowsFacts ==
  ASSUME NEW order, NEW texts, Numbered(order, texts), NEW from \in 0..Len(order),
         NEW units \in Seq(Unit), NEW start, Laid(start, units, order, from, texts)
  PROVE  /\ Len(units) \in Nat /\ from \in Nat /\ from + 1 \in from + 1 .. Len(order) + 1
         /\ \A j \in from + 1 .. Len(order) + 1 : start[j] \in Int
         /\ \A j \in from + 1 .. Len(order) : j \in 1..Len(order) /\ j + 1 \in from + 1 .. Len(order) + 1
         /\ 1 - start[from + 1] \in Nat
         /\ from = Len(order) => units = <<>> /\ start[from + 1] = 1
         /\ units = <<>> => from = Len(order)
<1>1. /\ Len(units) \in Nat /\ Len(order) \in Nat /\ from \in Nat /\ from <= Len(order)
      /\ Len(units) = 0 <=> units = <<>>
  BY NumberedFacts, LenProperties, EmptySeq
<1>2. /\ start \in [from + 1 .. Len(order) + 1 -> Int] /\ start[from + 1] <= 1
      /\ start[Len(order) + 1] = Len(units) + 1
      /\ \A j \in from + 1 .. Len(order) : start[j + 1] > 1 /\ start[j + 1] <= Len(units) + 1
  BY DEF Laid
<1>3. from + 1 \in from + 1 .. Len(order) + 1
      /\ \A j \in from + 1 .. Len(order) : j \in 1..Len(order) /\ j + 1 \in from + 1 .. Len(order) + 1
  BY <1>1
<1>4. start[from + 1] \in Int
  BY <1>2, <1>3
<1>5. from = Len(order) => units = <<>> /\ start[from + 1] = 1
  BY <1>1, <1>2
<1>6. from < Len(order) => from + 1 \in from + 1 .. Len(order)
  BY <1>1
<1>7. from < Len(order) => start[from + 2] > 1 /\ start[from + 2] <= Len(units) + 1
                           /\ start[from + 2] \in Int
  <2>1. from < Len(order) => from + 2 \in from + 1 .. Len(order) + 1 /\ (from + 1) + 1 = from + 2
    BY <1>1
  <2>2. from < Len(order) => start[(from + 1) + 1] > 1 /\ start[(from + 1) + 1] <= Len(units) + 1
    BY <1>2, <1>6
  <2> QED
    BY <1>2, <2>1, <2>2
<1>8. units = <<>> => from = Len(order)
  BY <1>1, <1>7
<1>9. \A j \in from + 1 .. Len(order) + 1 : start[j] \in Int
  BY <1>2
<1>10. 1 - start[from + 1] \in Nat
  BY <1>2, <1>4
<1> QED
  BY <1>1, <1>3, <1>5, <1>8, <1>9, <1>10

(* A message more has a number: the pipe does not change.                     *)
LEMMA FlowsNumber ==
  ASSUME NEW order, NEW texts, Numbered(order, texts), NEW from \in 0..Len(order),
         NEW units \in Seq(Unit), NEW start, NEW call, NEW m \in Message,
         Flows(start, units, order, from, texts, call)
  PROVE  Flows(start, units, order, from, Append(texts, m), call)
<1>1. /\ \A j \in 1..Len(order) : order[j] \in 1..Len(texts)
      /\ texts \in Seq(Message) /\ Len(order) \in Nat
  BY NumberedFacts
<1>2. \A j \in 1..Len(order) : Append(texts, m)[order[j]] = texts[order[j]]
  BY <1>1, AppendProperties
<1>3. /\ Laid(start, units, order, from, texts) /\ HasRead(1 - start[from + 1], call, order, from, texts)
  BY DEF Flows
<1>4. from + 1 .. Len(order) \subseteq 1..Len(order)
  BY <1>1
<1>5. Laid(start, units, order, from, Append(texts, m))
  <2> DEFINE longer == Append(texts, m)
  <2>1. \A j \in from + 1 .. Len(order) : texts[order[j]] = longer[order[j]]
    BY <1>2, <1>4
  <2> HIDE DEF Spelled, longer
  <2>2. /\ start \in [from + 1 .. Len(order) + 1 -> Int]
        /\ start[from + 1] <= 1 /\ start[Len(order) + 1] = Len(units) + 1
        /\ \A j \in from + 1 .. Len(order) :
             /\ start[j + 1] = start[j] + texts[order[j]].length + 1
             /\ start[j + 1] > 1 /\ start[j + 1] <= Len(units) + 1
             /\ \A u \in 1..texts[order[j]].length + 1 :
                  start[j] + u > 1 =>
                    units[start[j] + u - 1] = Spelled(texts[order[j]], order[j])[u]
    BY <1>3 DEF Laid
  <2>3. \A j \in from + 1 .. Len(order) :
             /\ start[j + 1] = start[j] + longer[order[j]].length + 1
             /\ start[j + 1] > 1 /\ start[j + 1] <= Len(units) + 1
             /\ \A u \in 1..longer[order[j]].length + 1 :
                  start[j] + u > 1 =>
                    units[start[j] + u - 1] = Spelled(longer[order[j]], order[j])[u]
    <3> SUFFICES ASSUME NEW j \in from + 1 .. Len(order)
                 PROVE  /\ start[j + 1] = start[j] + longer[order[j]].length + 1
                        /\ start[j + 1] > 1 /\ start[j + 1] <= Len(units) + 1
                        /\ \A u \in 1..longer[order[j]].length + 1 :
                             start[j] + u > 1 =>
                               units[start[j] + u - 1] = Spelled(longer[order[j]], order[j])[u]
      OBVIOUS
    <3> DEFINE t == texts[order[j]]
    <3>1. longer[order[j]] = t
      BY <2>1
    <3>2. /\ start[j + 1] = start[j] + t.length + 1
          /\ start[j + 1] > 1 /\ start[j + 1] <= Len(units) + 1
          /\ \A u \in 1..t.length + 1 :
               start[j] + u > 1 => units[start[j] + u - 1] = Spelled(t, order[j])[u]
      BY <2>2, Zenon
    <3> HIDE DEF t
    <3> QED
      BY <3>1, <3>2, Zenon
  <2>4. Laid(start, units, order, from, longer)
    BY <2>2, <2>3, Zenon DEF Laid
  <2> QED
    BY <2>4 DEF longer
<1>6. HasRead(1 - start[from + 1], call, order, from, Append(texts, m))
  <2>1. CASE from = Len(order)
    <3>1. 1 - start[from + 1] = 0
      BY <1>3, <2>1, FlowsFacts
    <3>2. \A i \in 1..(1 - start[from + 1]) : FALSE
      BY <3>1
    <3> QED
      BY <1>3, <3>1, <3>2 DEF HasRead
  <2>2. CASE from # Len(order)
    <3>1. from + 1 \in 1..Len(order)
      BY <1>1, <2>2
    <3> QED
      BY <1>2, <1>3, <3>1 DEF HasRead
  <2> QED
    BY <2>1, <2>2
<1> QED
  BY <1>5, <1>6 DEF Flows

LEMMA WithinUnits ==
  ASSUME NEW length \in Nat, NEW width \in Nat, NEW here \in Int, NEW there \in Int,
         NEW v \in 1..length + 1, here + v > 1, there = here + length + 1, there <= width + 1
  PROVE  here + v - 1 \in 1..width
OBVIOUS

LEMMA NextPlace ==
  ASSUME NEW units \in Nat, NEW length \in Nat, NEW here, NEW there, NEW all,
         here = units + 1, there = units + length + 2, all = units + length + 1
  PROVE  there = here + length + 1 /\ there > 1 /\ there <= all + 1
OBVIOUS

(* A message reaches the pipe, all of it.                                     *)
LEMMA FlowsSend ==
  ASSUME NEW order, NEW texts, Numbered(order, texts), NEW from \in 0..Len(order),
         NEW units \in Seq(Unit), NEW start, NEW call, NEW n \in 1..Len(texts),
         Flows(start, units, order, from, texts, call)
  PROVE  \E next \in [from + 1 .. Len(Append(order, n)) + 1 -> Int] :
           Flows(next, units \o Spelled(texts[n], n), Append(order, n), from, texts, call)
<1> DEFINE m == texts[n]
           new == Spelled(m, n)
           all == units \o new
           longer == Append(order, n)
           end == Len(order) + 1
           next == [j \in from + 1 .. end + 1 |-> IF j = end + 1 THEN Len(units) + m.length + 2 ELSE start[j]]
<1>1. /\ order \in Seq(Nat) /\ texts \in Seq(Message) /\ Len(order) \in Nat /\ Len(texts) \in Nat
      /\ n \in Nat /\ m \in Message /\ m.length \in Nat
  BY NumberedFacts, ElementOfSeq, StreamsAssumption
<1>2. Laid(start, units, order, from, texts) /\ HasRead(1 - start[from + 1], call, order, from, texts)
  BY DEF Flows
<1>3. /\ Len(units) \in Nat /\ from \in Nat
      /\ \A j \in from + 1 .. end : start[j] \in Int
      /\ \A j \in from + 1 .. Len(order) : j \in 1..Len(order) /\ j + 1 \in from + 1 .. end
      /\ from = Len(order) => units = <<>> /\ start[from + 1] = 1
  BY <1>2, FlowsFacts
<1>4. /\ start[from + 1] <= 1 /\ start[end] = Len(units) + 1
      /\ \A j \in from + 1 .. Len(order) :
           /\ start[j + 1] = start[j] + texts[order[j]].length + 1
           /\ start[j + 1] > 1 /\ start[j + 1] <= Len(units) + 1
           /\ \A u \in 1..texts[order[j]].length + 1 :
                start[j] + u > 1 =>
                  units[start[j] + u - 1] = Spelled(texts[order[j]], order[j])[u]
  BY <1>2 DEF Laid
<1>5. /\ longer \in Seq(Nat) /\ Len(longer) = end /\ longer[end] = n
      /\ \A j \in 1..Len(order) : longer[j] = order[j]
  BY <1>1, AppendProperties
<1>6. new \in Seq(Unit) /\ Len(new) = m.length + 1
  BY <1>1, SpelledFacts
<1> HIDE DEF new
<1>7. /\ all \in Seq(Unit) /\ Len(all) = Len(units) + m.length + 1
      /\ \A i \in 1..Len(units) : all[i] = units[i]
      /\ \A u \in 1..m.length + 1 : all[Len(units) + u] = new[u]
  <2>1. /\ all \in Seq(Unit) /\ Len(all) = Len(units) + Len(new)
        /\ \A i \in 1..Len(units) + Len(new) :
             all[i] = IF i <= Len(units) THEN units[i] ELSE new[i - Len(units)]
    BY <1>6, ConcatProperties
  <2>2. \A i \in 1..Len(units) : i \in 1..Len(units) + Len(new) /\ i <= Len(units)
    BY <1>1, <1>3, <1>6, SMTT(30)
  <2>3. \A u \in 1..m.length + 1 : /\ Len(units) + u \in 1..Len(units) + Len(new)
                                   /\ ~(Len(units) + u <= Len(units))
                                   /\ (Len(units) + u) - Len(units) = u
    BY <1>1, <1>3, <1>6, SMTT(30)
  <2>4. Len(all) = Len(units) + m.length + 1
    BY <1>1, <1>3, <1>6, <2>1
  <2> QED
    BY <2>1, <2>2, <2>3, <2>4
<1> HIDE DEF all, longer, m
<1>8. /\ Len(all) = Len(units) + m.length + 1 /\ Len(units) \in Nat /\ m.length \in Nat
      /\ Len(longer) = end /\ end = Len(order) + 1
  BY <1>1, <1>3, <1>5, <1>7
<1>9. /\ next \in [from + 1 .. end + 1 -> Int] /\ next[end + 1] = Len(units) + m.length + 2
      /\ \A j \in from + 1 .. end : next[j] = start[j]
  <2>1. Len(units) + m.length + 2 \in Int
    BY <1>1, <1>3
  <2>2. \A j \in from + 1 .. end + 1 : j # end + 1 => j \in from + 1 .. end
    BY <1>1, <1>3
  <2>3. next \in [from + 1 .. end + 1 -> Int]
    BY <1>3, <2>1, <2>2
  <2>4. end + 1 \in from + 1 .. end + 1 /\ \A j \in from + 1 .. end : j \in from + 1 .. end + 1 /\ j # end + 1
    BY <1>1, <1>3
  <2> QED
    BY <2>3, <2>4
<1> HIDE DEF next
<1>10. from + 1 \in from + 1 .. end /\ end \in from + 1 .. end
  BY <1>1, <1>3
<1>11. ASSUME NEW j \in from + 1 .. Len(longer)
       PROVE  /\ next[j + 1] = next[j] + texts[longer[j]].length + 1
              /\ next[j + 1] > 1 /\ next[j + 1] <= Len(all) + 1
              /\ \A u \in 1..texts[longer[j]].length + 1 :
                   next[j] + u > 1 =>
                     all[next[j] + u - 1] = Spelled(texts[longer[j]], longer[j])[u]
  <2>1. CASE j = end
    <3>1. longer[j] = n /\ texts[longer[j]] = m /\ Spelled(texts[longer[j]], longer[j]) = new
      BY <1>5, <2>1 DEF m, new
    <3>2. next[j] = Len(units) + 1 /\ next[j + 1] = Len(units) + m.length + 2
      BY <1>4, <1>9, <1>10, <2>1
    <3>3. next[j + 1] = next[j] + m.length + 1 /\ next[j + 1] > 1 /\ next[j + 1] <= Len(all) + 1
      <4> DEFINE here == next[j]
                 there == next[j + 1]
                 room == Len(units)
                 length == m.length
                 size == Len(all)
      <4>1. /\ room \in Nat /\ length \in Nat /\ here = room + 1
            /\ there = room + length + 2 /\ size = room + length + 1
        BY <1>8, <3>2
      <4> HIDE DEF here, there, room, length, size
      <4>2. there = here + length + 1 /\ there > 1 /\ there <= size + 1
        BY <4>1, NextPlace
      <4> QED
        BY <4>2 DEF here, there, length, size
    <3>4. ASSUME NEW u \in 1..m.length + 1 PROVE all[next[j] + u - 1] = new[u]
      <4>1. next[j] + u - 1 = Len(units) + u
        BY <1>1, <1>3, <3>2
      <4> QED
        BY <1>7, <4>1
    <3> QED
      BY <3>1, <3>3, <3>4
  <2>2. CASE j # end
    <3>1. j \in from + 1 .. Len(order) /\ j \in from + 1 .. end /\ j + 1 \in from + 1 .. end
      BY <1>1, <1>3, <1>5, <2>2
    <3>2. next[j] = start[j] /\ next[j + 1] = start[j + 1] /\ longer[j] = order[j]
          /\ start[j] \in Int /\ start[j + 1] \in Int
      BY <1>3, <1>5, <1>9, <3>1
    <3>3. next[j + 1] = next[j] + texts[longer[j]].length + 1 /\ next[j + 1] > 1
          /\ start[j + 1] <= Len(units) + 1
      BY <1>4, <3>1, <3>2
    <3>4. next[j + 1] <= Len(all) + 1
      <4>1. Len(all) = Len(units) + m.length + 1 /\ Len(units) \in Nat /\ m.length \in Nat
        BY <1>8
      <4>2. next[j + 1] \in Int /\ next[j + 1] <= Len(units) + 1
        BY <3>2, <3>3
      <4> QED
        BY <4>1, <4>2, SMTT(30)
    <3>5. texts[order[j]].length \in Nat
      BY <1>3, <3>1, NumberedFacts
    <3>6. ASSUME NEW u \in 1..texts[longer[j]].length + 1, next[j] + u > 1
          PROVE  all[next[j] + u - 1] = Spelled(texts[longer[j]], longer[j])[u]
      <4>1. start[j] + u - 1 \in 1..Len(units)
        <5>1. u \in 1..texts[order[j]].length + 1 /\ start[j] + u > 1
          BY <3>2, <3>6
        <5>2. start[j + 1] = start[j] + texts[order[j]].length + 1 /\ start[j + 1] <= Len(units) + 1
          BY <1>4, <3>1
        <5> QED
          BY <1>8, <3>2, <3>5, <5>1, <5>2, WithinUnits
      <4>2. units[start[j] + u - 1] = Spelled(texts[order[j]], order[j])[u]
        BY <1>4, <3>1, <3>2, <3>6
      <4> QED
        BY <1>7, <3>2, <4>1, <4>2, SMTT(30)
    <3> QED
      BY <3>3, <3>4, <3>6
  <2> QED
    BY <2>1, <2>2
<1>12. Laid(next, all, longer, from, texts)
  <2>1. next[from + 1] <= 1
    BY <1>4, <1>9, <1>10
  <2>2. next[Len(longer) + 1] = Len(all) + 1 /\ next \in [from + 1 .. Len(longer) + 1 -> Int]
    <3>1. next[end + 1] = Len(all) + 1
      BY <1>9, <1>8
    <3> QED
      BY <1>9, <1>8, <3>1
  <2> QED
    BY <1>11, <2>1, <2>2 DEF Laid
<1>13. HasRead(1 - next[from + 1], call, longer, from, texts)
  <2>1. next[from + 1] = start[from + 1]
    BY <1>9, <1>10
  <2>2. CASE from = Len(order)
    <3>1. 1 - start[from + 1] = 0
      BY <1>3, <2>2
    <3>2. \A i \in 1..(1 - start[from + 1]) : FALSE
      BY <3>1
    <3> QED
      BY <1>2, <2>1, <3>1, <3>2 DEF HasRead
  <2>3. CASE from # Len(order)
    <3>1. from + 1 \in 1..Len(order)
      BY <1>1, <1>3, <2>3
    <3> QED
      BY <1>2, <1>5, <2>1, <3>1 DEF HasRead
  <2> QED
    BY <2>2, <2>3
<1>14. next \in [from + 1 .. Len(longer) + 1 -> Int]
  BY <1>5, <1>9
<1>15. Flows(next, all, longer, from, texts, call)
  BY <1>12, <1>13 DEF Flows
<1> QED
  BY <1>14, <1>15 DEF all, new, longer, m

(* Nobody has the pipe open any more: it is gone, with what it held.          *)
LEMMA FlowsEnd ==
  ASSUME NEW order, NEW texts, Numbered(order, texts), NEW call, call.at # "read"
  PROVE  \E next \in [Len(order) + 1 .. Len(order) + 1 -> Int] :
           Flows(next, <<>>, order, Len(order), texts, call)
<1> DEFINE end == Len(order)
           next == [j \in end + 1 .. end + 1 |-> 1]
<1>1. end \in Nat
  BY NumberedFacts
<1>2. Len(<<>>) = 0
  BY EmptySeq
<1>3. next \in [end + 1 .. end + 1 -> Int] /\ next[end + 1] = 1 /\ end + 1 .. end = {}
  BY <1>1
<1>4. Laid(next, <<>>, order, end, texts)
  <2> HIDE DEF next, end
  <2> QED
    BY <1>2, <1>3 DEF Laid, end
<1>5. HasRead(1 - next[end + 1], call, order, end, texts)
  <2>1. 1 - next[end + 1] = 0
    BY <1>3
  <2> QED
    BY <2>1 DEF HasRead
<1> QED
  BY <1>3, <1>4, <1>5 DEF Flows

(* The reader takes one unit, the next of the first message.                  *)
LEMMA FirstUnit ==
  ASSUME NEW order, NEW texts, Numbered(order, texts), NEW from \in 0..Len(order),
         NEW units \in Seq(Unit), units # <<>>, NEW start, Laid(start, units, order, from, texts)
  PROVE  LET n == order[from + 1]
             k == 1 - start[from + 1]
         IN  /\ from + 1 \in 1..Len(order) /\ n \in 1..Len(texts) /\ texts[n] \in Message
             /\ k \in 0..texts[n].length /\ units[1] = Spelled(texts[n], n)[k + 1]
<1> DEFINE n == order[from + 1]
           k == 1 - start[from + 1]
<1>1. /\ from \in Nat /\ k \in Nat /\ start[from + 1] \in Int /\ Len(units) \in Nat
      /\ from = Len(order) => units = <<>>
  BY FlowsFacts
<1>2. from # Len(order) /\ from + 1 \in 1..Len(order) /\ from + 1 \in from + 1 .. Len(order)
  BY <1>1, NumberedFacts
<1>3. n \in 1..Len(texts) /\ texts[n] \in Message /\ texts[n].length \in Nat
  BY <1>2, NumberedFacts
<1>4. /\ start[from + 1 + 1] = start[from + 1] + texts[n].length + 1 /\ start[from + 1 + 1] > 1
      /\ \A u \in 1..texts[n].length + 1 :
           start[from + 1] + u > 1 => units[start[from + 1] + u - 1] = Spelled(texts[n], n)[u]
  BY <1>2 DEF Laid
<1>5. k \in 0..texts[n].length
  <2> DEFINE s == start[from + 1]
             length == texts[n].length
  <2>1. s \in Int /\ length \in Nat /\ 1 - s \in Nat
    BY <1>1, <1>3
  <2>2. s + length + 1 > 1
    BY <1>4
  <2> HIDE DEF s, length
  <2>3. 1 - s \in 0..length
    BY <2>1, <2>2
  <2> QED
    BY <2>3 DEF s, length
<1>6. k + 1 \in 1..texts[n].length + 1 /\ start[from + 1] + (k + 1) > 1
      /\ start[from + 1] + (k + 1) - 1 = 1
  <2> DEFINE s == start[from + 1]
             length == texts[n].length
  <2>1. s \in Int /\ length \in Nat /\ 1 - s \in 0..length
    BY <1>1, <1>3, <1>5
  <2> HIDE DEF s, length
  <2>2. (1 - s) + 1 \in 1..length + 1 /\ s + ((1 - s) + 1) > 1 /\ s + ((1 - s) + 1) - 1 = 1
    BY <2>1
  <2> QED
    BY <2>2 DEF s, length
<1>7. units[1] = Spelled(texts[n], n)[k + 1]
  BY <1>4, <1>6
<1> QED
  BY <1>2, <1>3, <1>5, <1>7

LEMMA FlowsOn ==
  ASSUME NEW order, NEW texts, Numbered(order, texts), NEW from \in 0..Len(order),
         NEW units \in Seq(Unit), units # <<>>, NEW start, Laid(start, units, order, from, texts),
         NEW to \in {from, from + 1}, to <= Len(order),
         to = from => 1 - start[from + 1] < texts[order[from + 1]].length,
         to = from + 1 => 1 - start[from + 1] = texts[order[from + 1]].length
  PROVE  \E next \in [to + 1 .. Len(order) + 1 -> Int] :
           /\ Laid(next, Tail(units), order, to, texts)
           /\ to = from => 1 - next[to + 1] = 1 - start[from + 1] + 1
           /\ to = from + 1 => 1 - next[to + 1] = 0
<1> DEFINE next == [j \in to + 1 .. Len(order) + 1 |-> start[j] - 1]
           rest == Tail(units)
<1>1. /\ from \in Nat /\ Len(order) \in Nat /\ Len(units) \in Nat
      /\ \A j \in from + 1 .. Len(order) + 1 : start[j] \in Int
      /\ \A j \in from + 1 .. Len(order) : j \in 1..Len(order) /\ j + 1 \in from + 1 .. Len(order) + 1
  BY FlowsFacts, NumberedFacts
<1>2. rest \in Seq(Unit) /\ Len(rest) = Len(units) - 1 /\ \A i \in 1..Len(rest) : rest[i] = units[i + 1]
  BY HeadTailProperties
<1>3. /\ start[from + 1] <= 1 /\ start[Len(order) + 1] = Len(units) + 1
      /\ \A j \in from + 1 .. Len(order) :
           /\ start[j + 1] = start[j] + texts[order[j]].length + 1
           /\ start[j + 1] > 1 /\ start[j + 1] <= Len(units) + 1
           /\ \A u \in 1..texts[order[j]].length + 1 :
                start[j] + u > 1 =>
                  units[start[j] + u - 1] = Spelled(texts[order[j]], order[j])[u]
  BY DEF Laid
<1>4. from + 1 \in from + 1 .. Len(order) /\ from + 1 \in 1..Len(order)
  <2>1. from = Len(order) => units = <<>>
    BY FlowsFacts
  <2> QED
    BY <1>1, <2>1
<1>5. to \in Nat /\ to + 1 .. Len(order) + 1 \subseteq from + 1 .. Len(order) + 1
      /\ to + 1 .. Len(order) \subseteq from + 1 .. Len(order)
      /\ Len(order) + 1 \in to + 1 .. Len(order) + 1 /\ to + 1 \in to + 1 .. Len(order) + 1
      /\ \A j \in to + 1 .. Len(order) : j \in to + 1 .. Len(order) + 1 /\ j + 1 \in to + 1 .. Len(order) + 1
  BY <1>1
<1>6. next \in [to + 1 .. Len(order) + 1 -> Int]
      /\ \A j \in to + 1 .. Len(order) + 1 : next[j] = start[j] - 1
  BY <1>1, <1>5
<1> HIDE DEF next, rest
<1>7. /\ to = from => 1 - next[to + 1] = 1 - start[from + 1] + 1
      /\ to = from + 1 => 1 - next[to + 1] = 0
      /\ next[to + 1] <= 1
  <2>1. start[from + 1] \in Int /\ start[from + 1] <= 1
    BY <1>1, <1>3, <1>4
  <2>2. next[to + 1] = start[to + 1] - 1
    BY <1>5, <1>6
  <2>3. CASE to = from
    BY <1>1, <2>1, <2>2, <2>3
  <2>4. CASE to = from + 1
    <3>1. start[to + 1] = start[from + 1] + texts[order[from + 1]].length + 1
      BY <1>3, <1>4, <2>4
    <3>2. 1 - start[from + 1] = texts[order[from + 1]].length
      BY <2>4
    <3>3. start[to + 1] = 2
      BY <2>1, <3>1, <3>2
    <3> QED
      BY <1>1, <2>2, <2>4, <3>3
  <2> QED
    BY <2>3, <2>4
<1>8. ASSUME NEW j \in to + 1 .. Len(order)
      PROVE  /\ next[j + 1] = next[j] + texts[order[j]].length + 1
             /\ next[j + 1] > 1 /\ next[j + 1] <= Len(rest) + 1
             /\ \A u \in 1..texts[order[j]].length + 1 :
                  next[j] + u > 1 => rest[next[j] + u - 1] = Spelled(texts[order[j]], order[j])[u]
  <2> DEFINE length == texts[order[j]].length
  <2>1. j \in from + 1 .. Len(order) /\ j \in 1..Len(order)
    BY <1>1, <1>5
  <2>2. length \in Nat
    BY <2>1, NumberedFacts
  <2>3. next[j] = start[j] - 1 /\ next[j + 1] = start[j + 1] - 1 /\ start[j] \in Int
    BY <1>1, <1>5, <1>6, <2>1
  <2>4. /\ start[j + 1] = start[j] + length + 1 /\ start[j + 1] > 1 /\ start[j + 1] <= Len(units) + 1
        /\ \A u \in 1..length + 1 :
             start[j] + u > 1 => units[start[j] + u - 1] = Spelled(texts[order[j]], order[j])[u]
    BY <1>3, <2>1
  <2> HIDE DEF length
  <2>5. start[j + 1] > 2
    <3>1. CASE to = from /\ j = from + 1
      <4>1. 1 - start[from + 1] < length
        BY <3>1 DEF length
      <4> QED
        BY <2>2, <2>3, <2>4, <3>1, <4>1
    <3>2. CASE j > from + 1
      <4>1. j - 1 \in from + 1 .. Len(order) /\ (j - 1) + 1 = j
        BY <1>1, <2>1, <3>2
      <4>2. start[j] > 1
        BY <1>3, <4>1
      <4> QED
        BY <2>2, <2>3, <2>4, <4>2
    <3> QED
      BY <1>1, <2>1, <3>1, <3>2
  <2> DEFINE wide == Len(units)
             here == start[j]
             there == start[j + 1]
  <2>6. /\ wide \in Nat /\ here \in Int /\ there \in Int /\ there > 2 /\ there <= wide + 1
        /\ there = here + length + 1 /\ Len(rest) = wide - 1
        /\ next[j] = here - 1 /\ next[j + 1] = there - 1
    BY <1>1, <1>2, <2>2, <2>3, <2>4, <2>5
  <2> HIDE DEF wide, here, there
  <2>7. next[j + 1] = next[j] + length + 1 /\ next[j + 1] > 1 /\ next[j + 1] <= Len(rest) + 1
    BY <2>2, <2>6
  <2>8. ASSUME NEW u \in 1..length + 1, next[j] + u > 1
        PROVE  rest[next[j] + u - 1] = Spelled(texts[order[j]], order[j])[u]
    <3>1. next[j] + u - 1 \in 1..Len(rest)
      <4>1. Len(rest) \in Nat /\ next[j] \in Int /\ next[j + 1] \in Int
        BY <1>2, <2>6, LenProperties, SMTT(30)
      <4> QED
        BY <2>2, <2>7, <2>8, <4>1, WithinUnits
    <3>2. (next[j] + u - 1) + 1 = start[j] + u - 1 /\ start[j] + u > 1
      BY <2>2, <2>3, <2>8
    <3> QED
      BY <1>2, <2>4, <3>1, <3>2
  <2> QED
    BY <2>7, <2>8 DEF length
<1>9. next[Len(order) + 1] = Len(rest) + 1
  BY <1>1, <1>2, <1>3, <1>5, <1>6, SMTT(30)
<1>10. Laid(next, rest, order, to, texts)
  BY <1>6, <1>7, <1>8, <1>9 DEF Laid
<1> QED
  BY <1>6, <1>7, <1>10 DEF rest

LEMMA FlowsFinish ==
  ASSUME NEW order, NEW texts, Numbered(order, texts), NEW from \in 0..Len(order),
         NEW units \in Seq(Unit), units # <<>>, NEW start, Laid(start, units, order, from, texts),
         1 - start[from + 1] = texts[order[from + 1]].length
  PROVE  \E next \in [from + 1 + 1 .. Len(order) + 1 -> Int] :
           Laid(next, Tail(units), order, from + 1, texts) /\ 1 - next[from + 1 + 1] = 0
<1> DEFINE to == from + 1
<1>1. from + 1 \in 1..Len(order) /\ from \in Nat /\ Len(order) \in Nat
  BY FirstUnit, FlowsFacts, NumberedFacts
<1>2. to \in {from, from + 1} /\ to <= Len(order) /\ to # from /\ to = from + 1
  BY <1>1
<1> HIDE DEF to
<1>3. \E next \in [to + 1 .. Len(order) + 1 -> Int] :
           /\ Laid(next, Tail(units), order, to, texts)
           /\ to = from => 1 - next[to + 1] = 1 - start[from + 1] + 1
           /\ to = from + 1 => 1 - next[to + 1] = 0
  BY <1>2, FlowsOn
<1> QED
  BY <1>2, <1>3

LEMMA FlowsContinue ==
  ASSUME NEW order, NEW texts, Numbered(order, texts), NEW from \in 0..Len(order),
         NEW units \in Seq(Unit), units # <<>>, NEW start, Laid(start, units, order, from, texts),
         1 - start[from + 1] < texts[order[from + 1]].length
  PROVE  \E next \in [from + 1 .. Len(order) + 1 -> Int] :
           /\ Laid(next, Tail(units), order, from, texts)
           /\ 1 - next[from + 1] = 1 - start[from + 1] + 1
<1>1. from \in Nat /\ Len(order) \in Nat
  BY NumberedFacts
<1>2. from \in {from, from + 1} /\ from <= Len(order) /\ from # from + 1
  BY <1>1
<1>3. \E next \in [from + 1 .. Len(order) + 1 -> Int] :
           /\ Laid(next, Tail(units), order, from, texts)
           /\ from = from => 1 - next[from + 1] = 1 - start[from + 1] + 1
           /\ from = from + 1 => 1 - next[from + 1] = 0
  BY <1>2, FlowsOn
<1> QED
  BY <1>3

LEMMA ReturnedStays ==
  ASSUME NEW order, NEW texts, Numbered(order, texts), NEW from \in 0..Len(order), NEW call,
         Returned(call, order, from, texts), NEW longer, NEW more,
         \A i \in 1..Len(order) : longer[i] = order[i],
         \A i \in 1..Len(texts) : more[i] = texts[i]
  PROVE  Returned(call, longer, from, more)
<1>1. from > 0 => longer[from] = order[from] /\ more[order[from]] = texts[order[from]]
  <2>1. from > 0 => from \in 1..Len(order) /\ order[from] \in 1..Len(texts)
    BY NumberedFacts
  <2> QED
    BY <2>1
<1> QED
  BY <1>1 DEF Returned

LEMMA StreamFacts ==
  ASSUME StreamsInv
  PROVE  /\ Numbered(sent, numbered) /\ taken \in 0..Len(sent) /\ pipe \in Seq(Unit)
         /\ writer \in [Writer -> WriterCalls] /\ reader \in ReaderCalls
         /\ Len(sent) \in Nat /\ Len(numbered) \in Nat /\ numbered \in Seq(Message) /\ sent \in Seq(Nat)
         /\ \A w \in Writer : SenderOk(writer[w], sent, numbered) /\ writer[w] \in WriterCalls
                              /\ writer[w].number \in Nat
         /\ \A w, v \in Writer : w # v /\ writer[w].number > 0 => writer[w].number # writer[v].number
         /\ \E start \in [taken + 1 .. Len(sent) + 1 -> Int] :
              Flows(start, pipe, sent, taken, numbered, reader)
         /\ Returned(reader, sent, taken, numbered)
BY NumberedFacts DEF StreamsInv, WriterCalls

(* A writer takes a step that sends nothing; the pipe may go with it.         *)
LEMMA WriterMoves ==
  ASSUME StreamsInv, NEW w \in Writer, NEW new \in WriterCalls,
         writer' = [writer EXCEPT ![w] = new], UNCHANGED <<numbered, sent, reader>>,
         SenderOk(new, sent, numbered), new.number = 0 \/ new.number = writer[w].number,
         \/ UNCHANGED <<pipe, taken>>
         \/ reader.at = "closed" /\ pipe' = <<>> /\ taken' = Len(sent)
  PROVE  StreamsInv'
<1>1. /\ Numbered(sent, numbered) /\ taken \in 0..Len(sent) /\ pipe \in Seq(Unit)
      /\ writer \in [Writer -> WriterCalls] /\ reader \in ReaderCalls /\ Len(sent) \in Nat
      /\ \A v \in Writer : SenderOk(writer[v], sent, numbered) /\ writer[v].number \in Nat
      /\ \A v, u \in Writer : v # u /\ writer[v].number > 0 => writer[v].number # writer[u].number
      /\ \E start \in [taken + 1 .. Len(sent) + 1 -> Int] :
           Flows(start, pipe, sent, taken, numbered, reader)
      /\ Returned(reader, sent, taken, numbered)
  BY StreamFacts
<1>2. /\ writer' \in [Writer -> WriterCalls] /\ writer'[w] = new
      /\ \A v \in Writer \ {w} : writer'[v] = writer[v]
  BY <1>1
<1>3. \A v \in Writer : SenderOk(writer'[v], sent', numbered')
  BY <1>1, <1>2
<1>4. \A v, u \in Writer : v # u /\ writer'[v].number > 0 => writer'[v].number # writer'[u].number
  BY <1>1, <1>2
<1>5. /\ taken' \in 0..Len(sent') /\ pipe' \in Seq(Unit)
      /\ \E start \in [taken' + 1 .. Len(sent') + 1 -> Int] :
           Flows(start, pipe', sent', taken', numbered', reader')
      /\ Returned(reader', sent', taken', numbered')
  <2>1. CASE UNCHANGED <<pipe, taken>>
    BY <1>1, <2>1
  <2>2. CASE reader.at = "closed" /\ pipe' = <<>> /\ taken' = Len(sent)
    <3>1. taken' \in 0..Len(sent') /\ pipe' \in Seq(Unit)
      BY <1>1, <2>2, EmptySeq
    <3>2. Returned(reader', sent', taken', numbered')
      BY <1>1, <2>2 DEF Returned
    <3>3. \E start \in [Len(sent) + 1 .. Len(sent) + 1 -> Int] :
            Flows(start, <<>>, sent, Len(sent), numbered, reader)
      BY <1>1, <2>2, FlowsEnd
    <3>4. \E start \in [taken' + 1 .. Len(sent') + 1 -> Int] :
            Flows(start, pipe', sent', taken', numbered', reader')
      BY <2>2, <3>3
    <3> QED
      BY <3>1, <3>2, <3>4
  <2> QED
    BY <2>1, <2>2
<1>6. Numbered(sent', numbered') /\ reader' \in ReaderCalls
  BY <1>1
<1> QED
  BY <1>2, <1>3, <1>4, <1>5, <1>6 DEF StreamsInv

(* The reader takes a step.                                                   *)
LEMMA ReaderMoves ==
  ASSUME StreamsInv, reader' \in ReaderCalls, UNCHANGED <<writer, numbered, sent>>,
         taken' \in 0..Len(sent), pipe' \in Seq(Unit),
         \E start \in [taken' + 1 .. Len(sent) + 1 -> Int] :
           Flows(start, pipe', sent, taken', numbered, reader'),
         Returned(reader', sent, taken', numbered)
  PROVE  StreamsInv'
BY StreamFacts DEF StreamsInv

LEMMA SendKeeps ==
  ASSUME StreamsInv, NEW w \in Writer, NEW m \in Message, Send(w, m) PROVE StreamsInv'
<1> DEFINE n == Len(numbered) + 1
           new == [at |-> "open", number |-> n, result |-> "none"]
<1>1. /\ numbered' = Append(numbered, m) /\ writer' = [writer EXCEPT ![w] = new]
      /\ UNCHANGED <<pipe, reader, sent, taken>>
  BY DEF Send
<1>2. /\ Numbered(sent, numbered) /\ taken \in 0..Len(sent) /\ pipe \in Seq(Unit)
      /\ writer \in [Writer -> WriterCalls] /\ reader \in ReaderCalls
      /\ Len(sent) \in Nat /\ Len(numbered) \in Nat /\ numbered \in Seq(Message) /\ sent \in Seq(Nat)
      /\ \A v \in Writer : SenderOk(writer[v], sent, numbered) /\ writer[v].number \in Nat
      /\ \A v, u \in Writer : v # u /\ writer[v].number > 0 => writer[v].number # writer[u].number
      /\ Returned(reader, sent, taken, numbered)
  BY StreamFacts
<1>3. n \in Nat /\ new \in WriterCalls /\ new.number = n /\ new.at = "open" /\ new.result = "none"
  BY <1>2 DEF WriterCalls, WriterResults
<1>4. /\ numbered' \in Seq(Message) /\ Len(numbered') = n
      /\ \A i \in 1..Len(numbered) : numbered'[i] = numbered[i]
  BY <1>1, <1>2, AppendProperties
<1>5. \A i \in 1..Len(sent) : sent[i] \in 1..Len(numbered)
  BY <1>2 DEF Numbered
<1>6. Numbered(sent', numbered')
  BY <1>1, <1>2, <1>4, <1>5 DEF Numbered
<1>7. /\ writer' \in [Writer -> WriterCalls] /\ writer'[w] = new
      /\ \A v \in Writer \ {w} : writer'[v] = writer[v]
  BY <1>1, <1>2, <1>3
<1> HIDE DEF new
<1>8. SenderOk(new, sent, numbered')
  <2>1. ~InOrder(n, sent)
    BY <1>2, <1>5 DEF InOrder
  <2> QED
    BY <1>2, <1>3, <1>4, <2>1 DEF SenderOk
<1>9. ASSUME NEW v \in Writer PROVE SenderOk(writer'[v], sent', numbered')
  <2>1. SenderOk(writer[v], sent, numbered')
    <3>1. SenderOk(writer[v], sent, numbered) /\ writer[v].number <= Len(numbered')
      BY <1>2, <1>4 DEF SenderOk
    <3> QED
      BY <3>1 DEF SenderOk
  <2> QED
    BY <1>1, <1>7, <1>8, <2>1
<1>10. \A v, u \in Writer : v # u /\ writer'[v].number > 0 => writer'[v].number # writer'[u].number
  <2>1. \A v \in Writer : writer[v].number <= Len(numbered) /\ writer[v].number \in Nat
    BY <1>2 DEF SenderOk
  <2>2. \A v \in Writer : writer[v].number # n
    BY <1>2, <2>1
  <2> QED
    BY <1>2, <1>3, <1>7, <2>2
<1>11. \E start \in [taken' + 1 .. Len(sent') + 1 -> Int] :
         Flows(start, pipe', sent', taken', numbered', reader')
  <2>1. PICK start \in [taken + 1 .. Len(sent) + 1 -> Int] :
          Flows(start, pipe, sent, taken, numbered, reader)
    BY StreamFacts
  <2>2. Flows(start, pipe, sent, taken, Append(numbered, m), reader)
    BY <1>2, <2>1, FlowsNumber
  <2> QED
    BY <1>1, <2>2
<1>12. Returned(reader', sent', taken', numbered')
  <2>1. \A i \in 1..Len(sent) : sent'[i] = sent[i]
    BY <1>1
  <2>2. Returned(reader, sent', taken, numbered')
    BY <1>2, <1>4, <2>1, ReturnedStays
  <2> QED
    BY <1>1, <2>2
<1> QED
  BY <1>1, <1>2, <1>6, <1>7, <1>9, <1>10, <1>11, <1>12 DEF StreamsInv

LEMMA WriterSteps ==
  ASSUME StreamsInv, NEW w \in Writer, OpenWrite(w) \/ CloseWrite(w) \/ WriterDies(w)
  PROVE  StreamsInv'
<1>1. /\ writer \in [Writer -> WriterCalls] /\ writer[w] \in WriterCalls
      /\ SenderOk(writer[w], sent, numbered) /\ reader \in ReaderCalls
      /\ Len(numbered) \in Nat /\ Numbered(sent, numbered)
  BY StreamFacts
<1>2. UNCHANGED <<numbered, sent, reader>>
  BY DEF OpenWrite, CloseWrite, WriterDies
<1>3. \/ UNCHANGED <<pipe, taken>>
      \/ reader.at = "closed" /\ pipe' = <<>> /\ taken' = Len(sent)
  BY DEF OpenWrite, CloseWrite, WriterDies, Emptied, Dropped, ReaderOpen
<1>4. ASSUME NEW at \in {"idle", "write", "close"}, NEW result \in WriterResults,
             Steps(w, at, result), SenderOk([writer[w] EXCEPT !.at = at, !.result = result], sent, numbered)
      PROVE  StreamsInv'
  <2> DEFINE new == [writer[w] EXCEPT !.at = at, !.result = result]
  <2>1. new \in WriterCalls /\ new.number = writer[w].number
    BY <1>1 DEF WriterCalls
  <2>2. writer' = [writer EXCEPT ![w] = new]
    BY <1>1, <1>4 DEF Steps
  <2>3. SenderOk(new, sent, numbered)
    BY <1>4
  <2> HIDE DEF new
  <2> QED
    BY <1>2, <1>3, <2>1, <2>2, <2>3, WriterMoves
<1>5. {"none", "timeout", "unclosed"} \subseteq WriterResults
  BY DEF WriterResults
<1>6. ASSUME NEW at \in {"idle", "write", "close"}, NEW result \in WriterResults
      PROVE  LET new == [writer[w] EXCEPT !.at = at, !.result = result]
             IN  new.at = at /\ new.result = result /\ new.number = writer[w].number
  BY <1>1 DEF WriterCalls
<1>7. CASE OpenWrite(w)
  <2>1. writer[w].at = "open" /\ (Steps(w, "write", "none") \/ Steps(w, "idle", "timeout"))
    BY <1>7 DEF OpenWrite
  <2>2. SenderOk([writer[w] EXCEPT !.at = "write", !.result = "none"], sent, numbered)
    BY <1>1, <1>5, <1>6, <2>1 DEF SenderOk
  <2>3. SenderOk([writer[w] EXCEPT !.at = "idle", !.result = "timeout"], sent, numbered)
    BY <1>1, <1>5, <1>6, <2>1 DEF SenderOk
  <2> QED
    BY <1>4, <1>5, <2>1, <2>2, <2>3
<1>8. CASE CloseWrite(w)
  <2>1. writer[w].at = "close" /\ writer[w].result \in WriterResults
        /\ \/ Steps(w, "idle", writer[w].result)
           \/ writer[w].result = "ok" /\ Steps(w, "idle", "unclosed")
    BY <1>1, <1>8 DEF CloseWrite, WriterCalls
  <2>2. SenderOk([writer[w] EXCEPT !.at = "idle", !.result = writer[w].result], sent, numbered)
    BY <1>1, <1>6, <2>1 DEF SenderOk
  <2>3. writer[w].result = "ok" =>
          SenderOk([writer[w] EXCEPT !.at = "idle", !.result = "unclosed"], sent, numbered)
    BY <1>1, <1>5, <1>6, <2>1 DEF SenderOk
  <2> QED
    BY <1>4, <1>5, <2>1, <2>2, <2>3
<1>9. CASE WriterDies(w)
  <2>1. writer' = [writer EXCEPT ![w] = NoWrite]
    BY <1>9 DEF WriterDies
  <2>2. /\ NoWrite \in WriterCalls /\ NoWrite.number = 0 /\ NoWrite.at = "idle"
        /\ NoWrite.result = "none"
    BY DEF NoWrite, WriterCalls, WriterResults
  <2>3. SenderOk(NoWrite, sent, numbered)
    BY <1>1, <2>2 DEF SenderOk
  <2> QED
    BY <1>2, <1>3, <2>1, <2>2, <2>3, WriterMoves
<1> QED
  BY <1>7, <1>8, <1>9

LEMMA WriteOnceKeeps == ASSUME StreamsInv, NEW w \in Writer, WriteOnce(w) PROVE StreamsInv'
<1> DEFINE n == writer[w].number
           m == numbered[n]
<1>1. /\ Numbered(sent, numbered) /\ taken \in 0..Len(sent) /\ pipe \in Seq(Unit)
      /\ writer \in [Writer -> WriterCalls] /\ reader \in ReaderCalls
      /\ Len(sent) \in Nat /\ Len(numbered) \in Nat /\ numbered \in Seq(Message) /\ sent \in Seq(Nat)
      /\ \A v \in Writer : SenderOk(writer[v], sent, numbered) /\ writer[v].number \in Nat
      /\ \A v, u \in Writer : v # u /\ writer[v].number > 0 => writer[v].number # writer[u].number
      /\ Returned(reader, sent, taken, numbered) /\ writer[w] \in WriterCalls
  BY StreamFacts
<1>2. writer[w].at = "write" /\ UNCHANGED <<reader, numbered, taken>>
  BY DEF WriteOnce
<1>3. n \in 1..Len(numbered) /\ ~InOrder(n, sent) /\ m \in Message /\ m.length \in Nat
  <2>1. n \in Nat /\ n > 0 /\ n <= Len(numbered) /\ ~InOrder(n, sent)
    BY <1>1, <1>2 DEF SenderOk
  <2>2. n \in 1..Len(numbered)
    BY <1>1, <2>1
  <2>3. m \in Message
    BY <1>1, <2>2, ElementOfSeq
  <2> QED
    BY <2>1, <2>2, <2>3, StreamsAssumption
<1>4. ASSUME NEW result \in WriterResults
      PROVE  LET new == [writer[w] EXCEPT !.at = "close", !.result = result]
             IN  /\ new \in WriterCalls /\ new.at = "close" /\ new.result = result /\ new.number = n
                 /\ Steps(w, "close", result) => writer' = [writer EXCEPT ![w] = new]
  BY <1>1 DEF WriterCalls, Steps
<1>5. {"toolong", "broken", "timeout", "ok"} \subseteq WriterResults
  BY DEF WriterResults
<1>6. ASSUME NEW result \in {"toolong", "broken", "timeout"}, Steps(w, "close", result),
             UNCHANGED <<pipe, sent>>
      PROVE  StreamsInv'
  <2> DEFINE new == [writer[w] EXCEPT !.at = "close", !.result = result]
  <2>1. /\ new \in WriterCalls /\ new.at = "close" /\ new.result = result /\ new.number = n
        /\ writer' = [writer EXCEPT ![w] = new]
    BY <1>4, <1>5, <1>6
  <2> HIDE DEF new
  <2>2. SenderOk(new, sent, numbered)
    BY <1>1, <1>3, <2>1 DEF SenderOk
  <2>3. UNCHANGED <<numbered, sent, reader>> /\ UNCHANGED <<pipe, taken>>
    BY <1>2, <1>6
  <2> QED
    BY <2>1, <2>2, <2>3, WriterMoves
<1>7. ASSUME sent' = Append(sent, n), pipe' = pipe \o Spelled(m, n), Steps(w, "close", "ok")
      PROVE  StreamsInv'
  <2> DEFINE new == [writer[w] EXCEPT !.at = "close", !.result = "ok"]
  <2>1. /\ new \in WriterCalls /\ new.at = "close" /\ new.result = "ok" /\ new.number = n
        /\ writer' = [writer EXCEPT ![w] = new]
    BY <1>4, <1>5, <1>7
  <2> HIDE DEF new
  <2>2. /\ sent' \in Seq(Nat) /\ Len(sent') = Len(sent) + 1 /\ sent'[Len(sent) + 1] = n
        /\ \A i \in 1..Len(sent) : sent'[i] = sent[i]
    BY <1>1, <1>7, AppendProperties
  <2>3. \A i : i \in 1..Len(sent') <=> i \in 1..Len(sent) \/ i = Len(sent) + 1
    BY <1>1, <2>2
  <2>4. /\ \A i \in 1..Len(sent) : sent[i] \in 1..Len(numbered) /\ sent[i] # n
        /\ \A i, j \in 1..Len(sent) : sent[i] = sent[j] => i = j
    BY <1>1, <1>3 DEF Numbered, InOrder
  <2>5. Numbered(sent', numbered')
    <3>1. \A i \in 1..Len(sent') : sent'[i] \in 1..Len(numbered)
      BY <1>3, <2>2, <2>3, <2>4
    <3>2. ASSUME NEW i \in 1..Len(sent'), NEW j \in 1..Len(sent'), sent'[i] = sent'[j]
          PROVE  i = j
      BY <2>2, <2>3, <2>4, <3>2
    <3> QED
      BY <1>1, <1>2, <2>2, <3>1, <3>2 DEF Numbered
  <2>6. \A k : InOrder(k, sent') <=> InOrder(k, sent) \/ k = n
    BY <2>2, <2>3 DEF InOrder
  <2>7. /\ writer' \in [Writer -> WriterCalls] /\ writer'[w] = new
        /\ \A v \in Writer \ {w} : writer'[v] = writer[v]
    BY <1>1, <2>1
  <2>8. ASSUME NEW v \in Writer PROVE SenderOk(writer'[v], sent', numbered')
    <3>1. CASE v = w
      BY <1>1, <1>2, <1>3, <2>1, <2>6, <2>7, <3>1 DEF SenderOk
    <3>2. CASE v # w
      <4>1. SenderOk(writer[v], sent, numbered) /\ writer[v].number # n
        BY <1>1, <1>3, <3>2
      <4> QED
        BY <1>2, <2>6, <2>7, <3>2, <4>1 DEF SenderOk
    <3> QED
      BY <3>1, <3>2
  <2>9. \A v, u \in Writer : v # u /\ writer'[v].number > 0 => writer'[v].number # writer'[u].number
    BY <1>1, <2>1, <2>7
  <2>10. pipe' \in Seq(Unit) /\ taken' \in 0..Len(sent')
    <3>1. Spelled(m, n) \in Seq(Unit)
      BY <1>1, <1>3, SpelledFacts
    <3>2. pipe' \in Seq(Unit)
      BY <1>1, <1>7, <3>1, ConcatProperties
    <3> QED
      BY <1>1, <1>2, <2>2, <3>2
  <2>11. \E start \in [taken' + 1 .. Len(sent') + 1 -> Int] :
           Flows(start, pipe', sent', taken', numbered', reader')
    <3>1. PICK start \in [taken + 1 .. Len(sent) + 1 -> Int] :
            Flows(start, pipe, sent, taken, numbered, reader)
      BY StreamFacts
    <3>2. \E next \in [taken + 1 .. Len(Append(sent, n)) + 1 -> Int] :
            Flows(next, pipe \o Spelled(numbered[n], n), Append(sent, n), taken, numbered, reader)
      BY <1>1, <1>3, <3>1, FlowsSend
    <3> QED
      BY <1>2, <1>7, <3>2
  <2>12. Returned(reader', sent', taken', numbered')
    <3>1. \A i \in 1..Len(numbered) : numbered'[i] = numbered[i]
      BY <1>2
    <3>2. Returned(reader, sent', taken, numbered')
      BY <1>1, <2>2, <3>1, ReturnedStays
    <3> QED
      BY <1>2, <3>2
  <2> QED
    BY <1>1, <1>2, <2>5, <2>7, <2>8, <2>9, <2>10, <2>11, <2>12 DEF StreamsInv
<1>8. ASSUME ~TooLong(m.length + 1), NEW amount \in Amounts(m.length + 1),
             pipe' = pipe \o SubSeq(Units(n), 1, amount), sent' = Append(sent, n),
             Steps(w, "close", IF amount = m.length + 1 THEN "ok" ELSE "cut")
      PROVE  StreamsInv'
  <2>1. m.length + 1 <= PipeBuf
    BY <1>3, <1>8, StreamsAssumption, SMTT(30) DEF TooLong
  <2>2. amount = m.length + 1
    BY <1>8, <2>1 DEF Amounts
  <2>3. Units(n) = Spelled(m, n)
    BY DEF Units, Spelled
  <2>4. Spelled(m, n) \in Seq(Unit) /\ Len(Spelled(m, n)) = m.length + 1
    BY <1>1, <1>3, SpelledFacts
  <2>5. SubSeq(Units(n), 1, amount) = Spelled(m, n)
    BY <2>2, <2>3, <2>4, SubSeqFull
  <2> QED
    BY <1>7, <1>8, <2>2, <2>5
<1> QED
  BY <1>6, <1>8 DEF WriteOnce

(* A text without the carriage return at its end.                             *)
LEMMA StrippedFacts ==
  ASSUME NEW m \in Message, NEW n \in Nat, NEW line \in Seq(Unit), Len(line) = m.length,
         \A i \in 1..m.length : line[i] = Spelled(m, n)[i]
  PROVE  /\ line = SubSeq(Spelled(m, n), 1, m.length)
         /\ Stripped(line) \in Seq(Unit) /\ Len(Stripped(line)) \in Nat
         /\ Len(Stripped(line)) > 0 => Len(Stripped(line)) = m.length - (IF m.cr THEN 1 ELSE 0)
<1>1. /\ m.length \in Nat /\ m.cr \in BOOLEAN /\ Spelled(m, n) \in Seq(Unit)
      /\ \A u \in 1..m.length + 1 :
           /\ Spelled(m, n)[u] \in Unit
           /\ u <= m.length => (Spelled(m, n)[u].unit = "cr" <=> m.cr /\ u = m.length)
  BY SpelledFacts
<1>2. \A i \in 1..m.length : i \in 1..m.length + 1
  BY <1>1
<1>3. line = SubSeq(Spelled(m, n), 1, m.length)
  <2> DEFINE text == SubSeq(Spelled(m, n), 1, m.length)
  <2>1. \A i \in 1..m.length : Spelled(m, n)[i] \in Unit
    BY <1>1, <1>2
  <2>2. 1 \in Int /\ m.length \in Int /\ \A i \in 1..m.length : 1 + i - 1 = i
    BY <1>1
  <2>3. text \in Seq(Unit) /\ Len(text) = m.length /\ \A i \in 1..m.length : text[i] = Spelled(m, n)[i]
    BY <1>1, <2>1, <2>2, SubSeqProperties
  <2> HIDE DEF text
  <2>4. \A i \in 1..Len(line) : line[i] = text[i]
    BY <2>3
  <2>5. line = text
    BY <2>3, <2>4, SeqEqual
  <2> QED
    BY <2>5 DEF text
<1>4. line # <<>> => m.length \in 1..m.length /\ m.length > 0
  BY <1>1, EmptySeq
<1>5. line # <<>> => (line[Len(line)].unit = "cr" <=> m.cr)
  BY <1>1, <1>2, <1>4
<1>6. CASE line # <<>> /\ m.cr
  <2>1. Stripped(line) = SubSeq(line, 1, Len(line) - 1)
    BY <1>5, <1>6 DEF Stripped
  <2>2. \A i \in 1..Len(line) - 1 : line[i] \in Unit
    BY <1>1, ElementOfSeq
  <2>3. 1 \in Int /\ Len(line) - 1 \in Nat
    BY <1>1, <1>4, <1>6
  <2>4. /\ SubSeq(line, 1, Len(line) - 1) \in Seq(Unit)
        /\ Len(SubSeq(line, 1, Len(line) - 1)) = Len(line) - 1
    BY <2>2, <2>3, SubSeqProperties
  <2> QED
    BY <1>3, <1>6, <2>1, <2>3, <2>4
<1>7. CASE ~(line # <<>> /\ m.cr)
  <2>1. Stripped(line) = line
    BY <1>5, <1>7 DEF Stripped
  <2>2. Len(line) > 0 => line # <<>>
    BY EmptySeq
  <2>3. Len(line) > 0 => m.length = m.length - (IF m.cr THEN 1 ELSE 0)
    BY <1>1, <1>7, <2>2
  <2>4. Len(Stripped(line)) = m.length /\ Stripped(line) \in Seq(Unit) /\ m.length \in Nat
    BY <1>1, <2>1
  <2> QED
    BY <1>3, <2>1, <2>3, <2>4
<1> QED
  BY <1>6, <1>7

(* A reader that is between two calls has read nothing of the next message.   *)
LEMMA BetweenCalls ==
  ASSUME StreamsInv, reader.at # "read", reader' \in ReaderCalls,
         UNCHANGED <<writer, numbered, sent>>, reader'.result = "none",
         reader'.at = "read" => reader'.line = <<>> /\ ~reader'.overflow,
         \/ UNCHANGED <<pipe, taken>>
         \/ reader'.at # "read" /\ pipe' = <<>> /\ taken' = Len(sent)
  PROVE  StreamsInv'
<1>1. /\ Numbered(sent, numbered) /\ taken \in 0..Len(sent) /\ pipe \in Seq(Unit)
      /\ Len(sent) \in Nat /\ reader \in ReaderCalls
  BY StreamFacts
<1>2. PICK start \in [taken + 1 .. Len(sent) + 1 -> Int] :
        Flows(start, pipe, sent, taken, numbered, reader)
  BY StreamFacts
<1>3. Laid(start, pipe, sent, taken, numbered) /\ 1 - start[taken + 1] = 0
  BY <1>2 DEF Flows, HasRead
<1>4. Returned(reader', sent, taken', numbered)
  BY DEF Returned
<1>5. CASE UNCHANGED <<pipe, taken>>
  <2>1. HasRead(1 - start[taken + 1], reader', sent, taken, numbered)
    <3>1. Len(<<>>) = 0 /\ \A i \in 1..0 : FALSE
      BY EmptySeq
    <3>2. reader'.bound \in Nat
      BY DEF ReaderCalls
    <3>3. HasRead(0, reader', sent, taken, numbered)
      BY <3>1, <3>2 DEF HasRead
    <3> QED
      BY <1>3, <3>3
  <2>2. Flows(start, pipe', sent, taken', numbered, reader')
    BY <1>3, <1>5, <2>1 DEF Flows
  <2>3. /\ taken' \in 0..Len(sent) /\ pipe' \in Seq(Unit)
        /\ start \in [taken' + 1 .. Len(sent) + 1 -> Int]
    BY <1>1, <1>5
  <2> QED
    BY <1>4, <2>2, <2>3, ReaderMoves
<1>6. CASE reader'.at # "read" /\ pipe' = <<>> /\ taken' = Len(sent)
  <2>1. taken' \in 0..Len(sent) /\ pipe' \in Seq(Unit)
    BY <1>1, <1>6, EmptySeq
  <2>2. \E next \in [Len(sent) + 1 .. Len(sent) + 1 -> Int] :
          Flows(next, <<>>, sent, Len(sent), numbered, reader')
    BY <1>1, <1>6, FlowsEnd
  <2> QED
    BY <1>4, <1>6, <2>1, <2>2, ReaderMoves
<1> QED
  BY <1>5, <1>6

LEMMA CallsOfReader ==
  ASSUME StreamsInv,
         \/ OpenRead \/ CloseRead
         \/ \E bound \in LineBounds, timed \in BOOLEAN : ReadLine(bound, timed)
  PROVE  StreamsInv'
<1>1. /\ NoRead \in ReaderCalls /\ NoRead.at = "closed" /\ NoRead.result = "none"
      /\ NoRead.line = <<>> /\ NoRead.overflow = FALSE
  BY EmptySeq DEF NoRead, ReaderCalls
<1>2. CASE OpenRead
  <2>1. reader'.at = "idle" /\ reader'.result = "none" /\ reader' \in ReaderCalls
    BY <1>1, <1>2 DEF OpenRead, ReaderCalls
  <2> QED
    BY <1>2, <2>1, BetweenCalls DEF OpenRead, ReaderOpen
<1>3. CASE CloseRead
  <2>1. /\ reader' = NoRead /\ reader.at = "idle" /\ UNCHANGED <<writer, numbered, sent>>
        /\ \/ UNCHANGED <<pipe, taken>>
           \/ pipe' = <<>> /\ taken' = Len(sent)
    BY <1>3 DEF CloseRead, Emptied, Dropped
  <2> QED
    BY <1>1, <2>1, BetweenCalls
<1>4. ASSUME NEW bound \in LineBounds, NEW timed \in BOOLEAN, ReadLine(bound, timed)
      PROVE  StreamsInv'
  <2>1. bound \in Nat
    BY StreamsAssumption
  <2>2. /\ reader'.at = "read" /\ reader'.result = "none" /\ reader' \in ReaderCalls
        /\ reader'.line = <<>> /\ reader'.overflow = FALSE
    BY <1>1, <1>4, <2>1 DEF ReadLine, ReaderCalls
  <2>3. reader.at = "idle" /\ UNCHANGED <<writer, numbered, sent>> /\ UNCHANGED <<pipe, taken>>
    BY <1>4 DEF ReadLine
  <2> QED
    BY <2>2, <2>3, BetweenCalls
<1> QED
  BY <1>2, <1>3, <1>4

(* With nothing in the pipe, the reader has nothing either.                   *)
LEMMA EmptyPipe ==
  ASSUME StreamsInv, NothingToRead \/ EndOfPipe PROVE StreamsInv'
<1>1. /\ Numbered(sent, numbered) /\ taken \in 0..Len(sent) /\ pipe \in Seq(Unit)
      /\ Len(sent) \in Nat /\ reader \in ReaderCalls
  BY StreamFacts
<1>2. PICK start \in [taken + 1 .. Len(sent) + 1 -> Int] :
        Flows(start, pipe, sent, taken, numbered, reader)
  BY StreamFacts
<1>3. /\ reader.at = "read" /\ pipe = <<>> /\ UNCHANGED <<pipe, writer, numbered, sent, taken>>
  BY DEF NothingToRead, EndOfPipe
<1>4. 1 - start[taken + 1] = 0
  <2>1. Laid(start, pipe, sent, taken, numbered)
    BY <1>2 DEF Flows
  <2>2. taken = Len(sent) => start[taken + 1] = 1
    BY <1>1, <2>1, FlowsFacts
  <2>3. pipe = <<>> => taken = Len(sent)
    BY <1>1, <2>1, FlowsFacts
  <2> QED
    BY <1>3, <2>2, <2>3
<1>5. HasRead(0, reader, sent, taken, numbered) /\ Laid(start, pipe, sent, taken, numbered)
  BY <1>2, <1>4 DEF Flows
<1>6. reader.bound \in Nat /\ reader.line \in Seq(Unit) /\ reader.overflow \in BOOLEAN
  BY <1>1 DEF ReaderCalls
<1>7. reader.line = <<>> /\ ~reader.overflow
  <2>1. ~reader.overflow
    BY <1>3, <1>5, <1>6 DEF HasRead
  <2>2. Len(reader.line) = 0
    BY <1>3, <1>5, <2>1 DEF HasRead
  <2> QED
    BY <1>6, <2>1, <2>2, EmptySeq
<1>8. \E result \in {"nothing", "eof"} : LineEnds(result, <<>>)
  <2>1. Len(<<>>) = 0 /\ ~(0 > reader.bound)
    BY <1>6, EmptySeq
  <2> QED
    BY <1>7, <2>1 DEF NothingToRead, EndOfPipe
<1>9. PICK result \in {"nothing", "eof"} :
        reader' = [reader EXCEPT !.at = "idle", !.result = result, !.line = <<>>]
  BY <1>8 DEF LineEnds
<1>10. reader' \in ReaderCalls /\ reader'.at = "idle" /\ reader'.result = result
  BY <1>1, <1>9, EmptySeq DEF ReaderCalls
<1>11. Returned(reader', sent, taken', numbered)
  BY <1>10 DEF Returned
<1>12. Flows(start, pipe', sent, taken', numbered, reader')
  <2>1. HasRead(1 - start[taken + 1], reader', sent, taken, numbered)
    BY <1>4, <1>10 DEF HasRead
  <2> QED
    BY <1>3, <1>5, <2>1 DEF Flows
<1>13. /\ taken' \in 0..Len(sent) /\ pipe' \in Seq(Unit)
       /\ start \in [taken' + 1 .. Len(sent) + 1 -> Int]
  BY <1>1, <1>3
<1> QED
  BY <1>3, <1>10, <1>11, <1>12, <1>13, ReaderMoves

LEMMA ReadUnitKeeps == ASSUME StreamsInv, ReadUnit PROVE StreamsInv'
<1> DEFINE unit == pipe[1]
           line == Stripped(reader.line)
           n == sent[taken + 1]
           m == numbered[n]
<1>1. /\ Numbered(sent, numbered) /\ taken \in 0..Len(sent) /\ pipe \in Seq(Unit)
      /\ Len(sent) \in Nat /\ reader \in ReaderCalls /\ Returned(reader, sent, taken, numbered)
  BY StreamFacts
<1>2. /\ reader.at = "read" /\ pipe # <<>> /\ pipe' = Tail(pipe)
      /\ UNCHANGED <<writer, numbered, sent>>
      /\ IF unit.unit = "lf"
           THEN /\ taken' = taken + 1
                /\ IF reader.overflow \/ Len(line) > reader.bound
                     THEN LineEnds("toobig", <<>>)
                     ELSE LineEnds("line", line)
           ELSE /\ reader' = IF Len(reader.line) <= reader.bound
                               THEN [reader EXCEPT !.line = Append(@, unit)]
                               ELSE [reader EXCEPT !.overflow = TRUE]
                /\ UNCHANGED taken
  BY DEF ReadUnit
<1>3. PICK start \in [taken + 1 .. Len(sent) + 1 -> Int] :
        Flows(start, pipe, sent, taken, numbered, reader)
  BY StreamFacts
<1> DEFINE k == 1 - start[taken + 1]
<1>4. Laid(start, pipe, sent, taken, numbered) /\ HasRead(k, reader, sent, taken, numbered)
  BY <1>3 DEF Flows
<1>5. /\ taken + 1 \in 1..Len(sent) /\ n \in 1..Len(numbered) /\ m \in Message
      /\ k \in 0..m.length /\ unit = Spelled(m, n)[k + 1]
  BY <1>1, <1>2, <1>4, FirstUnit
<1>6. /\ reader.bound \in Nat /\ reader.line \in Seq(Unit) /\ reader.overflow \in BOOLEAN
      /\ Len(reader.line) \in Nat /\ reader.result = "none"
  <2>1. reader.result = "none"
    BY <1>1, <1>2 DEF Returned
  <2> QED
    BY <1>1, <2>1, LenProperties DEF ReaderCalls
<1>7. /\ reader.overflow => k > reader.bound + 1 /\ Len(reader.line) = reader.bound + 1
      /\ ~reader.overflow => /\ k <= reader.bound + 1 /\ Len(reader.line) = k
                             /\ \A i \in 1..k : reader.line[i] = Spelled(m, n)[i]
  BY <1>2, <1>4 DEF HasRead
<1>8. /\ n \in Nat /\ m.length \in Nat /\ k \in Nat /\ k + 1 \in 1..m.length + 1
      /\ unit \in Unit /\ (unit.unit = "lf" <=> k = m.length)
  <2>0. n \in Nat /\ m.length \in Nat
    BY <1>1, <1>5, NumberedFacts
  <2> HIDE DEF n, m, k
  <2>1. n \in Nat /\ m.length \in Nat /\ k \in Nat /\ k + 1 \in 1..m.length + 1
    BY <1>5, <2>0
  <2>2. Spelled(m, n)[k + 1] \in Unit /\ (Spelled(m, n)[k + 1].unit = "lf" <=> k + 1 = m.length + 1)
    BY <1>5, <2>1, SpelledFacts
  <2> QED
    BY <1>5, <2>1, <2>2
<1>9. Tail(pipe) \in Seq(Unit)
  BY <1>1, <1>2, HeadTailProperties
<1>10. taken \in Nat /\ taken \in 0..Len(sent) /\ taken + 1 \in 0..Len(sent) /\ taken + 1 <= Len(sent)
  BY <1>1, <1>5
<1>11. CASE unit.unit = "lf"
  <2>1. k = m.length /\ taken' = taken + 1
    BY <1>2, <1>8, <1>11
  <2>2. \E next \in [taken + 1 + 1 .. Len(sent) + 1 -> Int] :
          Laid(next, Tail(pipe), sent, taken + 1, numbered) /\ 1 - next[taken + 1 + 1] = 0
    <3>2. /\ Numbered(sent, numbered) /\ taken \in 0..Len(sent) /\ pipe \in Seq(Unit)
          /\ pipe # <<>>
      BY <1>1, <1>2
    <3>3. Laid(start, pipe, sent, taken, numbered)
      BY <1>4
    <3>1. 1 - start[taken + 1] = numbered[sent[taken + 1]].length
      BY <2>1
    <3> HIDE DEF n, m, k
    <3> QED
      BY <3>1, <3>2, <3>3, FlowsFinish
  <2>3. PICK next \in [taken + 1 + 1 .. Len(sent) + 1 -> Int] :
          Laid(next, Tail(pipe), sent, taken + 1, numbered) /\ 1 - next[taken + 1 + 1] = 0
    BY <2>2
  <2>4. ~reader.overflow =>
          /\ reader.line = SubSeq(Spelled(m, n), 1, m.length) /\ line \in Seq(Unit) /\ Len(line) \in Nat
          /\ Len(line) > 0 => Len(line) = m.length - (IF m.cr THEN 1 ELSE 0)
    <3> SUFFICES ASSUME ~reader.overflow
                 PROVE  /\ reader.line = SubSeq(Spelled(m, n), 1, m.length)
                        /\ line \in Seq(Unit) /\ Len(line) \in Nat
                        /\ Len(line) > 0 => Len(line) = m.length - (IF m.cr THEN 1 ELSE 0)
      OBVIOUS
    <3>1. /\ Len(reader.line) = m.length
          /\ \A i \in 1..m.length : reader.line[i] = Spelled(m, n)[i]
      BY <1>7, <2>1
    <3>2. m \in Message /\ n \in Nat /\ reader.line \in Seq(Unit)
      BY <1>5, <1>6, <1>8
    <3> HIDE DEF m, n, k
    <3> QED
      BY <3>1, <3>2, StrippedFacts
  <2>5. CASE reader.overflow \/ Len(line) > reader.bound
    <3>1. reader' = [reader EXCEPT !.at = "idle", !.result = "toobig", !.line = <<>>]
      BY <1>2, <1>11, <2>5 DEF LineEnds
    <3>2. /\ reader' \in ReaderCalls /\ reader'.at = "idle" /\ reader'.result = "toobig"
          /\ reader'.bound = reader.bound
      BY <1>1, <3>1, EmptySeq DEF ReaderCalls
    <3>3. m.length - (IF m.cr THEN 1 ELSE 0) > reader.bound
      <4>1. CASE reader.overflow
        BY <1>6, <1>7, <1>8, <2>1, <4>1
      <4>2. CASE ~reader.overflow /\ Len(line) > reader.bound
        BY <1>6, <2>4, <4>2
      <4> QED
        BY <2>5, <4>1, <4>2
    <3>4. Returned(reader', sent, taken', numbered)
      <4>1. taken' > 0 /\ sent[taken'] = n
        BY <1>10, <2>1
      <4> QED
        BY <3>2, <3>3, <4>1 DEF Returned
    <3>5. Flows(next, Tail(pipe), sent, taken + 1, numbered, reader')
      BY <2>3, <3>2 DEF Flows, HasRead
    <3> QED
      BY <1>2, <1>9, <1>10, <2>1, <3>2, <3>4, <3>5, ReaderMoves
  <2>6. CASE ~(reader.overflow \/ Len(line) > reader.bound)
    <3>1. reader' = [reader EXCEPT !.at = "idle", !.result = "line", !.line = line]
      BY <1>2, <1>11, <2>6 DEF LineEnds
    <3>2. /\ reader' \in ReaderCalls /\ reader'.at = "idle" /\ reader'.result = "line"
          /\ reader'.line = line
      <4>1. line \in Seq(Unit)
        BY <2>4, <2>6
      <4> HIDE DEF line
      <4> QED
        BY <1>1, <3>1, <4>1 DEF ReaderCalls
    <3>3. line = Stripped(SubSeq(Spelled(m, n), 1, m.length))
      BY <2>4, <2>6
    <3>4. Returned(reader', sent, taken', numbered)
      <4>1. taken' > 0 /\ sent[taken'] = n
        BY <1>10, <2>1
      <4> HIDE DEF line
      <4> QED
        BY <3>2, <3>3, <4>1 DEF Returned
    <3>5. Flows(next, Tail(pipe), sent, taken + 1, numbered, reader')
      BY <2>3, <3>2 DEF Flows, HasRead
    <3> QED
      BY <1>2, <1>9, <1>10, <2>1, <3>2, <3>4, <3>5, ReaderMoves
  <2> QED
    BY <2>5, <2>6
<1>12. CASE unit.unit # "lf"
  <2>1. k < m.length /\ taken' = taken
    BY <1>2, <1>5, <1>8, <1>12
  <2>2. PICK next \in [taken + 1 .. Len(sent) + 1 -> Int] :
          Laid(next, Tail(pipe), sent, taken, numbered) /\ 1 - next[taken + 1] = k + 1
    <3>2. /\ Numbered(sent, numbered) /\ taken \in 0..Len(sent) /\ pipe \in Seq(Unit)
          /\ pipe # <<>>
      BY <1>1, <1>2
    <3>3. Laid(start, pipe, sent, taken, numbered)
      BY <1>4
    <3>1. 1 - start[taken + 1] < numbered[sent[taken + 1]].length
      BY <2>1
    <3>4. \E next \in [taken + 1 .. Len(sent) + 1 -> Int] :
            /\ Laid(next, Tail(pipe), sent, taken, numbered)
            /\ 1 - next[taken + 1] = 1 - start[taken + 1] + 1
      <4> HIDE DEF n, m, k
      <4> QED
        BY <3>1, <3>2, <3>3, FlowsContinue
    <3> QED
      BY <3>4
  <2>3. CASE Len(reader.line) <= reader.bound
    <3> DEFINE longer == Append(reader.line, unit)
    <3>1. reader' = [reader EXCEPT !.line = longer]
      BY <1>2, <1>12, <2>3
    <3>2. ~reader.overflow
      BY <1>6, <1>7, <2>3
    <3>3. /\ longer \in Seq(Unit) /\ Len(longer) = k + 1 /\ longer[k + 1] = Spelled(m, n)[k + 1]
          /\ \A i \in 1..k : longer[i] = Spelled(m, n)[i]
      BY <1>5, <1>6, <1>7, <1>8, <3>2, AppendProperties
    <3> HIDE DEF longer
    <3>4. /\ reader' \in ReaderCalls /\ reader'.at = "read" /\ reader'.result = "none"
          /\ reader'.bound = reader.bound /\ reader'.line = longer /\ ~reader'.overflow
      BY <1>1, <1>2, <1>6, <3>1, <3>2, <3>3 DEF ReaderCalls
    <3>5. k + 1 <= reader.bound + 1
      BY <1>6, <1>7, <1>8, <2>3, <3>2
    <3>6. \A i \in 1..k + 1 : longer[i] = Spelled(m, n)[i]
      <4>1. \A i \in 1..k + 1 : i \in 1..k \/ i = k + 1
        BY <1>8
      <4> QED
        BY <3>3, <4>1
    <3>7. HasRead(k + 1, reader', sent, taken, numbered)
      <4> HIDE DEF k, n, m
      <4>1. /\ reader'.at = "read" /\ ~reader'.overflow /\ k + 1 <= reader'.bound + 1
            /\ Len(reader'.line) = k + 1 /\ \A i \in 1..k + 1 : reader'.line[i] = Spelled(m, n)[i]
        BY <3>3, <3>4, <3>5, <3>6
      <4> QED
        BY <4>1 DEF HasRead, n, m
    <3>8. Flows(next, Tail(pipe), sent, taken, numbered, reader')
      BY <2>2, <3>7 DEF Flows
    <3>9. Returned(reader', sent, taken', numbered)
      BY <3>4 DEF Returned
    <3> QED
      BY <1>2, <1>9, <1>10, <2>1, <3>4, <3>8, <3>9, ReaderMoves
  <2>4. CASE ~(Len(reader.line) <= reader.bound)
    <3>1. reader' = [reader EXCEPT !.overflow = TRUE]
      BY <1>2, <1>12, <2>4
    <3>2. /\ reader' \in ReaderCalls /\ reader'.at = "read" /\ reader'.result = "none"
          /\ reader'.bound = reader.bound /\ reader'.line = reader.line /\ reader'.overflow
      BY <1>1, <1>2, <1>6, <3>1 DEF ReaderCalls
    <3>3. k + 1 > reader.bound + 1 /\ Len(reader.line) = reader.bound + 1
      BY <1>6, <1>7, <1>8, <2>4
    <3>4. HasRead(k + 1, reader', sent, taken, numbered)
      BY <3>2, <3>3 DEF HasRead
    <3>5. Flows(next, Tail(pipe), sent, taken, numbered, reader')
      BY <2>2, <3>4 DEF Flows
    <3>6. Returned(reader', sent, taken', numbered)
      BY <3>2 DEF Returned
    <3> QED
      BY <1>2, <1>9, <1>10, <2>1, <3>2, <3>5, <3>6, ReaderMoves
  <2> QED
    BY <2>3, <2>4
<1> QED
  BY <1>11, <1>12

(* The invariant of the messages.                                             *)
LEMMA StreamsInit1 == StreamsInit => StreamsInv
<1> SUFFICES ASSUME StreamsInit PROVE StreamsInv
  OBVIOUS
<1>1. /\ pipe = <<>> /\ sent = <<>> /\ taken = 0 /\ numbered = <<>>
      /\ writer = [w \in Writer |-> NoWrite] /\ reader = NoRead
  BY DEF StreamsInit
<1>2. <<>> \in Seq(Nat) /\ <<>> \in Seq(Message) /\ <<>> \in Seq(Unit) /\ Len(<<>>) = 0
  BY EmptySeq
<1>3. Numbered(sent, numbered)
  BY <1>1, <1>2 DEF Numbered
<1>4. /\ NoWrite \in WriterCalls /\ NoWrite.number = 0 /\ NoWrite.at = "idle"
      /\ NoWrite.result = "none"
  BY DEF NoWrite, WriterCalls, WriterResults
<1>5. SenderOk(NoWrite, sent, numbered)
  BY <1>1, <1>2, <1>4 DEF SenderOk
<1>6. NoRead \in ReaderCalls /\ NoRead.at = "closed" /\ NoRead.result = "none"
  BY EmptySeq DEF NoRead, ReaderCalls
<1>7. Returned(reader, sent, taken, numbered)
  BY <1>1, <1>6 DEF Returned
<1>8. \E start \in [Len(sent) + 1 .. Len(sent) + 1 -> Int] :
        Flows(start, <<>>, sent, Len(sent), numbered, reader)
  BY <1>1, <1>3, <1>6, FlowsEnd
<1>9. \E start \in [taken + 1 .. Len(sent) + 1 -> Int] :
        Flows(start, pipe, sent, taken, numbered, reader)
  BY <1>1, <1>2, <1>8
<1> QED
  BY <1>1, <1>2, <1>3, <1>4, <1>5, <1>6, <1>7, <1>9 DEF StreamsInv

LEMMA StreamsStep == StreamsInv /\ [StreamsNext]_streamsVars => StreamsInv'
<1> SUFFICES ASSUME StreamsInv, [StreamsNext]_streamsVars PROVE StreamsInv'
  OBVIOUS
<1>1. CASE UNCHANGED streamsVars
  BY <1>1 DEF streamsVars, StreamsInv
<1> QED
  BY <1>1, SendKeeps, WriterSteps, WriteOnceKeeps, CallsOfReader, EmptyPipe, ReadUnitKeeps
  DEF StreamsNext

LEMMA StreamsFollow == StreamsInv => LinesAreMessages /\ WritersKnow
<1> SUFFICES ASSUME StreamsInv PROVE LinesAreMessages /\ WritersKnow
  OBVIOUS
<1>1. /\ Numbered(sent, numbered) /\ taken \in 0..Len(sent) /\ reader \in ReaderCalls
      /\ writer \in [Writer -> WriterCalls] /\ sent \in Seq(Nat) /\ Len(sent) \in Nat
      /\ Returned(reader, sent, taken, numbered)
      /\ \A w \in Writer : SenderOk(writer[w], sent, numbered)
  BY StreamFacts
<1>2. LinesAreMessages
  <2>1. \A n : Units(n) = Spelled(numbered[n], n)
    BY DEF Units, Spelled
  <2>2. reader.result # "protocol"
    BY <1>1 DEF ReaderCalls
  <2> QED
    BY <1>1, <2>1, <2>2 DEF LinesAreMessages, Returned
<1>3. WritersKnow
  <2> SUFFICES ASSUME NEW w \in Writer
               PROVE  LET times == {i \in DOMAIN sent : sent[i] = writer[w].number}
                      IN  /\ writer[w].result \in {"ok", "unclosed"} => \E i \in DOMAIN sent : times = {i}
                          /\ writer[w].result \in {"toolong", "broken", "timeout"} => times = {}
                          /\ writer[w].result # "cut"
    BY DEF WritersKnow
  <2> DEFINE times == {i \in DOMAIN sent : sent[i] = writer[w].number}
  <2>1. DOMAIN sent = 1..Len(sent)
    BY <1>1, LenProperties
  <2>2. \A i, j \in 1..Len(sent) : sent[i] = sent[j] => i = j
    BY <1>1 DEF Numbered
  <2>3. SenderOk(writer[w], sent, numbered)
    BY <1>1
  <2>4. writer[w].result \in {"ok", "unclosed"} => \E i \in DOMAIN sent : times = {i}
    <3> SUFFICES ASSUME writer[w].result \in {"ok", "unclosed"}
                 PROVE  \E i \in DOMAIN sent : times = {i}
      OBVIOUS
    <3>1. PICK i \in 1..Len(sent) : sent[i] = writer[w].number
      BY <2>3 DEF SenderOk, InOrder
    <3>2. times = {i}
      BY <2>1, <2>2, <3>1
    <3> QED
      BY <2>1, <3>2
  <2>5. writer[w].result \in {"toolong", "broken", "timeout"} => times = {}
    BY <2>1, <2>3 DEF SenderOk, InOrder
  <2>6. writer[w].result # "cut"
    BY <1>1 DEF WriterCalls, WriterResults
  <2> QED
    BY <2>4, <2>5, <2>6
<1> QED
  BY <1>2, <1>3

-----------------------------------------------------------------------------
(* Octets through a socket.  What has been received and what is on its way are   *)
(* one sequence: of every call, in turn, its first octets.                      *)
Octets == [call : Nat, place : Nat]
SocketResults == {"refused", "ok", "closed", "error"}
Writes == [length : Nat, result : SocketResults, out : Nat]
Sendings == [at : {"idle", "send", "wait"}, length : Nat, offset : Nat]

InTurn(all, i) ==
  \/ all[i].place = 1 /\ \A j \in 1..i - 1 : all[j].call < all[i].call
  \/ i > 1 /\ all[i] = [all[i - 1] EXCEPT !.place = @ + 1]

WriteOk(write, all, c, joined) ==
  /\ write.result = "ok" => write.out = write.length /\ (joined => PlacesOf(all, c) = 1..write.length)
  /\ write.result # "ok" => write.out = 0
  /\ write.result = "refused" => PlacesOf(all, c) = {}

(* The call being made, not yet among the writes: its octets so far.           *)
CallNow(all, c, offset, joined) ==
  /\ PlacesOf(all, c) \subseteq 1..offset
  /\ joined => /\ PlacesOf(all, c) = 1..offset
               /\ offset > 0 => /\ all # <<>>
                                /\ all[Len(all)] = [call |-> c, place |-> offset]

Arrived(all, writes, offset, joined) ==
  /\ all \in Seq(Octets)
  /\ \A i \in 1..Len(all) : all[i].call \in 1..Len(writes) + 1 /\ InTurn(all, i)
  /\ CallNow(all, Len(writes) + 1, offset, joined)
  /\ \A c \in 1..Len(writes) : WriteOk(writes[c], all, c, joined)

SocketsInv ==
  /\ received \in Seq(Octets) /\ wire \in Seq(Octets) /\ linked \in BOOLEAN
  /\ written \in Seq(Writes) /\ sending \in Sendings
  /\ sending.offset <= sending.length /\ (sending.at = "idle" => sending = Unsent)
  /\ Arrived(received \o wire, written, sending.offset, linked)

LEMMA PlacesOfSeq ==
  ASSUME NEW all \in Seq(Octets), NEW c, NEW place
  PROVE  place \in PlacesOf(all, c) <=> \E i \in 1..Len(all) : all[i].call = c /\ all[i].place = place
<1>1. DOMAIN all = 1..Len(all)
  BY LenProperties
<1> QED
  BY <1>1 DEF PlacesOf

LEMMA PrefixArrives ==
  ASSUME NEW all, NEW writes \in Seq(Writes), NEW offset \in Nat, NEW joined \in BOOLEAN,
         Arrived(all, writes, offset, joined), NEW n \in 0..Len(all)
  PROVE  Arrived(SubSeq(all, 1, n), writes, offset, FALSE)
<1> DEFINE some == SubSeq(all, 1, n)
<1>1. /\ all \in Seq(Octets) /\ Len(all) \in Nat /\ Len(writes) \in Nat
      /\ \A i \in 1..Len(all) : all[i].call \in 1..Len(writes) + 1 /\ InTurn(all, i)
      /\ PlacesOf(all, Len(writes) + 1) \subseteq 1..offset
      /\ \A c \in 1..Len(writes) : WriteOk(writes[c], all, c, joined)
  BY LenProperties DEF Arrived, CallNow
<1>2. some \in Seq(Octets) /\ Len(some) = n /\ \A i \in 1..n : some[i] = all[i]
  BY <1>1, SubSeqProperties
<1> HIDE DEF some
<1>3. ASSUME NEW c PROVE PlacesOf(some, c) \subseteq PlacesOf(all, c)
  <2>1. ASSUME NEW place \in PlacesOf(some, c) PROVE place \in PlacesOf(all, c)
    <3>1. PICK i \in 1..n : some[i].call = c /\ some[i].place = place
      BY <1>2, <2>1, PlacesOfSeq
    <3>2. i \in 1..Len(all) /\ all[i].call = c /\ all[i].place = place
      BY <1>1, <1>2, <3>1
    <3> QED
      BY <1>1, <3>2, PlacesOfSeq
  <2> QED
    BY <2>1
<1>4. ASSUME NEW i \in 1..n PROVE some[i].call \in 1..Len(writes) + 1 /\ InTurn(some, i)
  <2>1. /\ i \in 1..Len(all) /\ some[i] = all[i] /\ \A j \in 1..i - 1 : some[j] = all[j]
        /\ i > 1 => some[i - 1] = all[i - 1]
    BY <1>1, <1>2
  <2>2. InTurn(all, i) /\ all[i].call \in 1..Len(writes) + 1
    BY <1>1, <2>1
  <2> QED
    BY <2>1, <2>2 DEF InTurn
<1>5. CallNow(some, Len(writes) + 1, offset, FALSE)
  BY <1>1, <1>3 DEF CallNow
<1>6. ASSUME NEW c \in 1..Len(writes) PROVE WriteOk(writes[c], some, c, FALSE)
  BY <1>1, <1>3 DEF WriteOk
<1>7. Arrived(some, writes, offset, FALSE)
  BY <1>2, <1>4, <1>5, <1>6 DEF Arrived
<1> QED
  BY <1>7 DEF some

(* More octets of the call being made, right behind those that came.            *)
MoreOctets(c, offset, d) == [i \in 1..d |-> [call |-> c, place |-> offset + i]]

LEMMA MoreOctetsArrive ==
  ASSUME NEW all, NEW writes \in Seq(Writes), NEW offset \in Nat, NEW d \in Nat,
         Arrived(all, writes, offset, TRUE)
  PROVE  Arrived(all \o MoreOctets(Len(writes) + 1, offset, d), writes, offset + d, TRUE)
<1> DEFINE c == Len(writes) + 1
           more == MoreOctets(c, offset, d)
           longer == all \o more
<1>1. /\ all \in Seq(Octets) /\ Len(all) \in Nat /\ Len(writes) \in Nat /\ c \in Nat
      /\ \A i \in 1..Len(all) : all[i].call \in 1..c /\ InTurn(all, i)
      /\ PlacesOf(all, c) = 1..offset
      /\ offset > 0 => all # <<>> /\ all[Len(all)] = [call |-> c, place |-> offset]
      /\ \A b \in 1..Len(writes) : WriteOk(writes[b], all, b, TRUE)
  <2>1. all \in Seq(Octets) /\ Len(all) \in Nat /\ Len(writes) \in Nat /\ c \in Nat
    BY LenProperties DEF Arrived
  <2>2. /\ \A i \in 1..Len(all) : all[i].call \in 1..c /\ InTurn(all, i)
        /\ \A b \in 1..Len(writes) : WriteOk(writes[b], all, b, TRUE)
    BY DEF Arrived
  <2>3. CallNow(all, c, offset, TRUE)
    BY DEF Arrived
  <2> HIDE DEF c
  <2> QED
    BY <2>1, <2>2, <2>3 DEF CallNow
<1>2. /\ more \in Seq(Octets) /\ Len(more) = d
      /\ \A i \in 1..d : more[i] = [call |-> c, place |-> offset + i]
  <2>1. \A i \in 1..d : [call |-> c, place |-> offset + i] \in Octets
    BY <1>1 DEF Octets
  <2> HIDE DEF c
  <2>2. more \in [1..d -> Octets] /\ \A i \in 1..d : more[i] = [call |-> c, place |-> offset + i]
    BY <2>1 DEF MoreOctets
  <2> HIDE DEF more
  <2>3. more \in Seq(Octets)
    BY <2>2, SeqDef
  <2>4. DOMAIN more = 1..d /\ DOMAIN more = 1..Len(more) /\ Len(more) \in Nat
    BY <2>2, <2>3, LenProperties
  <2> QED
    BY <2>2, <2>3, <2>4
<1> HIDE DEF more
<1>3. /\ longer \in Seq(Octets) /\ Len(longer) = Len(all) + d
      /\ \A i \in 1..Len(longer) : longer[i] = IF i <= Len(all) THEN all[i] ELSE more[i - Len(all)]
  <2>1. /\ longer \in Seq(Octets) /\ Len(longer) = Len(all) + Len(more)
        /\ \A i \in 1..Len(all) + Len(more) :
             longer[i] = IF i <= Len(all) THEN all[i] ELSE more[i - Len(all)]
    BY <1>1, <1>2, ConcatProperties
  <2> HIDE DEF longer
  <2> QED
    BY <1>2, <2>1
<1> HIDE DEF longer, c
<1>4. /\ \A i \in 1..Len(all) : i \in 1..Len(longer) /\ longer[i] = all[i]
      /\ \A i \in 1..Len(longer) : i > Len(all) =>
           i - Len(all) \in 1..d /\ longer[i] = [call |-> c, place |-> offset + (i - Len(all))]
      /\ \A i \in 1..Len(longer) : i > Len(all) =>
           longer[i].call = c /\ longer[i].place = offset + (i - Len(all))
  <2>1. ASSUME NEW i \in 1..Len(all) PROVE i \in 1..Len(longer) /\ longer[i] = all[i]
    BY <1>1, <1>3
  <2>2. ASSUME NEW i \in 1..Len(longer), i > Len(all)
        PROVE  /\ i - Len(all) \in 1..d /\ longer[i] = [call |-> c, place |-> offset + (i - Len(all))]
               /\ longer[i].call = c /\ longer[i].place = offset + (i - Len(all))
    <3>1. i - Len(all) \in 1..d /\ ~(i <= Len(all))
      BY <1>1, <1>3, <2>2
    <3>2. longer[i] = more[i - Len(all)]
      BY <1>3, <3>1
    <3>3. longer[i] = [call |-> c, place |-> offset + (i - Len(all))]
      BY <1>2, <3>1, <3>2
    <3> QED
      BY <3>1, <3>3
  <2> QED
    BY <2>1, <2>2
<1>5. ASSUME NEW b, b # c PROVE PlacesOf(longer, b) = PlacesOf(all, b)
  <2>1. ASSUME NEW place PROVE place \in PlacesOf(longer, b) <=> place \in PlacesOf(all, b)
    <3>1. ASSUME NEW i \in 1..Len(longer), longer[i].call = b PROVE i \in 1..Len(all)
      <4>1. ~(i > Len(all))
        BY <1>4, <1>5, <3>1
      <4> QED
        BY <1>1, <1>3, <4>1
    <3>2. \A i \in 1..Len(all) : i \in 1..Len(longer) /\ longer[i] = all[i]
      BY <1>4
    <3>3. (\E i \in 1..Len(longer) : longer[i].call = b /\ longer[i].place = place)
             <=> (\E i \in 1..Len(all) : all[i].call = b /\ all[i].place = place)
      <4>1. ASSUME NEW i \in 1..Len(longer), longer[i].call = b /\ longer[i].place = place
            PROVE  i \in 1..Len(all) /\ all[i].call = b /\ all[i].place = place
        BY <3>1, <3>2, <4>1
      <4>2. ASSUME NEW i \in 1..Len(all), all[i].call = b /\ all[i].place = place
            PROVE  i \in 1..Len(longer) /\ longer[i].call = b /\ longer[i].place = place
        BY <3>2, <4>2
      <4> QED
        BY <4>1, <4>2
    <3>4. all \in Seq(Octets) /\ longer \in Seq(Octets)
      BY <1>1, <1>3
    <3>5. place \in PlacesOf(longer, b)
            <=> \E i \in 1..Len(longer) : longer[i].call = b /\ longer[i].place = place
      BY <3>4, PlacesOfSeq
    <3>6. place \in PlacesOf(all, b)
            <=> \E i \in 1..Len(all) : all[i].call = b /\ all[i].place = place
      BY <3>4, PlacesOfSeq
    <3> QED
      BY <3>3, <3>5, <3>6
  <2> QED
    BY <2>1
<1>6. PlacesOf(longer, c) = 1..offset + d
  <2>1. ASSUME NEW place \in PlacesOf(longer, c) PROVE place \in 1..offset + d
    <3>1. PICK i \in 1..Len(longer) : longer[i].call = c /\ longer[i].place = place
      BY <1>3, <2>1, PlacesOfSeq
    <3>2. CASE i <= Len(all)
      <4>1. i \in 1..Len(all) /\ all[i].call = c /\ all[i].place = place
        BY <1>1, <1>3, <1>4, <3>1, <3>2
      <4>2. place \in 1..offset
        BY <1>1, <4>1, PlacesOfSeq
      <4> QED
        BY <4>2
    <3>3. CASE i > Len(all)
      <4>1. i - Len(all) \in 1..d /\ place = offset + (i - Len(all))
        BY <1>4, <3>1, <3>3
      <4> DEFINE u == i - Len(all)
      <4> HIDE DEF u
      <4>2. u \in 1..d /\ place = offset + u
        BY <4>1 DEF u
      <4> QED
        BY <4>2
    <3> QED
      BY <1>1, <1>3, <3>2, <3>3
  <2>2. ASSUME NEW place \in 1..offset + d PROVE place \in PlacesOf(longer, c)
    <3>1. CASE place <= offset
      <4>1. place \in PlacesOf(all, c)
        BY <1>1, <3>1
      <4>2. all \in Seq(Octets)
        BY <1>1
      <4>3. PICK i \in 1..Len(all) : all[i].call = c /\ all[i].place = place
        BY <4>1, <4>2, PlacesOfSeq
      <4> QED
        BY <1>3, <1>4, <4>3, PlacesOfSeq
    <3>2. CASE place > offset
      <4> DEFINE i == Len(all) + (place - offset)
      <4>1. i \in 1..Len(longer) /\ i > Len(all) /\ offset + (i - Len(all)) = place
        BY <1>1, <1>3, <3>2
      <4> HIDE DEF i
      <4>2. longer[i].call = c /\ longer[i].place = place
        BY <1>4, <4>1
      <4> QED
        BY <1>3, <4>1, <4>2, PlacesOfSeq
    <3> QED
      BY <3>1, <3>2
  <2> QED
    BY <2>1, <2>2
<1>7. ASSUME NEW i \in 1..Len(longer)
      PROVE  longer[i].call \in 1..c /\ InTurn(longer, i)
  <2>1. CASE i <= Len(all)
    <3>1. /\ i \in 1..Len(all) /\ longer[i] = all[i] /\ \A j \in 1..i - 1 : longer[j] = all[j]
          /\ i > 1 => longer[i - 1] = all[i - 1]
      <4>1. /\ i \in 1..Len(all) /\ \A j \in 1..i - 1 : j \in 1..Len(all)
            /\ i > 1 => i - 1 \in 1..Len(all)
        BY <1>1, <1>3, <2>1
      <4> QED
        BY <1>4, <4>1
    <3>2. all[i].call \in 1..c /\ InTurn(all, i)
      BY <1>1, <3>1
    <3> QED
      BY <3>1, <3>2 DEF InTurn
  <2>2. CASE i = Len(all) + 1 /\ offset = 0
    <3>1. longer[i] = [call |-> c, place |-> 1] /\ i - 1 = Len(all)
      <4>1. i > Len(all) /\ i - Len(all) = 1 /\ offset + (i - Len(all)) = 1 /\ i - 1 = Len(all)
        BY <1>1, <2>2
      <4>2. longer[i] = [call |-> c, place |-> offset + (i - Len(all))]
        BY <1>4, <4>1
      <4> QED
        BY <4>1, <4>2
    <3>2. ASSUME NEW j \in 1..Len(all) PROVE longer[j].call < c
      <4>1. longer[j] = all[j] /\ all[j].call \in 1..c
        BY <1>1, <1>4
      <4>2. all[j].call # c
        <5>1. PlacesOf(all, c) = {}
          BY <1>1, <2>2
        <5>2. all \in Seq(Octets) /\ all[j].place \notin PlacesOf(all, c)
          BY <1>1, <5>1
        <5> QED
          BY <5>2, PlacesOfSeq
      <4> DEFINE a == all[j].call
      <4> HIDE DEF a
      <4>3. a \in 1..c /\ a # c
        BY <4>1, <4>2 DEF a
      <4>4. a < c
        BY <1>1, <4>3
      <4> QED
        BY <4>1, <4>4 DEF a
    <3>3. longer[i].call \in 1..c
      BY <1>1, <3>1 DEF c
    <3> QED
      BY <3>1, <3>2, <3>3 DEF InTurn
  <2>3. CASE i = Len(all) + 1 /\ offset > 0
    <3>1. i > Len(all) /\ i - Len(all) = 1 /\ i - 1 = Len(all)
      BY <1>1, <2>3
    <3>2. longer[i] = [call |-> c, place |-> offset + 1]
      BY <1>4, <3>1
    <3>3. Len(all) \in 1..Len(all) /\ all[Len(all)] = [call |-> c, place |-> offset]
      BY <1>1, <2>3, EmptySeq
    <3>4. i > 1 /\ longer[i - 1] = [call |-> c, place |-> offset]
      BY <1>1, <1>4, <2>3, <3>1, <3>3
    <3>5. longer[i].call \in 1..c
      BY <1>1, <3>2 DEF c
    <3> QED
      BY <3>2, <3>4, <3>5 DEF InTurn
  <2>4. CASE i > Len(all) + 1
    <3>1. i > Len(all) /\ i - 1 > Len(all) /\ i - 1 \in 1..Len(longer) /\ i > 1 /\ i \in Nat
      BY <1>1, <1>3, <2>4
    <3>2. /\ longer[i] = [call |-> c, place |-> offset + (i - Len(all))]
          /\ longer[i - 1] = [call |-> c, place |-> offset + ((i - 1) - Len(all))]
      BY <1>4, <3>1
    <3>3. offset + (i - Len(all)) = offset + ((i - 1) - Len(all)) + 1
      BY <1>1, <3>1
    <3>4. longer[i].call \in 1..c
      BY <1>1, <3>2 DEF c
    <3> QED
      BY <3>1, <3>2, <3>3, <3>4 DEF InTurn
  <2> QED
    BY <1>1, <1>3, <2>1, <2>2, <2>3, <2>4
<1>8. CallNow(longer, c, offset + d, TRUE)
  <2>1. offset + d > 0 => longer # <<>> /\ longer[Len(longer)] = [call |-> c, place |-> offset + d]
    <3>1. CASE d = 0 /\ offset > 0
      <4>1. Len(longer) = Len(all) /\ Len(all) \in 1..Len(all) /\ Len(all) > 0 /\ offset + d = offset
        BY <1>1, <1>3, <3>1, EmptySeq
      <4> QED
        BY <1>1, <1>3, <1>4, <3>1, <4>1, EmptySeq
    <3>2. CASE d > 0
      <4>1. /\ Len(longer) \in 1..Len(longer) /\ Len(longer) > Len(all) /\ Len(longer) - Len(all) = d
            /\ Len(longer) > 0
        BY <1>1, <1>3, <3>2
      <4> QED
        BY <1>3, <1>4, <4>1, EmptySeq
    <3> QED
      BY <3>1, <3>2
  <2> QED
    BY <1>6, <2>1 DEF CallNow
<1>9. ASSUME NEW b \in 1..Len(writes) PROVE WriteOk(writes[b], longer, b, TRUE)
  <2>1. b # c
    BY <1>1 DEF c
  <2>2. PlacesOf(longer, b) = PlacesOf(all, b)
    BY <1>5, <2>1
  <2> QED
    BY <1>1, <2>2 DEF WriteOk
<1>10. Arrived(longer, writes, offset + d, TRUE)
  BY <1>3, <1>7, <1>8, <1>9 DEF Arrived, c
<1> QED
  BY <1>10 DEF longer, more, c

(* The call ends: what it says of itself is so.                                *)
LEMMA EndedArrives ==
  ASSUME NEW all, NEW writes \in Seq(Writes), NEW offset \in Nat, NEW joined \in BOOLEAN,
         Arrived(all, writes, offset, joined), NEW write \in Writes,
         write.result = "ok" => write.out = write.length /\ write.length = offset,
         write.result # "ok" => write.out = 0,
         write.result = "refused" => offset = 0
  PROVE  Arrived(all, Append(writes, write), 0, joined)
<1> DEFINE c == Len(writes) + 1
           more == Append(writes, write)
<1>1. /\ all \in Seq(Octets) /\ Len(all) \in Nat /\ Len(writes) \in Nat /\ c \in Nat
      /\ \A i \in 1..Len(all) : all[i].call \in 1..c /\ InTurn(all, i)
      /\ PlacesOf(all, c) \subseteq 1..offset /\ (joined => PlacesOf(all, c) = 1..offset)
      /\ \A b \in 1..Len(writes) : WriteOk(writes[b], all, b, joined)
  BY LenProperties DEF Arrived, CallNow
<1>2. /\ more \in Seq(Writes) /\ Len(more) = c /\ more[c] = write
      /\ \A b \in 1..Len(writes) : more[b] = writes[b]
  BY AppendProperties
<1> HIDE DEF more, c
<1>3. ASSUME NEW i \in 1..Len(all) PROVE all[i].call \in 1..c + 1 /\ InTurn(all, i)
  BY <1>1
<1>4. PlacesOf(all, c + 1) = {}
  <2>1. ASSUME NEW place PROVE place \notin PlacesOf(all, c + 1)
    <3>1. ASSUME NEW i \in 1..Len(all) PROVE all[i].call # c + 1
      <4>1. all[i].call \in 1..c /\ c + 1 \notin 1..c
        BY <1>1
      <4> QED
        BY <4>1
    <3> QED
      BY <1>1, <3>1, PlacesOfSeq
  <2> QED
    BY <2>1
<1>5. CallNow(all, c + 1, 0, joined)
  BY <1>4 DEF CallNow
<1>6. WriteOk(write, all, c, joined)
  BY <1>1 DEF WriteOk
<1>7. ASSUME NEW b \in 1..c PROVE WriteOk(more[b], all, b, joined)
  <2>1. b \in 1..Len(writes) \/ b = c
    BY <1>1 DEF c
  <2> QED
    BY <1>1, <1>2, <1>6, <2>1
<1>8. Arrived(all, more, 0, joined)
  BY <1>1, <1>2, <1>3, <1>5, <1>7 DEF Arrived
<1> QED
  BY <1>8 DEF more

(* Reading takes from the wire what it adds to the arena; the loss of the peer  *)
(* cuts the end of the wire.                                                    *)
LEMMA ReadKeepsAll ==
  ASSUME NEW arena \in Seq(Octets), NEW way \in Seq(Octets), NEW n \in 0..Len(way)
  PROVE  /\ arena \o SubSeq(way, 1, n) \in Seq(Octets)
         /\ SubSeq(way, n + 1, Len(way)) \in Seq(Octets)
         /\ (arena \o SubSeq(way, 1, n)) \o SubSeq(way, n + 1, Len(way)) = arena \o way
<1> DEFINE first == SubSeq(way, 1, n)
           rest == SubSeq(way, n + 1, Len(way))
           left == (arena \o first) \o rest
           right == arena \o way
<1>1. n \in Nat /\ Len(way) \in Nat /\ Len(arena) \in Nat /\ n <= Len(way)
  BY LenProperties
<1>2. first \in Seq(Octets) /\ Len(first) = n /\ \A i \in 1..n : first[i] = way[i]
  BY <1>1, SubSeqProperties
<1>3. rest \in Seq(Octets) /\ Len(rest) = Len(way) - n
      /\ \A i \in 1..Len(way) - n : rest[i] = way[n + i]
  <2>1. rest \in Seq(Octets) /\ Len(rest) = (IF n + 1 <= Len(way) THEN Len(way) - (n + 1) + 1 ELSE 0)
        /\ \A i \in 1..Len(way) - (n + 1) + 1 : rest[i] = way[n + 1 + i - 1]
    BY <1>1, SubSeqProperties
  <2>2. Len(rest) = Len(way) - n /\ Len(way) - (n + 1) + 1 = Len(way) - n
    BY <1>1, <2>1
  <2>3. ASSUME NEW i \in 1..Len(way) - n PROVE rest[i] = way[n + i]
    <3>1. n + 1 + i - 1 = n + i
      BY <1>1
    <3> QED
      BY <2>1, <2>2, <3>1
  <2> QED
    BY <2>1, <2>2, <2>3
<1> HIDE DEF first, rest
<1>4. /\ arena \o first \in Seq(Octets) /\ Len(arena \o first) = Len(arena) + n
      /\ \A i \in 1..Len(arena) + n :
           (arena \o first)[i] = IF i <= Len(arena) THEN arena[i] ELSE first[i - Len(arena)]
  BY <1>1, <1>2, ConcatProperties
<1>5. /\ left \in Seq(Octets) /\ Len(left) = Len(arena) + Len(way)
      /\ \A i \in 1..Len(arena) + Len(way) :
           left[i] = IF i <= Len(arena) + n THEN (arena \o first)[i] ELSE rest[i - (Len(arena) + n)]
  <2> DEFINE taken1 == arena \o first
  <2> HIDE DEF taken1
  <2>1. taken1 \in Seq(Octets) /\ Len(taken1) = Len(arena) + n
    BY <1>4 DEF taken1
  <2>2. /\ taken1 \o rest \in Seq(Octets) /\ Len(taken1 \o rest) = Len(taken1) + Len(rest)
        /\ \A i \in 1..Len(taken1) + Len(rest) :
             (taken1 \o rest)[i] = IF i <= Len(taken1) THEN taken1[i] ELSE rest[i - Len(taken1)]
    BY <1>3, <2>1, ConcatProperties
  <2>3. Len(taken1) + Len(rest) = Len(arena) + Len(way)
    BY <1>1, <1>3, <2>1
  <2> QED
    BY <2>1, <2>2, <2>3 DEF taken1
<1>6. /\ right \in Seq(Octets) /\ Len(right) = Len(arena) + Len(way)
      /\ \A i \in 1..Len(arena) + Len(way) :
           right[i] = IF i <= Len(arena) THEN arena[i] ELSE way[i - Len(arena)]
  BY <1>1, ConcatProperties
<1> HIDE DEF left, right
<1>7. ASSUME NEW i \in 1..Len(arena) + Len(way) PROVE left[i] = right[i]
  <2>1. CASE i <= Len(arena)
    <3>1. i \in 1..Len(arena) + n /\ i <= Len(arena) + n
      BY <1>1, <2>1
    <3> QED
      BY <1>4, <1>5, <1>6, <2>1, <3>1
  <2>2. CASE i > Len(arena) /\ i <= Len(arena) + n
    <3>1. i \in 1..Len(arena) + n /\ ~(i <= Len(arena)) /\ i - Len(arena) \in 1..n
      BY <1>1, <2>2
    <3>2. left[i] = first[i - Len(arena)] /\ right[i] = way[i - Len(arena)]
      BY <1>4, <1>5, <1>6, <2>2, <3>1
    <3> QED
      BY <1>2, <3>1, <3>2
  <2>3. CASE i > Len(arena) + n
    <3>1. /\ ~(i <= Len(arena)) /\ ~(i <= Len(arena) + n) /\ i - (Len(arena) + n) \in 1..Len(way) - n
          /\ n + (i - (Len(arena) + n)) = i - Len(arena)
      BY <1>1, <2>3
    <3>2. left[i] = rest[i - (Len(arena) + n)] /\ right[i] = way[i - Len(arena)]
      BY <1>5, <1>6, <3>1
    <3>3. rest[i - (Len(arena) + n)] = way[n + (i - (Len(arena) + n))]
      BY <1>3, <3>1
    <3> QED
      BY <3>1, <3>2, <3>3
  <2> QED
    BY <1>1, <2>1, <2>2, <2>3
<1>8. left = right
  BY <1>1, <1>5, <1>6, <1>7, SeqEqual
<1> QED
  BY <1>3, <1>4, <1>8 DEF first, rest, left, right

LEMMA LossCutsAll ==
  ASSUME NEW arena \in Seq(Octets), NEW way \in Seq(Octets), NEW n \in 0..Len(way)
  PROVE  /\ SubSeq(way, 1, n) \in Seq(Octets) /\ Len(arena) + n \in 0..Len(arena \o way)
         /\ arena \o SubSeq(way, 1, n) = SubSeq(arena \o way, 1, Len(arena) + n)
<1> DEFINE first == SubSeq(way, 1, n)
           all == arena \o way
           left == arena \o first
           right == SubSeq(all, 1, Len(arena) + n)
<1>1. n \in Nat /\ Len(way) \in Nat /\ Len(arena) \in Nat /\ n <= Len(way)
  BY LenProperties
<1>2. first \in Seq(Octets) /\ Len(first) = n /\ \A i \in 1..n : first[i] = way[i]
  BY <1>1, SubSeqProperties
<1>3. /\ all \in Seq(Octets) /\ Len(all) = Len(arena) + Len(way)
      /\ \A i \in 1..Len(arena) + Len(way) :
           all[i] = IF i <= Len(arena) THEN arena[i] ELSE way[i - Len(arena)]
  BY <1>1, ConcatProperties
<1> HIDE DEF first, all
<1>4. Len(arena) + n \in Nat /\ Len(arena) + n <= Len(all) /\ Len(arena) + n \in 0..Len(all)
  BY <1>1, <1>3
<1>5. /\ left \in Seq(Octets) /\ Len(left) = Len(arena) + n
      /\ \A i \in 1..Len(arena) + n :
           left[i] = IF i <= Len(arena) THEN arena[i] ELSE first[i - Len(arena)]
  BY <1>1, <1>2, ConcatProperties
<1>6. /\ right \in Seq(Octets) /\ Len(right) = Len(arena) + n
      /\ \A i \in 1..Len(arena) + n : right[i] = all[i]
  BY <1>3, <1>4, SubSeqProperties
<1> HIDE DEF left, right
<1>7. ASSUME NEW i \in 1..Len(arena) + n PROVE left[i] = right[i]
  <2>1. i \in 1..Len(arena) + Len(way)
    BY <1>1
  <2>2. CASE i <= Len(arena)
    BY <1>3, <1>5, <1>6, <2>1, <2>2
  <2>3. CASE ~(i <= Len(arena))
    <3>1. i - Len(arena) \in 1..n
      BY <1>1, <2>3
    <3> QED
      BY <1>2, <1>3, <1>5, <1>6, <2>1, <2>3, <3>1
  <2> QED
    BY <2>2, <2>3
<1>8. left = right
  BY <1>4, <1>5, <1>6, <1>7, SeqEqual
<1> QED
  BY <1>2, <1>4, <1>8 DEF first, all, left, right

LEMMA JoinsAgree ==
  ASSUME NEW one \in Seq(Octets), NEW two \in Seq(Octets), NEW three \in Seq(Octets)
  PROVE  one \o (two \o three) = (one \o two) \o three
  BY ConcatAssociative

LEMMA SocketsInit1 == ASSUME SocketsInit PROVE SocketsInv
<1>1. /\ received = <<>> /\ wire = <<>> /\ written = <<>> /\ linked = TRUE /\ sending = Unsent
  BY DEF SocketsInit
<1> DEFINE all == received \o wire
<1>2. /\ received \in Seq(Octets) /\ wire \in Seq(Octets) /\ written \in Seq(Writes)
      /\ Len(written) = 0 /\ Len(received) = 0 /\ Len(wire) = 0
  BY <1>1, EmptySeq
<1>3. all \in Seq(Octets) /\ Len(all) = 0
  BY <1>2, ConcatProperties
<1> HIDE DEF all
<1>4. sending \in Sendings /\ sending.offset = 0 /\ sending.length = 0
  BY <1>1 DEF Sendings, Unsent
<1>5. PlacesOf(all, 1) = {}
  <2>1. \A place : place \notin PlacesOf(all, 1)
    <3> SUFFICES ASSUME NEW place PROVE place \notin PlacesOf(all, 1)
      OBVIOUS
    <3>1. place \in PlacesOf(all, 1) => \E i \in 1..Len(all) : TRUE
      BY <1>3, PlacesOfSeq
    <3> QED
      BY <1>3, <3>1
  <2> QED
    BY <2>1
<1>6. CallNow(all, 1, 0, TRUE)
  BY <1>5 DEF CallNow
<1>7. Arrived(all, written, 0, TRUE)
  <2>1. Len(written) + 1 = 1 /\ 1..Len(all) = {} /\ 1..Len(written) = {}
    BY <1>2, <1>3
  <2> QED
    BY <1>3, <1>6, <2>1 DEF Arrived
<1>8. Arrived(received \o wire, written, sending.offset, linked)
  BY <1>1, <1>4, <1>7 DEF all
<1>9. linked \in BOOLEAN /\ sending.offset <= sending.length
  BY <1>1, <1>4
<1> QED
  BY <1>1, <1>2, <1>4, <1>8, <1>9 DEF SocketsInv

LEMMA SocketFacts ==
  ASSUME SocketsInv
  PROVE  /\ received \in Seq(Octets) /\ wire \in Seq(Octets) /\ linked \in BOOLEAN
         /\ written \in Seq(Writes) /\ sending \in Sendings
         /\ sending.offset \in Nat /\ sending.length \in Nat /\ sending.offset <= sending.length
         /\ (sending.at = "idle" => sending = Unsent /\ sending.offset = 0)
         /\ Arrived(received \o wire, written, sending.offset, linked)
  BY DEF SocketsInv, Sendings, Unsent

LEMMA WriteOctetsKeeps ==
  ASSUME SocketsInv, NEW length \in 0..MaxIo + 1, NEW max, WriteOctets(length, max)
  PROVE  SocketsInv'
<1>1. length \in Nat /\ UNCHANGED <<wire, linked, received>> /\ sending.at = "idle"
      /\ sending.offset = 0
  BY SocketFacts, SocketsAssumption DEF WriteOctets
<1> DEFINE write == [length |-> length, result |-> "refused", out |-> 0]
<1>2. CASE written' = Append(written, write) /\ UNCHANGED sending
  <2>1. write \in Writes
    BY <1>1 DEF Writes, SocketResults
  <2>2. write.result = "refused" /\ write.out = 0
    OBVIOUS
  <2> HIDE DEF write
  <2>3. written' \in Seq(Writes)
    BY <1>2, <2>1, SocketFacts, AppendProperties
  <2>4. Arrived(received \o wire, written', 0, linked)
    BY <1>1, <1>2, <2>1, <2>2, SocketFacts, EndedArrives
  <2> QED
    BY <1>1, <1>2, <2>3, <2>4, SocketFacts DEF SocketsInv
<1>3. CASE /\ sending' = [at |-> "send", length |-> length, offset |-> 0]
           /\ UNCHANGED written
  <2>1. /\ sending' \in Sendings /\ sending'.offset = 0 /\ sending'.length = length
        /\ sending'.at # "idle"
    BY <1>1, <1>3 DEF Sendings
  <2>2. sending'.offset <= sending'.length
    BY <1>1, <2>1
  <2> QED
    BY <1>1, <1>3, <2>1, <2>2, SocketFacts DEF SocketsInv
<1> QED
  BY <1>2, <1>3 DEF WriteOctets

LEMMA SendSomeKeeps == ASSUME SocketsInv, SendSome PROVE SocketsInv'
<1> DEFINE offset == sending.offset
<1>1. PICK n \in offset + 1 .. sending.length :
        /\ wire' = wire \o [i \in 1..n - offset |-> Octet(offset + i)]
        /\ sending' = [sending EXCEPT !.offset = n]
  BY DEF SendSome
<1>2. sending.at = "send" /\ linked /\ UNCHANGED <<linked, written, received>>
  BY DEF SendSome
<1>3. /\ offset \in Nat /\ sending.length \in Nat /\ wire \in Seq(Octets) /\ received \in Seq(Octets)
      /\ written \in Seq(Writes) /\ sending \in Sendings
      /\ Arrived(received \o wire, written, offset, TRUE)
  BY <1>2, SocketFacts
<1>4. linked' = TRUE /\ linked = TRUE
  BY <1>2, SocketFacts
<1> DEFINE d == n - offset
           c == Len(written) + 1
           more == MoreOctets(c, offset, d)
<1>5. /\ n \in Nat /\ d \in Nat /\ offset + d = n /\ n <= sending.length /\ c \in Nat
  BY <1>1, <1>3, LenProperties
<1>6. wire' = wire \o more
  BY <1>1 DEF MoreOctets, Octet
<1> HIDE DEF d, c
<1>7. more \in Seq(Octets)
  <2>1. \A i \in 1..d : [call |-> c, place |-> offset + i] \in Octets
    <3>1. ASSUME NEW i \in 1..d PROVE offset + i \in Nat
      BY <1>3, <1>5
    <3> QED
      BY <1>5, <3>1 DEF Octets
  <2>2. more \in [1..d -> Octets]
    BY <2>1 DEF MoreOctets
  <2> QED
    BY <1>5, <2>2, SeqDef
<1> HIDE DEF more
<1>8. wire' \in Seq(Octets) /\ received' \o wire' = (received \o wire) \o more
  <2>1. received \o (wire \o more) = (received \o wire) \o more /\ wire \o more \in Seq(Octets)
    BY <1>3, <1>7, ConcatProperties, JoinsAgree
  <2> QED
    BY <1>2, <1>6, <2>1
<1>9. Arrived((received \o wire) \o more, written, offset + d, TRUE)
  BY <1>3, <1>5, MoreOctetsArrive DEF more, c
<1>10. /\ sending' \in Sendings /\ sending'.offset = n /\ sending'.length = sending.length
       /\ sending'.at = "send"
  BY <1>1, <1>2, <1>3, <1>5 DEF Sendings
<1>11. Arrived(received' \o wire', written', sending'.offset, linked')
  BY <1>2, <1>4, <1>5, <1>8, <1>9, <1>10
<1>12. sending'.offset <= sending'.length /\ received' \in Seq(Octets) /\ written' \in Seq(Writes)
  BY <1>2, <1>3, <1>5, <1>10
<1> QED
  BY <1>4, <1>8, <1>10, <1>11, <1>12 DEF SocketsInv

LEMMA SendEndsKeeps == ASSUME SocketsInv, SendEnds PROVE SocketsInv'
<1>1. \E result \in SocketResults \ {"refused"}, out \in Nat :
        /\ EndWrite(result, out)
        /\ result = "ok" => out = sending.length /\ sending.offset = sending.length
        /\ result # "ok" => out = 0
  BY SocketFacts DEF SendEnds, SocketResults
<1>2. PICK result \in SocketResults \ {"refused"}, out \in Nat :
        /\ EndWrite(result, out)
        /\ result = "ok" => out = sending.length /\ sending.offset = sending.length
        /\ result # "ok" => out = 0
  BY <1>1
<1> DEFINE write == [length |-> sending.length, result |-> result, out |-> out]
<1>3. /\ written' = Append(written, write) /\ sending' = Unsent
      /\ UNCHANGED <<wire, linked, received>>
  BY <1>2 DEF SendEnds, EndWrite
<1>4. write \in Writes
  BY <1>2, SocketFacts DEF Writes
<1>5. /\ write.result = "ok" => write.out = write.length /\ write.length = sending.offset
      /\ write.result # "ok" => write.out = 0
      /\ write.result # "refused"
  BY <1>2
<1> HIDE DEF write
<1>6. Arrived(received \o wire, written', 0, linked)
  BY <1>3, <1>4, <1>5, SocketFacts, EndedArrives
<1>7. written' \in Seq(Writes)
  BY <1>3, <1>4, SocketFacts, AppendProperties
<1>8. sending' \in Sendings /\ sending'.offset = 0 /\ sending'.length = 0
  BY <1>3 DEF Sendings, Unsent
<1> QED
  BY <1>3, <1>6, <1>7, <1>8, SocketFacts DEF SocketsInv

LEMMA ReadOctetsKeeps ==
  ASSUME SocketsInv, NEW max \in 0..MaxIo, ReadOctets(max) PROVE SocketsInv'
<1>1. UNCHANGED <<linked, sending, written>>
  BY DEF ReadOctets
<1>2. CASE UNCHANGED <<wire, received>>
  BY <1>1, <1>2, SocketFacts DEF SocketsInv
<1>3. CASE \E n \in 1..max : /\ n <= Len(wire)
                            /\ received' = received \o SubSeq(wire, 1, n)
                            /\ wire' = SubSeq(wire, n + 1, Len(wire))
  <2>1. PICK n \in 1..max : /\ n <= Len(wire)
                            /\ received' = received \o SubSeq(wire, 1, n)
                            /\ wire' = SubSeq(wire, n + 1, Len(wire))
    BY <1>3
  <2>2. n \in 0..Len(wire)
    BY <2>1, SocketFacts, LenProperties
  <2>3. /\ received' \in Seq(Octets) /\ wire' \in Seq(Octets)
        /\ received' \o wire' = received \o wire
    BY <2>1, <2>2, SocketFacts, ReadKeepsAll
  <2> QED
    BY <1>1, <2>3, SocketFacts DEF SocketsInv
<1> QED
  BY <1>2, <1>3 DEF ReadOctets

LEMMA LoseKeeps == ASSUME SocketsInv, Lose PROVE SocketsInv'
<1>1. /\ linked' = FALSE /\ UNCHANGED <<sending, written, received>>
      /\ \E n \in 0..Len(wire) : wire' = SubSeq(wire, 1, n)
  BY DEF Lose
<1>2. PICK n \in 0..Len(wire) : wire' = SubSeq(wire, 1, n)
  BY <1>1
<1>3. /\ wire' \in Seq(Octets) /\ Len(received) + n \in 0..Len(received \o wire)
      /\ received \o wire' = SubSeq(received \o wire, 1, Len(received) + n)
  BY <1>2, SocketFacts, LossCutsAll
<1>4. Arrived(SubSeq(received \o wire, 1, Len(received) + n), written, sending.offset, FALSE)
  BY <1>3, SocketFacts, PrefixArrives
<1> QED
  BY <1>1, <1>3, <1>4, SocketFacts DEF SocketsInv

LEMMA SocketsStep == ASSUME SocketsInv, [SocketsNext]_socketsVars PROVE SocketsInv'
<1>1. ASSUME UNCHANGED socketsVars PROVE SocketsInv'
  BY <1>1 DEF SocketsInv, socketsVars
<1>2. ASSUME WaitWritable \/ Writable PROVE SocketsInv'
  <2>1. /\ UNCHANGED <<wire, linked, written, received>> /\ sending.at # "idle"
        /\ sending' = [sending EXCEPT !.at = "wait"] \/ sending' = [sending EXCEPT !.at = "send"]
    BY <1>2 DEF WaitWritable, Writable
  <2>2. /\ sending' \in Sendings /\ sending'.at # "idle"
        /\ sending'.offset = sending.offset /\ sending'.length = sending.length
    BY <2>1, SocketFacts DEF Sendings
  <2> QED
    BY <2>1, <2>2, SocketFacts DEF SocketsInv
<1> QED
  BY <1>1, <1>2, WriteOctetsKeeps, SendSomeKeeps, SendEndsKeeps, LoseKeeps, ReadOctetsKeeps
     DEF SocketsNext

LEMMA SocketsFollow == ASSUME SocketsInv PROVE OctetsArrive
<1> DEFINE all == received \o wire
<1>1. /\ all \in Seq(Octets) /\ written \in Seq(Writes)
      /\ \A i \in 1..Len(all) : InTurn(all, i)
      /\ \A c \in 1..Len(written) : WriteOk(written[c], all, c, linked)
  BY SocketFacts DEF Arrived
<1>2. DOMAIN all = 1..Len(all) /\ DOMAIN written = 1..Len(written)
  BY <1>1, LenProperties
<1> HIDE DEF all
<1>3. ASSUME NEW i \in DOMAIN all
      PROVE  \/ all[i].place = 1 /\ \A j \in 1..i - 1 : all[j].call < all[i].call
             \/ i > 1 /\ all[i] = [all[i - 1] EXCEPT !.place = @ + 1]
  BY <1>1, <1>2 DEF InTurn
<1>4. ASSUME NEW c \in DOMAIN written
      PROVE  IF written[c].result = "ok"
               THEN written[c].out = written[c].length
                    /\ (linked => PlacesOf(all, c) = 1..written[c].length)
               ELSE written[c].out = 0 /\ (written[c].result = "refused" => PlacesOf(all, c) = {})
  BY <1>1, <1>2 DEF WriteOk
<1> QED
  BY <1>3, <1>4 DEF OctetsArrive, all

-----------------------------------------------------------------------------
(* The whole module: each component's invariant, whatever the behaviour works   *)
(* with.                                                                        *)
HostInv == FileLeaseInv /\ FilesInv /\ StreamsInv /\ SocketsInv

LEMMA HostStep == ASSUME HostInv, [Next]_hostVars PROVE HostInv'
<1>1. /\ [FileLeaseNext]_leaseVars /\ [FilesNext]_filesVars
      /\ [StreamsNext]_streamsVars /\ [SocketsNext]_socketsVars
  BY DEF Next, hostVars, FileSystem, LeaseOnFile, MessageStreams, SocketOctets,
         CaptureOfChild, WaitOnFiles, NotCapture, NotWatch
<1> QED
  BY <1>1, FileLeaseStep, FilesStep, StreamsStep, SocketsStep DEF HostInv

(* FairSpec, all the host operations: a line read is a message written, whole,  *)
(* and in its turn; who wrote knows what became of it; octets that come through *)
(* a socket are, of every write in turn, its first ones (the native_host_fifo    *)
(* and native_host_socket calls of native_shim.c).                              *)
THEOREM MessagesStayWhole == FairSpec => []MessagesAreWhole
<1>1. Init => HostInv
  BY FileLeaseInit1, FilesInit1, StreamsInit1, SocketsInit1 DEF Init, HostInv
<1>2. HostInv /\ [Next]_hostVars => HostInv'
  BY HostStep
<1>3. HostInv => MessagesAreWhole
  BY StreamsFollow, SocketsFollow DEF HostInv, MessagesAreWhole
<1> QED
  BY <1>1, <1>2, <1>3, PTL DEF FairSpec
=============================================================================

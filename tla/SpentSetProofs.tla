--------------------------- MODULE SpentSetProofs ---------------------------
(***************************************************************************)
(* Proofs about what is spent once.  SpentStore, for any number of         *)
(* processes, keys, files and restarts: a key is won once, unless two      *)
(* constructors ran together before there was a database.  BlindCredit,    *)
(* for any RSA key and any number of credits and redemptions: a credit     *)
(* verifies for its denomination only, the issuer cannot link it, and      *)
(* one text of its serial is redeemed once by calls in turn.               *)
(***************************************************************************)
EXTENDS SpentStore, BlindCredit, FiniteSetTheorems, WellFoundedInduction, TLAPS

-----------------------------------------------------------------------------
(* The inductive invariant.                                                *)

\* A write lock is held by the process that is setting the file up, alone.
LockOfSetup ==
    /\ \A p \in Procs : pc[p] = "setup" => lock[conn[p]] = {p}
    /\ \A f \in Files, p \in Procs : p \in lock[f] => pc[p] = "setup" /\ conn[p] = f

\* A process is ready on a database, and the path names a file that exists.
ReadyOnDb ==
    /\ \A p \in Procs : pc[p] = "ready" => holds[conn[p]] = "db"
    /\ path # NoFile => holds[path] # "nothing"

\* While constructors overlap on a database only, at most one runs as long as
\* there is none, everyone is on the file the path names, an error came from
\* foreign bytes that are still there, and every row is in the database the
\* path names.
SerialStore ==
    ~overlap =>
        /\ NoDatabase => \A p, q \in Procs : ~Settled(p) /\ ~Settled(q) => p = q
        /\ \A p \in Procs : pc[p] \in {"opened", "setup", "ready"} => conn[p] = path
        /\ \A p \in Procs : pc[p] = "setup" => NoDatabase
        /\ \A p \in Procs : pc[p] \in {"error", "unlink"} => path # NoFile /\ holds[path] = "foreign"
        /\ \A f \in Files : rows[f] # {} => f = path /\ holds[f] = "db"

StoreInv == TypeOK /\ OncePerFile /\ LockOfSetup /\ ReadyOnDb /\ SerialStore

\* Nobody has opened the path at the start.
LEMMA InitStore == Init => StoreInv
<1> SUFFICES ASSUME Init PROVE StoreInv
  OBVIOUS
<1>0. PICK first \in {"nothing", "foreign", "db"} :
          /\ holds = [f \in Files |-> IF f = FirstFile THEN first ELSE "nothing"]
          /\ path = IF first = "nothing" THEN NoFile ELSE FirstFile
  BY StoreAssumption DEF Init
<1>1. TypeOK
  <2>1. path \in Files \cup {NoFile} /\ holds \in [Files -> {"nothing", "empty", "foreign", "db"}]
    BY <1>0, StoreAssumption
  <2>2. /\ rows \in [Files -> SUBSET Keys] /\ lock \in [Files -> SUBSET Procs]
        /\ wins \in [Keys -> Nat] /\ overlap \in BOOLEAN
    BY DEF Init
  <2>3. restarts \in 0..MaxRestarts
    BY StoreAssumption DEF Init
  <2>4. /\ conn \in [Procs -> Files \cup {NoFile}]
        /\ pc \in [Procs -> {"closed", "opened", "setup", "error", "unlink", "ready", "failed"}]
        /\ \A p \in Procs : conn[p] = NoFile <=> pc[p] \in {"closed", "error", "unlink", "failed"}
    BY DEF Init
  <2> QED
    BY <2>1, <2>2, <2>3, <2>4 DEF TypeOK
<1>2. OncePerFile
  <2>1. \A k \in Keys : {f \in Files : k \in rows[f]} = {}
    BY DEF Init
  <2> QED
    BY <2>1, FS_EmptySet DEF Init, OncePerFile
<1>3. LockOfSetup /\ ReadyOnDb /\ SerialStore
  BY StoreAssumption DEF Init, LockOfSetup, ReadyOnDb, SerialStore, NoDatabase, Settled
<1> QED
  BY <1>1, <1>2, <1>3 DEF StoreInv

\* As long as no row is added nothing is won.
LEMMA SameRows ==
    ASSUME OncePerFile, UNCHANGED <<rows, wins>>
    PROVE  OncePerFile'
BY DEF OncePerFile

\* sqlite3.connect.
LEMMA ConnectStep ==
    ASSUME StoreInv, NEW p \in Procs, Connect(p)
    PROVE  StoreInv'
<1>1. OncePerFile'
  BY SameRows DEF StoreInv, Connect
<1>2. /\ path' \in Files /\ conn' = [conn EXCEPT ![p] = path'] /\ pc' = [pc EXCEPT ![p] = "opened"]
      /\ pc[p] = "closed"
      /\ \/ path # NoFile /\ UNCHANGED <<path, holds>>
         \/ /\ path = NoFile /\ holds[path'] = "nothing"
            /\ holds' = [holds EXCEPT ![path'] = "empty"]
      /\ UNCHANGED <<rows, lock, wins, restarts>>
  BY DEF Connect, StoreInv, TypeOK, Unused
<1>3. overlap' = (overlap \/ (NoDatabase /\ \E q \in Procs \ {p} : ~Settled(q)))
  BY DEF Connect
<1>4. TypeOK'
  BY <1>2, <1>3, StoreAssumption DEF StoreInv, TypeOK
<1>5. LockOfSetup' /\ ReadyOnDb'
  BY <1>2, StoreAssumption DEF StoreInv, TypeOK, LockOfSetup, ReadyOnDb
<1>6. SerialStore'
  <2> SUFFICES ASSUME ~overlap' PROVE SerialStore'
    BY DEF SerialStore
  <2>1. ~overlap /\ (NoDatabase => \A q \in Procs \ {p} : Settled(q))
    BY <1>3
  <2>2. NoDatabase' => NoDatabase
    BY <1>2 DEF NoDatabase, StoreInv, TypeOK
  <2>6. NoDatabase' => \A q, l \in Procs : ~Settled(q)' /\ ~Settled(l)' => q = l
    BY <1>2, <2>1, <2>2 DEF Settled, StoreInv, TypeOK
  <2>7. \A q \in Procs : pc'[q] = "setup" => NoDatabase'
    BY <1>2, <2>1 DEF SerialStore, NoDatabase, Settled, StoreInv, TypeOK
  <2>3. \A q \in Procs : pc'[q] \in {"opened", "setup", "ready"} => conn'[q] = path'
    BY <1>2, <2>1 DEF SerialStore, NoDatabase, Settled, StoreInv, TypeOK
  <2>4. \A q \in Procs : pc'[q] \notin {"error", "unlink"}
    BY <1>2, <2>1 DEF SerialStore, NoDatabase, Settled, StoreInv, TypeOK
  <2>5. \A f \in Files : rows'[f] # {} => f = path' /\ holds'[f] = "db"
    BY <1>2, <2>1, StoreAssumption DEF SerialStore, StoreInv, TypeOK
  <2> QED
    BY <2>6, <2>7, <2>3, <2>4, <2>5 DEF SerialStore
<1> QED
  BY <1>1, <1>4, <1>5, <1>6 DEF StoreInv

\* The table is created, or is there.
LEMMA SetupStep ==
    ASSUME StoreInv, NEW p \in Procs, BeginSetup(p) \/ EndSetup(p) \/ OpenExisting(p)
    PROVE  StoreInv'
<1>1. OncePerFile' /\ UNCHANGED <<path, rows, conn, wins, restarts, overlap>>
  BY SameRows DEF StoreInv, BeginSetup, EndSetup, OpenExisting
<1>2. conn[p] \in Files
  BY DEF StoreInv, TypeOK, BeginSetup, EndSetup, OpenExisting
<1>3. CASE BeginSetup(p)
  <2>1. /\ pc[p] = "opened" /\ pc' = [pc EXCEPT ![p] = "setup"] /\ lock[conn[p]] = {}
        /\ lock' = [lock EXCEPT ![conn[p]] = {p}] /\ UNCHANGED holds
    BY <1>3 DEF BeginSetup
  <2>2. TypeOK'
    BY <1>1, <1>2, <2>1 DEF StoreInv, TypeOK
  <2>3. LockOfSetup'
    <3>1. /\ \A q \in Procs : pc'[q] = IF q = p THEN "setup" ELSE pc[q]
          /\ \A f \in Files : lock'[f] = IF f = conn[p] THEN {p} ELSE lock[f]
      BY <1>2, <2>1 DEF StoreInv, TypeOK
    <3>2. /\ \A q \in Procs : pc[q] = "setup" => lock[conn[q]] = {q} /\ conn[q] \in Files
          /\ \A f \in Files, q \in Procs : q \in lock[f] => pc[q] = "setup" /\ conn[q] = f
      BY DEF StoreInv, TypeOK, LockOfSetup
    <3>3. \A q \in Procs : pc'[q] = "setup" => lock'[conn[q]] = {q}
      BY <1>2, <2>1, <3>1, <3>2
    <3>4. \A f \in Files, q \in Procs : q \in lock'[f] => pc'[q] = "setup" /\ conn[q] = f
      BY <1>2, <3>1, <3>2
    <3> QED
      BY <1>1, <3>3, <3>4 DEF LockOfSetup
  <2>4. ReadyOnDb'
    BY <1>1, <2>1 DEF StoreInv, TypeOK, ReadyOnDb
  <2>5. SerialStore'
    <3> SUFFICES ASSUME ~overlap PROVE SerialStore'
      BY <1>1 DEF SerialStore
    <3>1. conn[p] = path /\ holds[path] = "empty" /\ NoDatabase
      BY <1>3, <2>1 DEF StoreInv, SerialStore, NoDatabase, BeginSetup
    <3>2. \A q \in Procs : /\ ~Settled(q)' <=> ~Settled(q)
                          /\ pc'[q] = IF q = p THEN "setup" ELSE pc[q]
      BY <2>1 DEF StoreInv, TypeOK, Settled
    <3> QED
      BY <1>1, <2>1, <3>1, <3>2 DEF StoreInv, TypeOK, SerialStore, NoDatabase
  <2> QED
    BY <1>1, <2>2, <2>3, <2>4, <2>5 DEF StoreInv
<1>4. CASE EndSetup(p)
  <2>1. /\ pc[p] = "setup" /\ pc' = [pc EXCEPT ![p] = "ready"] /\ lock[conn[p]] = {p}
        /\ lock' = [lock EXCEPT ![conn[p]] = {}] /\ holds' = [holds EXCEPT ![conn[p]] = "db"]
    BY <1>4 DEF EndSetup, StoreInv, LockOfSetup
  <2>2. TypeOK'
    BY <1>1, <1>2, <2>1 DEF StoreInv, TypeOK
  <2>3. LockOfSetup'
    BY <1>1, <1>2, <2>1 DEF StoreInv, TypeOK, LockOfSetup
  <2>4. ReadyOnDb'
    BY <1>1, <1>2, <2>1 DEF StoreInv, TypeOK, ReadyOnDb
  <2>5. SerialStore'
    BY <1>1, <1>2, <2>1 DEF StoreInv, TypeOK, SerialStore, NoDatabase, Settled
  <2> QED
    BY <1>1, <2>2, <2>3, <2>4, <2>5 DEF StoreInv
<1>5. CASE OpenExisting(p)
  <2>1. /\ pc[p] = "opened" /\ pc' = [pc EXCEPT ![p] = "ready"] /\ holds[conn[p]] = "db"
        /\ UNCHANGED <<holds, lock>>
    BY <1>5 DEF OpenExisting
  <2>2. TypeOK'
    BY <1>1, <2>1 DEF StoreInv, TypeOK
  <2>3. LockOfSetup' /\ ReadyOnDb' /\ SerialStore'
    BY <1>1, <2>1 DEF StoreInv, TypeOK, LockOfSetup, ReadyOnDb, SerialStore, NoDatabase, Settled
  <2> QED
    BY <1>1, <2>2, <2>3 DEF StoreInv
<1> QED
  BY <1>3, <1>4, <1>5

\* The constructor meets an error, and unlinks the file or gives up.  When no
\* constructor overlapped, the lock was free, so that the error came from
\* foreign bytes, and no ready process loses its file.
LEMMA ErrorStep ==
    ASSUME StoreInv, NEW p \in Procs, OpenRaises(p) \/ PathExists(p) \/ Unlink(p)
    PROVE  StoreInv'
<1>1. OncePerFile' /\ UNCHANGED <<holds, rows, lock, wins, restarts, overlap>>
  BY SameRows DEF StoreInv, OpenRaises, PathExists, Unlink
<1>3. CASE OpenRaises(p)
  <2>1. /\ pc[p] = "opened" /\ pc' = [pc EXCEPT ![p] = "error"] /\ conn' = [conn EXCEPT ![p] = NoFile]
        /\ UNCHANGED path /\ conn[p] \in Files
        /\ holds[conn[p]] = "foreign" \/ lock[conn[p]] # {}
    BY <1>3 DEF OpenRaises, StoreInv, TypeOK
  <2>2. TypeOK'
    BY <1>1, <2>1 DEF StoreInv, TypeOK
  <2>3. LockOfSetup' /\ ReadyOnDb'
    BY <1>1, <2>1 DEF StoreInv, TypeOK, LockOfSetup, ReadyOnDb
  <2>4. SerialStore'
    <3> SUFFICES ASSUME ~overlap PROVE SerialStore'
      BY <1>1 DEF SerialStore
    <3>1. conn[p] = path
      BY <2>1 DEF StoreInv, SerialStore
    <3>2. lock[conn[p]] = {}
      <4> SUFFICES ASSUME NEW q \in Procs, q \in lock[conn[p]] PROVE FALSE
        BY <2>1 DEF StoreInv, TypeOK
      <4>1. pc[q] = "setup"
        BY <2>1 DEF StoreInv, LockOfSetup
      <4> QED
        BY <2>1, <4>1 DEF StoreInv, SerialStore, NoDatabase, Settled
    <3> QED
      BY <1>1, <2>1, <3>1, <3>2, StoreAssumption DEF StoreInv, TypeOK, SerialStore, NoDatabase, Settled
  <2> QED
    BY <1>1, <2>2, <2>3, <2>4 DEF StoreInv
<1>4. CASE PathExists(p)
  <2>1. /\ pc[p] = "error" /\ UNCHANGED <<conn, path>>
        /\ pc' = [pc EXCEPT ![p] = IF path # NoFile THEN "unlink" ELSE "failed"]
    BY <1>4 DEF PathExists
  <2>2. TypeOK'
    BY <1>1, <2>1 DEF StoreInv, TypeOK
  <2>3. LockOfSetup' /\ ReadyOnDb' /\ SerialStore'
    BY <1>1, <2>1 DEF StoreInv, TypeOK, LockOfSetup, ReadyOnDb, SerialStore, NoDatabase, Settled
  <2> QED
    BY <1>1, <2>2, <2>3 DEF StoreInv
<1>5. CASE Unlink(p)
  <2>1. /\ pc[p] = "unlink" /\ UNCHANGED conn /\ path' = NoFile
        /\ pc' = [pc EXCEPT ![p] = IF path # NoFile THEN "closed" ELSE "failed"]
    BY <1>5 DEF Unlink
  <2>2. TypeOK'
    BY <1>1, <2>1 DEF StoreInv, TypeOK
  <2>3. LockOfSetup' /\ ReadyOnDb'
    BY <1>1, <2>1 DEF StoreInv, TypeOK, LockOfSetup, ReadyOnDb
  <2>4. SerialStore'
    <3> SUFFICES ASSUME ~overlap PROVE SerialStore'
      BY <1>1 DEF SerialStore
    <3>1. path # NoFile /\ holds[path] = "foreign"
      BY <2>1 DEF StoreInv, SerialStore
    <3>2. \A q \in Procs : pc[q] # "ready" /\ (~Settled(q) => q = p)
      BY <2>1, <3>1 DEF StoreInv, ReadyOnDb, SerialStore, NoDatabase, Settled
    <3>3. \A f \in Files : rows[f] = {}
      BY <3>1 DEF StoreInv, SerialStore
    <3> QED
      BY <1>1, <2>1, <3>2, <3>3 DEF StoreInv, TypeOK, SerialStore, NoDatabase, Settled
  <2> QED
    BY <1>1, <2>2, <2>3, <2>4 DEF StoreInv
<1> QED
  BY <1>3, <1>4, <1>5

\* spend() adds one row to one file, and one win.
LEMMA SpendStep ==
    ASSUME StoreInv, NEW p \in Procs, NEW k \in Keys, Spend(p, k)
    PROVE  StoreInv'
<1> DEFINE f == conn[p]
<1>1. /\ f \in Files /\ pc[p] = "ready" /\ k \notin rows[f]
      /\ rows' = [rows EXCEPT ![f] = @ \cup {k}] /\ wins' = [wins EXCEPT ![k] = @ + 1]
      /\ UNCHANGED <<path, holds, lock, conn, pc, restarts, overlap>>
  BY DEF Spend, Fresh, StoreInv, TypeOK
<1>2. TypeOK'
  BY <1>1 DEF StoreInv, TypeOK
<1>3. LockOfSetup' /\ ReadyOnDb'
  BY <1>1 DEF StoreInv, LockOfSetup, ReadyOnDb
<1>4. SerialStore'
  BY <1>1 DEF StoreInv, TypeOK, ReadyOnDb, SerialStore, NoDatabase, Settled
<1>5. OncePerFile'
  <2> DEFINE Holding(l) == {g \in Files : l \in rows[g]}
  <2> SUFFICES ASSUME NEW l \in Keys
               PROVE  wins'[l] = Cardinality({g \in Files : l \in rows'[g]})
    BY DEF OncePerFile
  <2>1. wins[l] = Cardinality(Holding(l)) /\ wins[l] \in Nat
    BY DEF StoreInv, TypeOK, OncePerFile
  <2>2. CASE l = k
    <3>1. {g \in Files : l \in rows'[g]} = Holding(l) \cup {f}
      BY <1>1, <2>2 DEF StoreInv, TypeOK
    <3>2. IsFiniteSet(Holding(l)) /\ f \notin Holding(l)
      BY <1>1, <2>2, StoreAssumption, FS_Subset
    <3>3. Cardinality(Holding(l) \cup {f}) = Cardinality(Holding(l)) + 1
      BY <3>2, FS_AddElement
    <3> QED
      BY <1>1, <2>1, <2>2, <3>1, <3>3 DEF StoreInv, TypeOK
  <2>3. CASE l # k
    <3>1. {g \in Files : l \in rows'[g]} = Holding(l)
      BY <1>1, <2>3 DEF StoreInv, TypeOK
    <3> QED
      BY <1>1, <2>1, <2>3, <3>1 DEF StoreInv, TypeOK
  <2> QED
    BY <2>2, <2>3
<1> QED
  BY <1>2, <1>3, <1>4, <1>5 DEF StoreInv

\* A process ends and is started again.
LEMMA RestartStep ==
    ASSUME StoreInv, NEW p \in Procs, Restart(p)
    PROVE  StoreInv'
<1>1. /\ pc[p] = "ready" /\ pc' = [pc EXCEPT ![p] = "closed"] /\ conn' = [conn EXCEPT ![p] = NoFile]
      /\ UNCHANGED <<path, holds, rows, lock, wins, overlap>>
  BY DEF Restart
<1>2. OncePerFile'
  BY <1>1, SameRows DEF StoreInv
<1>3. TypeOK'
  BY <1>1, StoreAssumption DEF StoreInv, TypeOK, Restart
<1>4. LockOfSetup' /\ ReadyOnDb' /\ SerialStore'
  BY <1>1 DEF StoreInv, TypeOK, LockOfSetup, ReadyOnDb, SerialStore, NoDatabase, Settled
<1> QED
  BY <1>2, <1>3, <1>4 DEF StoreInv

\* Every step keeps the invariant.
LEMMA NextStore == StoreInv /\ [Next]_vars => StoreInv'
<1> SUFFICES ASSUME StoreInv, [Next]_vars PROVE StoreInv'
  OBVIOUS
<1>1. CASE UNCHANGED vars
  BY <1>1 DEF vars, StoreInv, TypeOK, OncePerFile, LockOfSetup, ReadyOnDb, SerialStore, NoDatabase, Settled
<1>2. CASE Next
  BY <1>2, ConnectStep, SetupStep, ErrorStep, SpendStep, RestartStep DEF Next, Open
<1> QED
  BY <1>1, <1>2

-----------------------------------------------------------------------------
\* The inductive invariant holds of Spec.
THEOREM StoreInvHolds == Spec => []StoreInv
BY InitStore, NextStore, PTL DEF Spec

\* As long as no two constructors have overlapped without a database, a key is
\* won once altogether and every ready process is on the file the path names.
THEOREM SerialStartsAreExactHolds == Spec => []SerialStartsAreExact
<1>1. StoreInv => SerialStartsAreExact
  <2> SUFFICES ASSUME StoreInv, ~overlap PROVE ExactlyOnce /\ OneFile
    BY DEF SerialStartsAreExact
  <2>1. OneFile
    BY DEF StoreInv, SerialStore, OneFile
  <2>2. ASSUME NEW k \in Keys PROVE wins[k] <= 1
    <3>1. {f \in Files : k \in rows[f]} \subseteq {path}
      BY DEF StoreInv, SerialStore
    <3>2. IsFiniteSet({path}) /\ Cardinality({path}) = 1
      BY FS_Singleton
    <3>3. Cardinality({f \in Files : k \in rows[f]}) <= 1
      BY <3>1, <3>2, FS_Subset
    <3> QED
      BY <3>3 DEF StoreInv, OncePerFile
  <2> QED
    BY <2>1, <2>2 DEF ExactlyOnce
<1> QED
  BY <1>1, StoreInvHolds, PTL

-----------------------------------------------------------------------------
(***************************************************************************)
(* Blind credits.  Rests by a modulus.                                     *)
(***************************************************************************)
\* A set of natural numbers has a least one.
LEMMA Least ==
    ASSUME NEW T \in SUBSET Nat, T # {}
    PROVE  \E x \in T : \A y \in T : x <= y
<1> DEFINE R == OpToRel(<, Nat)
<1>1. \A U \in SUBSET Nat : U # {} => \E x \in U : \A y \in U : ~(<<y, x>> \in R)
  BY WFMin, NatLessThanWellFounded, Zenon
<1>2. \A x, y \in Nat : y < x => <<y, x>> \in R
  BY DEF OpToRel
<1> HIDE DEF R
<1>3. PICK x \in T : \A y \in T : ~(<<y, x>> \in R)
  BY <1>1
<1>4. \A y \in T : ~(y < x)
  BY <1>2, <1>3
<1> QED
  BY <1>4

\* Induction on the natural numbers, for a set of them.
LEMMA NatSet ==
    ASSUME NEW T \in SUBSET Nat, 0 \in T, \A n \in T : n + 1 \in T
    PROVE  T = Nat
<1> SUFFICES ASSUME T # Nat PROVE FALSE
  OBVIOUS
<1>1. Nat \ T \in SUBSET Nat /\ Nat \ T # {}
  OBVIOUS
<1>2. PICK x \in Nat \ T : \A y \in Nat \ T : x <= y
  BY <1>1, Least
<1>3. x # 0 /\ x - 1 \in T
  BY <1>2
<1> QED
  BY <1>3

\* r is the rest of a by n.
Rest(a, n, r) == r \in 0..(n - 1) /\ \E q \in Nat : a = n * q + r

\* a % n is.
LEMMA ModIsRest ==
    ASSUME NEW a \in Nat, NEW n \in Nat, n > 0
    PROVE  Rest(a, n, a % n)
<1> DEFINE q == a \div n
           r == a % n
<1>1. q \in Nat /\ r \in 0..(n - 1)
  OBVIOUS
<1>2. q \in Int /\ r \in Int /\ q = a \div n /\ r = a % n
  BY <1>1
<1> HIDE DEF q, r
<1>3. n * q + r = a
  BY <1>2
<1>4. q \in Nat /\ r \in 0..(n - 1) /\ a = n * q + r
  BY <1>1, <1>3
<1>5. Rest(a, n, r)
  BY <1>4, Zenon DEF Rest
<1> QED
  BY <1>5 DEF r

\* A multiple of n that is less than n apart from 0 is 0.
LEMMA NoMultiple ==
    ASSUME NEW n \in Nat, NEW k \in Int, n > 0, n * k < n, -n < n * k
    PROVE  k = 0
OBVIOUS

\* There is one rest only.
LEMMA RestIsMod ==
    ASSUME NEW a \in Nat, NEW n \in Nat, n > 0, NEW r, Rest(a, n, r)
    PROVE  a % n = r
<1> DEFINE s == a % n
<1>0. Rest(a, n, s)
  BY ModIsRest
<1> HIDE DEF s
<1>1. PICK p \in Nat : s \in 0..(n - 1) /\ a = n * p + s
  BY <1>0 DEF Rest
<1>2. PICK q \in Nat : r \in 0..(n - 1) /\ a = n * q + r
  BY DEF Rest
<1>3. n * (p - q) = n * p - n * q
  BY <1>1
<1>4. n * (p - q) = r - s
  BY <1>1, <1>2, <1>3
<1>5. p - q \in Int /\ r - s < n /\ -n < r - s
  BY <1>1, <1>2
<1>6. p - q = 0
  BY <1>4, <1>5, NoMultiple
<1>7. n * 0 = 0
  OBVIOUS
<1>8. r = s
  BY <1>1, <1>2, <1>4, <1>6, <1>7
<1> QED
  BY <1>8 DEF s

\* A product has the rest of the product of the rests.
LEMMA ModProduct ==
    ASSUME NEW a \in Nat, NEW b \in Nat, NEW n \in Nat, n > 0
    PROVE  ((a % n) * b) % n = (a * b) % n
<1> DEFINE r == a % n
           s == (r * b) % n
<1>1. Rest(a, n, r)
  BY ModIsRest
<1> HIDE DEF r
<1>2. PICK q \in Nat : r \in 0..(n - 1) /\ a = n * q + r
  BY <1>1 DEF Rest
<1>3. r \in Nat /\ r * b \in Nat
  BY <1>2
<1>4. Rest(r * b, n, s)
  BY <1>3, ModIsRest
<1> HIDE DEF s
<1>5. PICK p \in Nat : s \in 0..(n - 1) /\ r * b = n * p + s
  BY <1>4 DEF Rest
<1>6. a * b = n * (q * b + p) + s
  <2>1. a * b = (n * q) * b + r * b
    BY <1>2, <1>3
  <2>2. (n * q) * b = n * (q * b)
    OBVIOUS
  <2>3. n * (q * b + p) = n * (q * b) + n * p
    BY <1>5
  <2>4. q * b \in Nat /\ n * (q * b) \in Nat /\ n * p \in Nat /\ s \in Nat
    BY <1>5
  <2> QED
    BY <1>5, <2>1, <2>2, <2>3, <2>4
<1>7. a * b \in Nat /\ q * b + p \in Nat
  OBVIOUS
<1>8. Rest(a * b, n, s)
  BY <1>5, <1>6, <1>7, Zenon DEF Rest
<1>9. (a * b) % n = s
  BY <1>7, <1>8, RestIsMod
<1> QED
  BY <1>9 DEF s, r

-----------------------------------------------------------------------------
(***************************************************************************)
(* Multiplication modulo N.                                                *)
(***************************************************************************)
Times(a, b) == (a * b) % N

\* The modulus is a number.
LEMMA ModulusFacts == N \in Nat /\ N > 0 /\ N >= 3 /\ E \in Nat /\ D \in Nat /\ 0 \in Zn /\ 1 \in Zn
BY BlindAssumption DEF Zn

\* Products stay below the modulus.
LEMMA TimesType ==
    ASSUME NEW a \in Nat, NEW b \in Nat
    PROVE  Times(a, b) \in Zn
<1>1. a * b \in Nat
  OBVIOUS
<1> QED
  BY <1>1, ModIsRest, ModulusFacts DEF Times, Zn, Rest

\* The order of factors makes no difference.
LEMMA TimesCommutes ==
    ASSUME NEW a \in Nat, NEW b \in Nat
    PROVE  Times(a, b) = Times(b, a)
<1>1. a * b = b * a
  OBVIOUS
<1> QED
  BY <1>1 DEF Times

\* Nor does their grouping.
LEMMA TimesAssociates ==
    ASSUME NEW a \in Nat, NEW b \in Nat, NEW c \in Nat
    PROVE  Times(Times(a, b), c) = Times(a, Times(b, c))
<1> DEFINE ab == a * b
           bc == b * c
<1>1. ab \in Nat /\ bc \in Nat
  OBVIOUS
<1>2. ab * c = bc * a
  OBVIOUS
<1> HIDE DEF ab, bc
<1>3. (bc % N) \in Nat
  <2>1. Rest(bc, N, bc % N)
    BY <1>1, ModulusFacts, ModIsRest, Zenon
  <2> QED
    BY <2>1, ModulusFacts DEF Rest
<1>4. \A x, y \in Nat : ((x % N) * y) % N = (x * y) % N
  <2> SUFFICES ASSUME NEW x \in Nat, NEW y \in Nat PROVE ((x % N) * y) % N = (x * y) % N
    OBVIOUS
  <2>1. N \in Nat /\ N > 0
    BY ModulusFacts
  <2> QED
    BY <2>1, ModProduct
<1>5. ((ab % N) * c) % N = (ab * c) % N /\ ((bc % N) * a) % N = (bc * a) % N
  BY <1>1, <1>4, Zenon
<1>6. (bc % N) * a = a * (bc % N)
  BY <1>3
<1> QED
  BY <1>2, <1>5, <1>6 DEF Times, ab, bc

\* One is neutral.
LEMMA TimesOne ==
    ASSUME NEW a \in Zn
    PROVE  Times(a, 1) = a /\ Times(1, a) = a
<1>1. a \in Nat /\ a \in 0..(N - 1)
  BY ModulusFacts DEF Zn
<1>2. a = N * 0 + a /\ 0 \in Nat
  BY <1>1, ModulusFacts
<1>3. Rest(a, N, a)
  BY <1>1, <1>2, Zenon DEF Rest
<1>4. a % N = a
  BY <1>1, <1>3, RestIsMod, ModulusFacts
<1>5. a * 1 = a /\ 1 * a = a
  BY <1>1
<1> QED
  BY <1>4, <1>5 DEF Times

\* Numbers below the modulus are numbers.
LEMMA ZnIsNat == \A a \in Zn : a \in Nat
BY ModulusFacts DEF Zn

\* Two products of two, regrouped.
LEMMA TimesRegroup ==
    ASSUME NEW a \in Zn, NEW b \in Zn, NEW c \in Zn, NEW d \in Zn
    PROVE  Times(Times(a, b), Times(c, d)) = Times(Times(a, c), Times(b, d))
<1>1. a \in Nat /\ b \in Nat /\ c \in Nat /\ d \in Nat
  BY ZnIsNat
<1>2. /\ Times(a, b) \in Nat /\ Times(c, d) \in Nat /\ Times(b, d) \in Nat /\ Times(b, c) \in Nat
      /\ Times(a, c) \in Nat
  BY <1>1, TimesType, ZnIsNat
<1>3. Times(Times(a, b), Times(c, d)) = Times(a, Times(b, Times(c, d)))
  BY <1>1, <1>2, TimesAssociates
<1>4. Times(b, Times(c, d)) = Times(Times(b, c), d)
  BY <1>1, TimesAssociates
<1>5. Times(Times(b, c), d) = Times(Times(c, b), d)
  BY <1>1, TimesCommutes
<1>6. Times(Times(c, b), d) = Times(c, Times(b, d))
  BY <1>1, TimesAssociates
<1>7. Times(a, Times(c, Times(b, d))) = Times(Times(a, c), Times(b, d))
  BY <1>1, <1>2, TimesAssociates
<1> QED
  BY <1>3, <1>4, <1>5, <1>6, <1>7

-----------------------------------------------------------------------------
(***************************************************************************)
(* Powers.                                                                 *)
(***************************************************************************)
\* The turns of Power.
Powers(f, a, k) ==
    f = [i \in 0..k |-> IF i = 0 THEN 1 % N ELSE (a * f[i - 1]) % N]

\* There are as many as the exponent says.
LEMMA PowersExist ==
    ASSUME NEW a, NEW k \in Nat
    PROVE  \E f : Powers(f, a, k)
<1> DEFINE T == {m \in Nat : \E f : Powers(f, a, m)}
<1>1. 0 \in T
  <2>1. Powers([i \in 0..0 |-> 1 % N], a, 0)
    BY DEF Powers
  <2> QED
    BY <2>1
<1>2. ASSUME NEW m \in T PROVE m + 1 \in T
  <2>1. PICK h : Powers(h, a, m)
    OBVIOUS
  <2>2. m \in Nat
    OBVIOUS
  <2> DEFINE f == [i \in 0..(m + 1) |-> IF i = 0 THEN 1 % N ELSE (a * h[i - 1]) % N]
  <2>3. \A i \in 0..m : f[i] = h[i]
    <3> SUFFICES ASSUME NEW i \in 0..m PROVE f[i] = h[i]
      OBVIOUS
    <3>1. i \in 0..(m + 1)
      BY <2>2
    <3> DEFINE e == IF i = 0 THEN 1 % N ELSE (a * h[i - 1]) % N
    <3>2. f[i] = e
      BY <3>1
    <3>3. h[i] = e
      BY <2>1 DEF Powers
    <3> QED
      BY <3>1, <3>2, <3>3
  <2>4. \A i \in 0..(m + 1) : i # 0 => i - 1 \in 0..m
    BY <2>2
  <2>5. \A i \in 0..(m + 1) : i # 0 => f[i - 1] = h[i - 1]
    BY <2>3, <2>4
  <2>6. Powers(f, a, m + 1)
    BY <2>5 DEF Powers
  <2> HIDE DEF f
  <2> QED
    BY <2>2, <2>6 DEF T
<1>3. T = Nat
  <2> HIDE DEF T
  <2> QED
    BY <1>1, <1>2, NatSet DEF T
<1> QED
  BY <1>3

\* Powers one after the other, up to Power(a, k).
Raises(f, a, k) ==
    /\ f[0] = 1 /\ Power(a, k) = f[k]
    /\ \A i \in 0..k : f[i] \in Zn
    /\ \A i \in Nat : i + 1 <= k => f[i + 1] = Times(a, f[i])

\* Power is computed like that.
LEMMA PowerRaises ==
    ASSUME NEW a \in Zn, NEW k \in Nat
    PROVE  \E f : Raises(f, a, k)
<1>1. PICK f : Powers(f, a, k) /\ Power(a, k) = f[k]
  <2>1. Power(a, k) = (CHOOSE f : Powers(f, a, k))[k]
    BY DEF Power, Powers
  <2> QED
    BY <2>1, PowersExist
<1>2. f[0] = 1
  <2>1. f[0] = 1 % N
    BY <1>1 DEF Powers
  <2>2. 1 \in Zn /\ 1 * 1 = 1
    BY ModulusFacts
  <2> QED
    BY <2>1, <2>2, TimesOne DEF Times
<1>3. ASSUME NEW i \in Nat, i + 1 <= k PROVE f[i + 1] = Times(a, f[i])
  <2>1. \A j \in 0..k : j # 0 => f[j] = (a * f[j - 1]) % N
    BY <1>1 DEF Powers
  <2>2. i + 1 \in 0..k /\ i + 1 # 0 /\ (i + 1) - 1 = i
    BY <1>3
  <2> QED
    BY <2>1, <2>2 DEF Times
<1> DEFINE T == {i \in Nat : i <= k => f[i] \in Zn}
<1>4. 0 \in T
  BY <1>2, ModulusFacts
<1>5. ASSUME NEW i \in T PROVE i + 1 \in T
  <2>1. i + 1 <= k => f[i] \in Zn /\ f[i + 1] = Times(a, f[i])
    BY <1>3
  <2> QED
    BY <2>1, TimesType, ZnIsNat
<1>6. T = Nat
  <2> HIDE DEF T
  <2> QED
    BY <1>4, <1>5, NatSet DEF T
<1>7. \A i \in 0..k : f[i] \in Zn
  BY <1>6
<1> QED
  BY <1>1, <1>2, <1>3, <1>7 DEF Raises

\* Powers are below the modulus.
LEMMA PowerType ==
    ASSUME NEW a \in Zn, NEW k \in Nat
    PROVE  Power(a, k) \in Zn
<1>1. PICK f : Raises(f, a, k)
  BY PowerRaises
<1> QED
  BY <1>1 DEF Raises

\* A power of a product is the product of the powers.
LEMMA PowerOfProduct ==
    ASSUME NEW a \in Zn, NEW b \in Zn, NEW k \in Nat
    PROVE  Power(Times(a, b), k) = Times(Power(a, k), Power(b, k))
<1>0. Times(a, b) \in Zn
  BY TimesType, ZnIsNat
<1>1. PICK f : Raises(f, a, k)
  BY PowerRaises
<1>2. PICK g : Raises(g, b, k)
  BY PowerRaises
<1>3. PICK h : Raises(h, Times(a, b), k)
  BY <1>0, PowerRaises
<1> DEFINE T == {i \in Nat : i <= k => h[i] = Times(f[i], g[i])}
<1>4. 0 \in T
  BY <1>1, <1>2, <1>3, TimesOne, ModulusFacts DEF Raises
<1>5. ASSUME NEW i \in T PROVE i + 1 \in T
  <2>0. i \in Nat /\ (i <= k => h[i] = Times(f[i], g[i]))
    OBVIOUS
  <2>1. ASSUME i + 1 <= k PROVE h[i + 1] = Times(f[i + 1], g[i + 1])
    <3>1. f[i] \in Zn /\ g[i] \in Zn /\ h[i] = Times(f[i], g[i])
      BY <1>1, <1>2, <2>0, <2>1 DEF Raises
    <3>2. /\ f[i + 1] = Times(a, f[i]) /\ g[i + 1] = Times(b, g[i])
          /\ h[i + 1] = Times(Times(a, b), h[i])
      BY <1>1, <1>2, <1>3, <2>0, <2>1 DEF Raises
    <3> QED
      BY <3>1, <3>2, TimesRegroup
  <2> QED
    BY <2>0, <2>1
<1>6. T = Nat
  <2> HIDE DEF T
  <2> QED
    BY <1>4, <1>5, NatSet DEF T
<1>7. h[k] = Times(f[k], g[k])
  BY <1>6
<1> QED
  BY <1>1, <1>2, <1>3, <1>7 DEF Raises

-----------------------------------------------------------------------------
(***************************************************************************)
(* Units: the numbers with an inverse are the numbers coprime with N.      *)
(***************************************************************************)
Unit(a) == \E y \in Zn : Times(a, y) = 1

\* Units multiply to units.
LEMMA UnitTimes ==
    ASSUME NEW a \in Zn, NEW b \in Zn, Unit(a), Unit(b)
    PROVE  Unit(Times(a, b))
<1>1. PICK y \in Zn : Times(a, y) = 1
  BY DEF Unit
<1>2. PICK z \in Zn : Times(b, z) = 1
  BY DEF Unit
<1>3. Times(Times(a, b), Times(y, z)) = 1
  BY <1>1, <1>2, TimesRegroup, TimesOne, ModulusFacts
<1>4. Times(y, z) \in Zn
  BY TimesType, ZnIsNat
<1> QED
  BY <1>3, <1>4 DEF Unit

\* Powers of units are units.
LEMMA UnitPower ==
    ASSUME NEW a \in Zn, NEW k \in Nat, Unit(a)
    PROVE  Unit(Power(a, k))
<1>1. PICK f : Raises(f, a, k)
  BY PowerRaises
<1> DEFINE T == {i \in Nat : i <= k => Unit(f[i])}
<1>2. 0 \in T
  BY <1>1, TimesOne, ModulusFacts DEF Raises, Unit
<1>3. ASSUME NEW i \in T PROVE i + 1 \in T
  <2>1. i + 1 <= k => Unit(f[i]) /\ f[i] \in Zn /\ f[i + 1] = Times(a, f[i])
    BY <1>1 DEF Raises
  <2> QED
    BY <2>1, UnitTimes
<1>4. T = Nat
  <2> HIDE DEF T
  <2> QED
    BY <1>2, <1>3, NatSet DEF T
<1>5. Unit(f[k])
  BY <1>4
<1> QED
  BY <1>1, <1>5 DEF Raises

\* A multiple of k is what k divides.
LEMMA DividesIsMultiple ==
    ASSUME NEW k \in Nat, NEW a \in Nat, k > 0, Divides(k, a)
    PROVE  \E u \in Nat : a = k * u
<1>1. Rest(a, k, a % k)
  BY ModIsRest
<1>2. Rest(a, k, 0)
  BY <1>1 DEF Divides
<1>3. PICK u \in Nat : a = k * u + 0
  BY <1>2, Zenon DEF Rest
<1>4. a = k * u
  BY <1>3
<1> QED
  BY <1>4, Zenon

\* A product modulo N, as an equation.
LEMMA TimesEquation ==
    ASSUME NEW a \in Nat, NEW b \in Nat
    PROVE  \E q \in Nat : a * b = N * q + Times(a, b)
<1>1. a * b \in Nat
  OBVIOUS
<1>2. Rest(a * b, N, (a * b) % N)
  BY <1>1, ModulusFacts, ModIsRest
<1> QED
  BY <1>2, Zenon DEF Rest, Times

\* A unit is coprime with N.
LEMMA UnitCoprime ==
    ASSUME NEW a \in Zn, Unit(a)
    PROVE  Coprime(a, N)
<1> SUFFICES ASSUME NEW k \in 2..N, Divides(k, a), Divides(k, N) PROVE FALSE
  BY DEF Coprime
<1>0. k \in Nat /\ k >= 2 /\ k > 0 /\ a \in Nat /\ N \in Nat
  BY ModulusFacts, ZnIsNat
<1>1. PICK y \in Zn : Times(a, y) = 1
  BY DEF Unit
<1>2. y \in Nat
  BY ZnIsNat
<1>3. PICK q \in Nat : a * y = N * q + 1
  BY <1>0, <1>1, <1>2, TimesEquation
<1>4. PICK u \in Nat : a = k * u
  BY <1>0, DividesIsMultiple
<1>5. PICK v \in Nat : N = k * v
  BY <1>0, DividesIsMultiple
<1> DEFINE uy == u * y
           vq == v * q
<1>6. uy \in Nat /\ vq \in Nat
  BY <1>2
<1>7. (k * u) * y = k * uy /\ (k * v) * q = k * vq
  BY <1>0, <1>2
<1> HIDE DEF uy, vq
<1>8. k * uy = k * vq + 1
  BY <1>3, <1>4, <1>5, <1>7
<1>9. k * (uy - vq) = 1
  BY <1>0, <1>6, <1>8
<1>10. uy - vq = 0
  BY <1>0, <1>6, <1>9, NoMultiple
<1>11. k * 0 = 0
  BY <1>0
<1> QED
  BY <1>9, <1>10, <1>11

\* What a multiple of m leaves modulo N, a product with m is.
LEMMA Reaches ==
    ASSUME NEW m \in Zn, NEW w \in Nat, NEW x \in Nat, NEW r \in Zn, m * w = N * x + r
    PROVE  \E y \in Zn : Times(m, y) = r
<1>0. m \in Nat /\ r \in 0..(N - 1)
  BY ZnIsNat DEF Zn
<1>1. m * w \in Nat
  BY <1>0
<1>2. Rest(m * w, N, r)
  BY <1>0, Zenon DEF Rest
<1>3. Times(m, w) = r
  BY <1>1, <1>2, RestIsMod, ModulusFacts DEF Times
<1> DEFINE y == Times(w, 1)
<1>4. y \in Zn
  BY TimesType
<1>5. Times(Times(w, 1), m) = Times(w, Times(1, m))
  BY <1>0, TimesAssociates
<1>6. Times(w, Times(1, m)) = Times(m, w)
  BY <1>0, TimesOne, TimesCommutes
<1>7. Times(m, y) = Times(y, m)
  BY <1>0, <1>4, ZnIsNat, TimesCommutes
<1>8. Times(m, y) = r
  BY <1>3, <1>5, <1>6, <1>7
<1> HIDE DEF y
<1> QED
  BY <1>4, <1>8

\* A step of Euclid's algorithm, on products with m.
LEMMA EuclidStep ==
    ASSUME NEW m \in Nat, NEW y \in Nat, NEW z \in Nat, NEW p \in Nat, NEW u \in Nat,
           NEW g \in Nat, NEW q \in Nat, NEW r \in Nat, q <= N,
           m * y = N * p + g, m * z = N * u + (g * q + r)
    PROVE  m * (z + (N - q) * y) = N * (u + (N - q) * p + g) + r
<1> DEFINE k == N - q
<1>1. k \in Nat /\ N \in Nat /\ N = k + q
  BY ModulusFacts
<1> HIDE DEF k
<1>2. m * (z + k * y) = m * z + k * (m * y)
  BY <1>1
<1>3. k * (N * p + g) = N * (k * p) + k * g
  BY <1>1
<1>4. N * g = k * g + g * q
  BY <1>1
<1>5. N * (u + k * p + g) = N * u + N * (k * p) + N * g
  BY <1>1
<1>6. /\ k * p \in Nat /\ N * (k * p) \in Nat /\ k * g \in Nat /\ g * q \in Nat /\ N * u \in Nat
      /\ N * g \in Nat
  BY <1>1
<1>7. m * (z + k * y) = N * u + (g * q + r) + (N * (k * p) + k * g)
  BY <1>2, <1>3
<1>8. m * (z + k * y) = N * (u + k * p + g) + r
  BY <1>4, <1>5, <1>6, <1>7
<1> QED
  BY <1>8 DEF k

\* A number that is coprime with N is a unit: the least positive product with
\* it divides both.
LEMMA CoprimeUnit ==
    ASSUME NEW m \in Zn, Coprime(m, N)
    PROVE  Unit(m)
<1>0. m \in Nat /\ m < N /\ N \in Nat /\ N >= 3
  BY ModulusFacts DEF Zn
<1>1. m # 0
  <2> SUFFICES ASSUME m = 0 PROVE FALSE
    OBVIOUS
  <2>1. 0 = N * 0 + 0 /\ N = N * 1 + 0 /\ 0 \in 0..(N - 1) /\ 0 \in Nat /\ 1 \in Nat
    BY <1>0
  <2>2. Rest(0, N, 0) /\ Rest(N, N, 0)
    BY <2>1, Zenon DEF Rest
  <2>3. Divides(N, 0) /\ Divides(N, N)
    BY <1>0, <2>2, RestIsMod DEF Divides
  <2>4. N \in 2..N
    BY <1>0
  <2> QED
    BY <2>3, <2>4 DEF Coprime
<1> DEFINE S == {g \in Nat : g > 0 /\ g < N /\ \E y \in Zn : Times(m, y) = g}
<1>2. m \in S
  BY <1>0, <1>1, TimesOne, ModulusFacts
<1>3. S \in SUBSET Nat /\ S # {}
  BY <1>2
<1>4. \A r \in Nat : r > 0 /\ r < N /\ (\E y \in Zn : Times(m, y) = r) => r \in S
  OBVIOUS
<1>5. \A r \in S : r \in Nat /\ r > 0 /\ r < N /\ \E y \in Zn : Times(m, y) = r
  OBVIOUS
<1> HIDE DEF S
<1>6. PICK g \in S : \A x \in S : g <= x
  BY <1>3, Least
<1>7. g \in Nat /\ g > 0 /\ g < N
  BY <1>5
<1>8. PICK y \in Zn : Times(m, y) = g
  BY <1>5
<1>9. y \in Nat
  BY ZnIsNat
<1>10. PICK p \in Nat : m * y = N * p + g
  BY <1>0, <1>8, <1>9, TimesEquation
<1>11. ASSUME NEW c \in Nat, NEW z \in Nat, NEW u \in Nat, c <= N, m * z = N * u + c
       PROVE  Divides(g, c)
  <2> DEFINE r == c % g
  <2>1. Rest(c, g, r)
    BY <1>7, ModIsRest
  <2> HIDE DEF r
  <2>2. PICK q \in Nat : r \in 0..(g - 1) /\ c = g * q + r
    BY <2>1 DEF Rest
  <2>3. q <= N
    <3> DEFINE h == g - 1
    <3>0. h \in Nat /\ g = h + 1
      BY <1>7
    <3> HIDE DEF h
    <3>1. g * q = q + h * q
      BY <2>2, <3>0
    <3>2. h * q \in Nat /\ q \in Nat /\ r \in Nat
      BY <2>2, <3>0
    <3>3. c = q + h * q + r
      BY <2>2, <3>1
    <3> QED
      BY <1>0, <1>11, <3>2, <3>3
  <2>4. r \in Nat /\ r < g /\ r \in Zn
    BY <1>0, <1>7, <2>2 DEF Zn
  <2> DEFINE w == z + (N - q) * y
             x == u + (N - q) * p + g
  <2>5. m * w = N * x + r
    <3>1. m * z = N * u + (g * q + r)
      BY <1>11, <2>2
    <3> QED
      BY <1>0, <1>7, <1>9, <1>10, <1>11, <2>2, <2>3, <2>4, <3>1, EuclidStep
  <2>6. w \in Nat /\ x \in Nat
    <3>1. N - q \in Nat
      BY <1>0, <2>2, <2>3
    <3>2. (N - q) * y \in Nat /\ (N - q) * p \in Nat
      BY <1>9, <1>10, <3>1
    <3> QED
      BY <1>7, <3>2
  <2> HIDE DEF w, x
  <2>7. \E v \in Zn : Times(m, v) = r
    <3>1. PICK i \in Nat, j \in Nat : m * i = N * j + r
      BY <2>5, <2>6, Zenon
    <3>2. r \in Zn
      BY <2>4
    <3> QED
      BY <3>1, <3>2, Reaches
  <2>8. ~(r > 0)
    <3> SUFFICES ASSUME r > 0 PROVE FALSE
      OBVIOUS
    <3>1. r < N
      BY <1>0, <1>7, <2>4
    <3>2. r \in S
      BY <1>4, <2>4, <2>7, <3>1, Zenon
    <3>3. g <= r
      BY <1>6, <3>2
    <3> QED
      BY <1>7, <2>4, <3>3
  <2>9. r = 0
    BY <2>4, <2>8
  <2> QED
    BY <2>9 DEF r, Divides
<1>12. Divides(g, N)
  <2>1. m * N = N * (m - 1) + N /\ m - 1 \in Nat /\ N <= N
    BY <1>0, <1>1
  <2> QED
    BY <1>0, <1>11, <2>1, Zenon
<1>13. Divides(g, m)
  <2>1. m * 1 = N * 0 + m /\ m <= N /\ 0 \in Nat /\ 1 \in Nat
    BY <1>0
  <2> QED
    BY <1>0, <1>11, <2>1, Zenon
<1>14. g = 1
  <2> SUFFICES ASSUME g # 1 PROVE FALSE
    OBVIOUS
  <2>1. g \in 2..N
    BY <1>0, <1>7
  <2> QED
    BY <1>12, <1>13, <2>1 DEF Coprime
<1> QED
  BY <1>8, <1>14 DEF Unit

\* InverseOf inverts units.
LEMMA InverseFacts ==
    ASSUME NEW r \in Zn, Unit(r)
    PROVE  InverseOf(r) \in Zn /\ Times(r, InverseOf(r)) = 1
BY DEF Unit, InverseOf, Times

-----------------------------------------------------------------------------
(***************************************************************************)
(* Blind signatures.                                                       *)
(***************************************************************************)
\* The hash of a credit and a denomination is a unit.
LEMMA HashFacts ==
    ASSUME NEW x \in Credits
    PROVE  /\ ValueOf[x] \in Values
           /\ \A value \in Values : Fdh[x][value] \in Zn /\ Unit(Fdh[x][value])
<1>1. ValueOf[x] \in Values /\ \A value \in Values : Fdh[x][value] \in Zn
  BY BlindAssumption
<1>2. \A value \in Values : Coprime(Fdh[x][value], N)
  BY HashAssumption
<1> QED
  BY <1>1, <1>2, CoprimeUnit

\* Blinding factors are units.
LEMMA FactorFacts ==
    ASSUME NEW r \in BlindingFactors
    PROVE  r \in Zn /\ Unit(r)
<1>1. r \in 2..(N - 1) /\ Coprime(r, N)
  BY DEF BlindingFactors
<1>2. r \in Zn
  BY <1>1, ModulusFacts DEF Zn
<1> QED
  BY <1>1, <1>2, CoprimeUnit

\* What the issuer is shown of a unit is a unit.
LEMMA BlindFacts ==
    ASSUME NEW m \in Zn, NEW r \in BlindingFactors
    PROVE  /\ Blind(m, r) = Times(m, Power(r, E)) /\ Blind(m, r) \in Zn
           /\ Unit(m) => Unit(Blind(m, r))
<1>1. r \in Zn /\ Unit(r)
  BY FactorFacts
<1>2. Power(r, E) \in Zn /\ Unit(Power(r, E))
  BY <1>1, PowerType, UnitPower, ModulusFacts
<1>3. Blind(m, r) = Times(m, Power(r, E))
  BY DEF Blind, Times
<1>4. Times(m, Power(r, E)) \in Zn
  BY <1>2, TimesType, ZnIsNat
<1> QED
  BY <1>2, <1>3, <1>4, UnitTimes

\* The blind signature, unblinded, is the issuer's signature on the message.
LEMMA UnblindsToSignature ==
    ASSUME NEW m \in Zn, NEW r \in BlindingFactors
    PROVE  Unblind(Power(Blind(m, r), D), r) = Power(m, D)
<1>1. r \in Zn /\ Unit(r)
  BY FactorFacts
<1> DEFINE P == Power(m, D)
           i == InverseOf(r)
<1>2. P \in Zn /\ Power(r, E) \in Zn /\ i \in Zn /\ Times(r, i) = 1
  BY <1>1, PowerType, InverseFacts, ModulusFacts
<1>3. Power(Blind(m, r), D) = Times(P, Power(Power(r, E), D))
  BY <1>2, BlindFacts, PowerOfProduct, ModulusFacts
<1>4. Power(Power(r, E), D) = r
  BY <1>1, RsaAssumption
<1>5. Unblind(Power(Blind(m, r), D), r) = Times(Times(P, r), i)
  BY <1>3, <1>4 DEF Unblind, Times
<1> HIDE DEF P, i
<1>6. Times(Times(P, r), i) = Times(P, Times(r, i))
  BY <1>1, <1>2, TimesAssociates, ZnIsNat
<1>7. Times(P, 1) = P
  BY <1>2, TimesOne
<1> QED
  BY <1>2, <1>5, <1>6, <1>7 DEF P

\* Powers of one are one.
LEMMA PowerOfOne == Power(1, E) = 1
<1> DEFINE P == Power(1, E)
<1>1. 1 \in Zn /\ E \in Nat /\ Times(1, 1) = 1
  BY ModulusFacts, TimesOne
<1>2. P \in Zn /\ Unit(P)
  BY <1>1, PowerType, UnitPower DEF Unit
<1>3. P = Times(P, P)
  BY <1>1, PowerOfProduct
<1> HIDE DEF P
<1>4. PICK y \in Zn : Times(P, y) = 1
  BY <1>2 DEF Unit
<1>5. Times(Times(P, P), y) = Times(P, Times(P, y))
  BY <1>2, TimesAssociates, ZnIsNat
<1>6. Times(P, 1) = P
  BY <1>2, TimesOne
<1>7. P = 1
  BY <1>3, <1>4, <1>5, <1>6
<1> QED
  BY <1>7 DEF P

\* Zero is not a unit.
LEMMA ZeroIsNoUnit == ~Unit(0)
<1> SUFFICES ASSUME NEW y \in Zn, Times(0, y) = 1 PROVE FALSE
  BY DEF Unit
<1>1. y \in Nat /\ N \in Nat /\ N >= 3
  BY ZnIsNat, ModulusFacts
<1>2. PICK q \in Nat : 0 * y = N * q + 1
  BY <1>1, TimesEquation
<1>3. 0 * y = 0 /\ N * q \in Nat
  BY <1>1
<1> QED
  BY <1>2, <1>3

\* Every unit is what the issuer sees of every unit, with some blinding factor:
\* the signature on their quotient.
LEMMA Explained ==
    ASSUME NEW h \in Zn, Unit(h), NEW b \in Zn, Unit(b)
    PROVE  b = h \/ \E r \in BlindingFactors : Blind(h, r) = b
<1> DEFINE i == InverseOf(h)
           w == Times(b, i)
           r == Power(w, D)
<1>1. i \in Zn /\ Times(h, i) = 1
  BY InverseFacts
<1> HIDE DEF i
<1>2. Times(i, h) = 1
  BY <1>1, TimesCommutes, ZnIsNat
<1>3. w \in Zn /\ Unit(w)
  <2>1. Unit(i)
    BY <1>2 DEF Unit
  <2> QED
    BY <1>1, <2>1, UnitTimes, TimesType, ZnIsNat
<1>4. Times(h, w) = b
  <2>1. Times(w, h) = Times(b, Times(i, h))
    BY <1>1, TimesAssociates, ZnIsNat
  <2>2. Times(h, w) = Times(w, h)
    BY <1>3, TimesCommutes, ZnIsNat
  <2>3. Times(b, 1) = b
    BY TimesOne
  <2> QED
    BY <1>2, <2>1, <2>2, <2>3
<1> HIDE DEF w
<1>5. r \in Zn /\ Unit(r) /\ Power(r, E) = w
  BY <1>3, PowerType, UnitPower, ModulusFacts, RsaAssumption
<1> HIDE DEF r
<1>6. CASE r = 1
  <2>1. w = 1
    BY <1>5, <1>6, PowerOfOne
  <2> QED
    BY <1>4, <2>1, TimesOne
<1>7. CASE r # 1
  <2>1. r # 0
    BY <1>5, ZeroIsNoUnit
  <2>2. r \in 2..(N - 1)
    BY <1>5, <1>7, <2>1, ModulusFacts DEF Zn
  <2>3. r \in BlindingFactors
    BY <1>5, <2>2, UnitCoprime DEF BlindingFactors
  <2>4. Blind(h, r) = b
    BY <1>4, <1>5, <2>3, BlindFacts
  <2> QED
    BY <2>3, <2>4
<1> QED
  BY <1>6, <1>7

\* The issuer's signature on a credit verifies for its denomination only.
LEMMA SignatureVerifies ==
    ASSUME NEW x \in Credits, sig[x] = Power(Fdh[x][ValueOf[x]], D), NEW value \in Values
    PROVE  Verifies(x, value) <=> value = ValueOf[x]
<1>1. ValueOf[x] \in Values /\ Fdh[x][ValueOf[x]] \in Zn
  BY HashFacts
<1>2. Power(sig[x], E) = Fdh[x][ValueOf[x]]
  BY <1>1, RsaAssumption
<1>3. Verifies(x, value) <=> Fdh[x][ValueOf[x]] = Fdh[x][value]
  BY <1>2 DEF Verifies
<1> QED
  BY <1>1, <1>3, HashAssumption

-----------------------------------------------------------------------------
(***************************************************************************)
(* The life of a credit.                                                   *)
(***************************************************************************)
\* What the issuance of a credit has come to: a phase is only reached with the
\* numbers that the steps before it compute.
Issued ==
    /\ phase \in [Credits -> {"new", "requested", "signed", "ready"}]
    /\ DOMAIN factor = Credits /\ DOMAIN blinded = Credits /\ DOMAIN sig = Credits
    /\ \A x \in Credits : phase[x] # "new" =>
          factor[x] \in BlindingFactors /\ blinded[x] = Blind(Fdh[x][ValueOf[x]], factor[x])
    /\ \A x \in Credits : phase[x] = "signed" => sig[x] = Power(blinded[x], D)
    /\ \A x \in Credits : phase[x] = "ready" => sig[x] = Power(Fdh[x][ValueOf[x]], D)

\* What a redemption has found out when it is past the checks.
Redeemed ==
    /\ call \in [Redemptions -> {"new", "spend", "ok", "refused"}]
    /\ \A c \in Redemptions : call[c] \in {"spend", "ok"} =>
          phase[CreditOf[c]] = "ready" /\ Asks[c] = ValueOf[CreditOf[c]]

\* What is redeemed is spent, and of two calls past the checks with one text the
\* later looked it up before the earlier spent it.
Taken(c) == call[c] \in {"spend", "ok"}

TextsSpent ==
    /\ \A c \in Redemptions : call[c] = "ok" => TextOf[c] \in spent
    /\ \A c, d \in Redemptions :
          c # d /\ Taken(c) /\ Taken(d) /\ TextOf[c] = TextOf[d] => raced \cap {c, d} # {}

\* What issuing and redeeming need of each other.
CreditInv == Issued /\ Redeemed

\* Issuing and redeeming keep them.
LEMMA CreditInvHolds == BSpec => []CreditInv
<1>1. BInit => CreditInv
  BY DEF BInit, CreditInv, Issued, Redeemed
<1>2. CreditInv /\ [BNext]_bvars => CreditInv'
  <2> SUFFICES ASSUME Issued, Redeemed, [BNext]_bvars PROVE Issued' /\ Redeemed'
    BY DEF CreditInv
  <2>1. ASSUME NEW x \in Credits, RequestCredit(x) PROVE Issued' /\ Redeemed'
    <3>1. PICK r \in BlindingFactors :
             /\ factor' = [factor EXCEPT ![x] = r]
             /\ blinded' = [blinded EXCEPT ![x] = Blind(Fdh[x][ValueOf[x]], r)]
      BY <2>1 DEF RequestCredit
    <3>2. Issued'
      BY <2>1, <3>1 DEF RequestCredit, Issued
    <3>3. Redeemed'
      BY <2>1, BlindAssumption DEF RequestCredit, Issued, Redeemed
    <3> QED
      BY <3>2, <3>3
  <2>2. ASSUME NEW x \in Credits, SignBlinded(x) PROVE Issued' /\ Redeemed'
    <3>1. Issued'
      BY <2>2 DEF SignBlinded, Issued
    <3>2. Redeemed'
      BY <2>2, BlindAssumption DEF SignBlinded, Issued, Redeemed
    <3> QED
      BY <3>1, <3>2
  <2>3. ASSUME NEW x \in Credits, Finalize(x) PROVE Issued' /\ Redeemed'
    <3>1. /\ phase[x] = "signed" /\ factor[x] \in BlindingFactors
          /\ sig[x] = Power(Blind(Fdh[x][ValueOf[x]], factor[x]), D)
      BY <2>3 DEF Finalize, Issued
    <3>2. Unblind(sig[x], factor[x]) = Power(Fdh[x][ValueOf[x]], D)
      BY <3>1, HashFacts, UnblindsToSignature
    <3>3. Issued'
      BY <2>3, <3>2 DEF Finalize, Issued
    <3>4. Redeemed'
      BY <2>3, BlindAssumption DEF Finalize, Issued, Redeemed
    <3> QED
      BY <3>3, <3>4
  <2>4. ASSUME NEW c \in Redemptions, Check(c) PROVE Issued' /\ Redeemed'
    <3>1. CreditOf[c] \in Credits /\ Asks[c] \in Values
      BY BlindAssumption DEF CreditOf
    <3>2. phase[CreditOf[c]] = "ready" /\ sig[CreditOf[c]] = Power(Fdh[CreditOf[c]][ValueOf[CreditOf[c]]], D)
      BY <2>4, <3>1 DEF Check, Issued
    <3>3. Acceptable(c) => Asks[c] = ValueOf[CreditOf[c]]
      BY <3>1, <3>2, SignatureVerifies DEF Acceptable
    <3>4. Issued'
      BY <2>4 DEF Check, Issued
    <3>5. Redeemed'
      BY <2>4, <3>2, <3>3 DEF Check, Redeemed
    <3> QED
      BY <3>4, <3>5
  <2>5. ASSUME NEW c \in Redemptions, SpendSerial(c) PROVE Issued' /\ Redeemed'
    BY <2>5 DEF SpendSerial, Issued, Redeemed
  <2>6. CASE UNCHANGED bvars
    BY <2>6 DEF bvars, Issued, Redeemed
  <2> QED
    BY <2>1, <2>2, <2>3, <2>4, <2>5, <2>6 DEF BNext
<1> QED
  BY <1>1, <1>2, PTL DEF BSpec

\* Credits that are issued verify for their denomination only.
LEMMA IssuedVerifies == Issued => FinalizedVerifies
BY SignatureVerifies DEF Issued, FinalizedVerifies

\* A credit that is finalized verifies for the denomination it was issued for
\* and for no other, and is redeemed for that one, however redemptions overlap:
\* blinding and unblinding give the issuer's signature back.
THEOREM FaceValueHolds == BSpec => [](FinalizedVerifies /\ RedeemedAtFaceValue)
<1>1. CreditInv => FinalizedVerifies /\ RedeemedAtFaceValue
  BY IssuedVerifies DEF CreditInv, Redeemed, RedeemedAtFaceValue
<1> QED
  BY <1>1, CreditInvHolds, PTL

\* The number the issuer is shown when it signs one credit is the number some
\* blinding factor gives every other credit: it tells nothing about which
\* credit it signs.
THEOREM UnlinkableHolds == BSpec => []Unlinkable
<1>1. Issued => Unlinkable
  <2> SUFFICES ASSUME Issued, NEW x \in Credits, NEW y \in Credits, phase[x] # "new"
               PROVE  \/ blinded[x] = Fdh[y][ValueOf[y]]
                      \/ \E r \in BlindingFactors : Blind(Fdh[y][ValueOf[y]], r) = blinded[x]
    BY DEF Unlinkable
  <2>1. factor[x] \in BlindingFactors /\ blinded[x] = Blind(Fdh[x][ValueOf[x]], factor[x])
    BY DEF Issued
  <2>2. blinded[x] \in Zn /\ Unit(blinded[x])
    BY <2>1, HashFacts, BlindFacts
  <2> QED
    BY <2>2, HashFacts, Explained
<1> QED
  BY <1>1, CreditInvHolds, PTL DEF CreditInv

\* A lookup finds the texts that are redeemed, and notes the calls that are
\* about to spend the same one.
LEMMA TextsSpentStep ==
    ASSUME Redeemed, TextsSpent, [BNext]_bvars
    PROVE  TextsSpent'
<1>1. CASE UNCHANGED <<call, spent, raced>>
  BY <1>1 DEF TextsSpent, Taken
<1>2. ASSUME NEW c \in Redemptions, Check(c) PROVE TextsSpent'
  <2>1. /\ call' = [call EXCEPT ![c] = IF Acceptable(c) THEN "spend" ELSE "refused"]
        /\ call[c] = "new" /\ spent' = spent
        /\ raced' = IF \E d \in Redemptions : call[d] = "spend" /\ TextOf[d] = TextOf[c]
                    THEN raced \cup {c} ELSE raced
    BY <1>2 DEF Check
  <2>2. /\ call'[c] = "spend" => TextOf[c] \notin spent
        /\ call'[c] \in {"spend", "refused"}
        /\ \A d \in Redemptions : d # c => call'[d] = call[d]
    BY <2>1 DEF Acceptable, Redeemed
  <2>3. \A d \in Redemptions : call'[d] = "ok" => TextOf[d] \in spent'
    BY <2>1, <2>2 DEF TextsSpent
  <2>4. ASSUME NEW d \in Redemptions, d # c, Taken(c)', Taken(d)', TextOf[d] = TextOf[c]
        PROVE  c \in raced'
    <3>1. call'[c] = "spend" /\ call[d] \in {"spend", "ok"}
      BY <2>2, <2>4 DEF Taken
    <3>2. call[d] = "spend"
      BY <2>2, <2>4, <3>1 DEF TextsSpent
    <3> QED
      BY <2>1, <2>4, <3>2
  <2>5. \A d, e \in Redemptions :
            d # e /\ Taken(d)' /\ Taken(e)' /\ TextOf[d] = TextOf[e] => raced' \cap {d, e} # {}
    <3> SUFFICES ASSUME NEW d \in Redemptions, NEW e \in Redemptions,
                        d # e, Taken(d)', Taken(e)', TextOf[d] = TextOf[e]
                 PROVE  raced' \cap {d, e} # {}
      OBVIOUS
    <3>1. CASE d = c \/ e = c
      BY <2>4, <3>1
    <3>2. CASE d # c /\ e # c
      <4>1. Taken(d) /\ Taken(e)
        BY <2>2, <3>2 DEF Taken
      <4>2. raced \cap {d, e} # {}
        BY <4>1 DEF TextsSpent
      <4> QED
        BY <2>1, <4>2
    <3> QED
      BY <3>1, <3>2
  <2> QED
    BY <2>3, <2>5 DEF TextsSpent
<1>3. ASSUME NEW c \in Redemptions, SpendSerial(c) PROVE TextsSpent'
  <2>1. /\ call[c] = "spend" /\ spent' = spent \cup {TextOf[c]} /\ raced' = raced
        /\ call'[c] = "ok" /\ \A d \in Redemptions : d # c => call'[d] = call[d]
    BY <1>3 DEF SpendSerial, Redeemed
  <2>2. \A d \in Redemptions : Taken(d)' <=> Taken(d)
    BY <2>1 DEF Taken
  <2>3. \A d \in Redemptions : call'[d] = "ok" => TextOf[d] \in spent'
    BY <2>1 DEF TextsSpent
  <2> QED
    BY <2>1, <2>2, <2>3 DEF TextsSpent
<1>4. \/ \E c \in Redemptions : Check(c) \/ SpendSerial(c)
      \/ UNCHANGED <<call, spent, raced>>
  BY DEF BNext, bvars, RequestCredit, SignBlinded, Finalize
<1> QED
  BY <1>1, <1>2, <1>3, <1>4

\* However redemptions overlap, a finalized credit verifies for its own
\* denomination only and is redeemed for that denomination, and one text of its
\* serial a second time only by a call that looked it up too early.
THEOREM RedeemedSoundlyHolds == BSpec => []RedeemedSoundly
<1>1. BInit => TextsSpent
  BY DEF BInit, TextsSpent, Taken
<1>2. CreditInv /\ TextsSpent /\ [BNext]_bvars => TextsSpent'
  BY TextsSpentStep DEF CreditInv
<1>3. FinalizedVerifies /\ RedeemedAtFaceValue /\ TextsSpent => RedeemedSoundly
  BY DEF TextsSpent, Taken, TextOnce, RedeemedSoundly
<1> QED
  BY <1>1, <1>2, <1>3, CreditInvHolds, FaceValueHolds, PTL DEF BSpec
=============================================================================

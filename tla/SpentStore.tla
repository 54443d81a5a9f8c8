----------------------------- MODULE SpentStore -----------------------------
(***************************************************************************)
(* SpentSet over a file: processes open one database path, each with a     *)
(* connection of its own, and spend keys in it.  A path names at most one  *)
(* file; an unlinked file lives on for the connections that hold it.       *)
(* SQLite itself is external: a connection can find bytes that are not a   *)
(* database, or a write lock held by a process that is setting the         *)
(* database up (journal_mode=WAL does not wait for that lock).             *)
(***************************************************************************)
EXTENDS Integers, FiniteSets

CONSTANTS Procs,
          Keys,
          Files,         \* files that may exist over time
          NoFile,        \* not a file
          FirstFile,     \* the file the path names at the start, if any
          FirstHolds,    \* what it may hold: "nothing" (there is none),
                         \* "foreign" bytes or a "db"
          MaxRestarts    \* bound on restarts of a process

ASSUME StoreAssumption ==
    /\ NoFile \notin Files /\ IsFiniteSet(Files)
    /\ FirstFile \in Files
    /\ FirstHolds \subseteq {"nothing", "foreign", "db"}
    /\ MaxRestarts \in Nat

VARIABLES path,      \* the file the path names
          holds,     \* holds[f]: nothing yet, an empty file, foreign bytes, a db
          rows,      \* rows[f]: the keys in f's spent table
          lock,      \* lock[f]: the processes setting f up (at most one)
          conn,      \* conn[p]: the file p's connection is on
          pc,        \* where p is in SpentSet.__init__
          wins,      \* wins[k]: how often spend(k) has returned True
          restarts,
          overlap    \* history: two constructors have run at the same time while
                     \* the path named no database

vars == <<path, holds, rows, lock, conn, pc, wins, restarts, overlap>>

TypeOK ==
    /\ path \in Files \cup {NoFile}
    /\ holds \in [Files -> {"nothing", "empty", "foreign", "db"}]
    /\ rows \in [Files -> SUBSET Keys]
    /\ lock \in [Files -> SUBSET Procs]
    /\ conn \in [Procs -> Files \cup {NoFile}]
    /\ pc \in [Procs -> {"closed", "opened", "setup", "error", "unlink", "ready", "failed"}]
    /\ wins \in [Keys -> Nat]
    /\ restarts \in 0..MaxRestarts
    /\ overlap \in BOOLEAN
    /\ \A p \in Procs : conn[p] = NoFile <=> pc[p] \in {"closed", "error", "unlink", "failed"}

Init ==
    /\ \E first \in FirstHolds :
        /\ holds = [f \in Files |-> IF f = FirstFile THEN first ELSE "nothing"]
        /\ path = IF first = "nothing" THEN NoFile ELSE FirstFile
    /\ rows = [f \in Files |-> {}]
    /\ lock = [f \in Files |-> {}]
    /\ conn = [p \in Procs |-> NoFile]
    /\ pc = [p \in Procs |-> "closed"]
    /\ wins = [k \in Keys |-> 0]
    /\ restarts = 0
    /\ overlap = FALSE

-----------------------------------------------------------------------------
Settled(p) == pc[p] \in {"closed", "ready", "failed"}

\* A file that has never existed; which one makes no difference.
Unused == {f \in Files : holds[f] = "nothing"}

\* The path names nothing, an empty file or foreign bytes.
NoDatabase == path = NoFile \/ holds[path] # "db"

\* sqlite3.connect: opens the file the path names, creating it if there is none.
Connect(p) ==
    /\ pc[p] = "closed"
    /\ IF path # NoFile
       THEN UNCHANGED <<path, holds>>
       ELSE /\ Unused # {}
            /\ path' = CHOOSE f \in Unused : TRUE
            /\ holds' = [holds EXCEPT ![path'] = "empty"]
    /\ conn' = [conn EXCEPT ![p] = path']
    /\ pc' = [pc EXCEPT ![p] = "opened"]
    /\ overlap' = (overlap \/ (NoDatabase /\ \E q \in Procs \ {p} : ~Settled(q)))
    /\ UNCHANGED <<rows, lock, wins, restarts>>

\* Switching an empty file to WAL and creating the table takes its write lock.
BeginSetup(p) ==
    /\ pc[p] = "opened"
    /\ holds[conn[p]] = "empty"
    /\ lock[conn[p]] = {}
    /\ lock' = [lock EXCEPT ![conn[p]] = {p}]
    /\ pc' = [pc EXCEPT ![p] = "setup"]
    /\ UNCHANGED <<path, holds, rows, conn, wins, restarts, overlap>>

EndSetup(p) ==
    /\ pc[p] = "setup"
    /\ holds' = [holds EXCEPT ![conn[p]] = "db"]
    /\ lock' = [lock EXCEPT ![conn[p]] = {}]
    /\ pc' = [pc EXCEPT ![p] = "ready"]
    /\ UNCHANGED <<path, rows, conn, wins, restarts, overlap>>

\* On a database that is set up, WAL and CREATE TABLE IF NOT EXISTS only read.
OpenExisting(p) ==
    /\ pc[p] = "opened"
    /\ holds[conn[p]] = "db"
    /\ pc' = [pc EXCEPT ![p] = "ready"]
    /\ UNCHANGED <<path, holds, rows, lock, conn, wins, restarts, overlap>>

\* sqlite3.DatabaseError: "file is not a database", or its subclass
\* OperationalError: "database is locked".
OpenRaises(p) ==
    /\ pc[p] = "opened"
    /\ holds[conn[p]] = "foreign" \/ lock[conn[p]] # {}
    /\ pc' = [pc EXCEPT ![p] = "error"]
    /\ conn' = [conn EXCEPT ![p] = NoFile]
    /\ UNCHANGED <<path, holds, rows, lock, wins, restarts, overlap>>

\* self._path.exists(), or the error is raised to the caller.
PathExists(p) ==
    /\ pc[p] = "error"
    /\ pc' = [pc EXCEPT ![p] = IF path # NoFile THEN "unlink" ELSE "failed"]
    /\ UNCHANGED <<path, holds, rows, lock, conn, wins, restarts, overlap>>

\* Mutant: the file is opened again without being unlinked.
KeepFile(p) ==
    /\ pc[p] = "unlink"
    /\ pc' = [pc EXCEPT ![p] = "closed"]
    /\ UNCHANGED <<path, holds, rows, lock, conn, wins, restarts, overlap>>

\* self._path.unlink() and another _open, or FileNotFoundError.
Unlink(p) ==
    /\ pc[p] = "unlink"
    /\ path' = NoFile
    /\ pc' = [pc EXCEPT ![p] = IF path # NoFile THEN "closed" ELSE "failed"]
    /\ UNCHANGED <<holds, rows, lock, conn, wins, restarts, overlap>>

\* The UNIQUE constraint of the file p is connected to.
Fresh(p, k) == k \notin rows[conn[p]]

Spend(p, k) ==
    /\ pc[p] = "ready"
    /\ Fresh(p, k)
    /\ rows' = [rows EXCEPT ![conn[p]] = @ \cup {k}]
    /\ wins' = [wins EXCEPT ![k] = @ + 1]
    /\ UNCHANGED <<path, holds, lock, conn, pc, restarts, overlap>>

\* Mutant: a restart starts from a new file, as a SpentSet without a path does.
RestartAfresh(p) ==
    /\ pc[p] = "ready"
    /\ restarts < MaxRestarts
    /\ restarts' = restarts + 1
    /\ pc' = [pc EXCEPT ![p] = "closed"]
    /\ conn' = [conn EXCEPT ![p] = NoFile]
    /\ path' = NoFile
    /\ UNCHANGED <<holds, rows, lock, wins, overlap>>

\* The process ends and is started again; committed rows are in the file.
Restart(p) ==
    /\ pc[p] = "ready"
    /\ restarts < MaxRestarts
    /\ restarts' = restarts + 1
    /\ pc' = [pc EXCEPT ![p] = "closed"]
    /\ conn' = [conn EXCEPT ![p] = NoFile]
    /\ UNCHANGED <<path, holds, rows, lock, wins, overlap>>

Open(p) ==
    \/ Connect(p) \/ BeginSetup(p) \/ EndSetup(p) \/ OpenExisting(p)
    \/ OpenRaises(p) \/ PathExists(p) \/ Unlink(p)

Next ==
    \E p \in Procs :
        \/ Open(p)
        \/ \E k \in Keys : Spend(p, k)
        \/ Restart(p)

Spec == Init /\ [][Next]_vars

\* A process that starts keeps executing its constructor.
FairSpec == Spec /\ \A p \in Procs : WF_vars(Open(p))

-----------------------------------------------------------------------------
\* "recorded exactly once: the first spend() wins, any concurrent or later
\* spend() of the same key returns False", across processes and restarts.
ExactlyOnce == \A k \in Keys : wins[k] <= 1

OneFile == \A p \in Procs : pc[p] = "ready" => conn[p] = path

\* It holds, and all processes share one file, as long as the processes that
\* start while there is no database yet do so in turn.  Once there is one, any
\* number of processes start and restart together and none unlinks it.
SerialStartsAreExact == ~overlap => ExactlyOnce /\ OneFile

\* However processes start, a key is won once per database the path has named:
\* only a database unlinked under its users lets a key be spent again.
OncePerFile == \A k \in Keys : wins[k] = Cardinality({f \in Files : k \in rows[f]})

\* Processes that start together do not keep unlinking each other's file for
\* ever ("Recurses at most once"): each comes up or raises, and a process with
\* nobody beside it comes up, whatever bytes it finds.
EveryoneSettles ==
    \A p \in Procs :
        pc[p] = "opened" ~> \/ pc[p] = "ready"
                            \/ pc[p] = "failed" /\ overlap
=============================================================================

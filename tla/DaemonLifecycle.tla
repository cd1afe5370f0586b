-------------------------- MODULE DaemonLifecycle --------------------------
(***************************************************************************)
(* Daemon::bind_inner and the end of Daemon::run against the file system:  *)
(* daemon processes that were told to use one socket path and a database   *)
(* each start, stop, fail and die in any order.  What they share is the    *)
(* pidfile path and the flock on the inode opened through it, the          *)
(* admission lock of the database, and the socket path.                    *)
(***************************************************************************)
EXTENDS Naturals, FiniteSets

CONSTANTS
    Daemons,    \* daemon processes
    Databases,  \* database inodes
    DbOf,       \* the database a daemon was told to open
    None,       \* no file, no holder
    Stale,      \* a socket file nobody listens on
    Migration,  \* the offline accept_model_change, as the holder of an admission lock
    Inodes,     \* inodes a pidfile can have; a freed one is used again
    MaxStops    \* bound: shutdowns, failed store opens, migrations and deaths

ASSUME DaemonsAssumption ==
    /\ DbOf \in [Daemons -> Databases]
    /\ {None, Stale, Migration} \cap Daemons = {}
    /\ None # Stale /\ None # Migration
    /\ None \notin Inodes
    /\ MaxStops \in Nat

VARIABLES
    pc,         \* where each process is
    fd,         \* the pidfile inode each process has open
    pidPath,    \* the inode the pidfile path names
    pidLock,    \* flock of each pidfile inode
    admission,  \* flock of each database's admission sidecar
    socket,     \* the listener the socket path leads to
    stops       \* stops so far

vars == <<pc, fd, pidPath, pidLock, admission, socket, stops>>

Phases == {"idle", "opened", "locked", "admitted", "stale", "clear", "bound", "serving",
           "abandon", "abandonBound", "abandonPid",
           "unlisten", "unlink", "unlinkPid", "unlockPid", "unadmit"}

Init ==
    /\ pc = [d \in Daemons |-> "idle"]
    /\ fd = [d \in Daemons |-> None]
    /\ pidPath = None /\ pidLock = [i \in Inodes |-> None]
    /\ admission = [b \in Databases |-> None]
    /\ socket = None /\ stops = 0

Goto(d, label) == pc' = [pc EXCEPT ![d] = label]

\* The kernel's part of closing a pidfile: the flock goes with the descriptor.
Unlocked(d) == [i \in Inodes |-> IF pidLock[i] = d THEN None ELSE pidLock[i]]
Unadmitted(d) == [b \in Databases |-> IF admission[b] = d THEN None ELSE admission[b]]
\* A listener that closes leaves its socket file behind.
Unlistened(d) == IF socket = d THEN Stale ELSE socket

\* An inode no path and no descriptor names
Free(i) == i # pidPath /\ \A d \in Daemons : fd[d] # i

-----------------------------------------------------------------------------
(* bind_inner *)

\* BindGuard::acquire opens the pidfile, creating it when the path names none ...
open_pidfile(d) ==
    /\ pc[d] = "idle"
    /\ \E i \in IF pidPath # None THEN {pidPath} ELSE {j \in Inodes : Free(j)} :
        pidPath' = i /\ fd' = [fd EXCEPT ![d] = i]
    /\ Goto(d, "opened")
    /\ UNCHANGED <<pidLock, admission, socket, stops>>

\* ... and locks the inode it opened; a refusal leaves no guard behind.
lock_pidfile(d) ==
    /\ pc[d] = "opened"
    /\ \/ /\ pidLock[fd[d]] = None
          /\ pidLock' = [pidLock EXCEPT ![fd[d]] = d]
          /\ Goto(d, "locked") /\ UNCHANGED fd
       \/ /\ pidLock[fd[d]] # None
          /\ fd' = [fd EXCEPT ![d] = None]
          /\ Goto(d, "idle") /\ UNCHANGED pidLock
    /\ UNCHANGED <<pidPath, admission, socket, stops>>

\* Mutant: the database is admitted whoever holds it
AdmissibleAlways(d) == TRUE

\* lock_database_sidecar's LOCK_NB
Admissible(d) == admission[DbOf[d]] = None

acquire_database(d) ==
    /\ pc[d] = "locked"
    /\ \/ /\ Admissible(d)
          /\ admission' = [admission EXCEPT ![DbOf[d]] = d]
          /\ Goto(d, "admitted")
       \/ /\ ~Admissible(d)
          /\ Goto(d, "abandonPid") /\ UNCHANGED admission
    /\ UNCHANGED <<fd, pidPath, pidLock, socket, stops>>

\* probe_live: refused on a dead listener; a daemon that serves answers within the
\* half second or does not, and one that is bound and has yet to accept does not.
probe_socket(d) ==
    /\ pc[d] = "admitted"
    /\ \/ socket = None /\ Goto(d, "clear")
       \/ socket # None /\ Goto(d, "stale")
       \/ socket \in Daemons /\ pc[socket] = "serving" /\ Goto(d, "abandon")
    /\ UNCHANGED <<fd, pidPath, pidLock, admission, socket, stops>>

\* Mutant: a socket found dead stays where it is
remove_stale_never(d) ==
    /\ pc[d] = "stale" /\ Goto(d, "clear")
    /\ UNCHANGED <<fd, pidPath, pidLock, admission, socket, stops>>

\* remove_file of the socket found dead; a path already gone is an error
remove_stale(d) ==
    /\ pc[d] = "stale"
    /\ \/ socket # None /\ socket' = None /\ Goto(d, "clear")
       \/ socket = None /\ Goto(d, "abandon") /\ UNCHANGED socket
    /\ UNCHANGED <<fd, pidPath, pidLock, admission, stops>>

\* UnixListener::bind fails on an existing path
bind_socket(d) ==
    /\ pc[d] = "clear"
    /\ \/ socket = None /\ socket' = d /\ Goto(d, "bound")
       \/ socket # None /\ Goto(d, "abandon") /\ UNCHANGED socket
    /\ UNCHANGED <<fd, pidPath, pidLock, admission, stops>>

\* StoreHandle::start_with_model_admission, and the accept loop begins
start_store(d) ==
    /\ pc[d] = "bound" /\ Goto(d, "serving")
    /\ UNCHANGED <<fd, pidPath, pidLock, admission, socket, stops>>

\* The store or the HTTP listener does not start: the listener closes, the database
\* is given up, and the guard cleans up.
start_fails(d) ==
    /\ pc[d] = "bound" /\ stops < MaxStops
    /\ socket' = Unlistened(d)
    /\ admission' = Unadmitted(d)
    /\ Goto(d, "abandonBound")
    /\ stops' = stops + 1
    /\ UNCHANGED <<fd, pidPath, pidLock>>

-----------------------------------------------------------------------------
(* A bind that returns an error drops the database guard and then the BindGuard,
   which removes the socket if it bound one, removes the pidfile and closes it. *)

abandon(d) ==
    /\ pc[d] = "abandon"
    /\ admission' = Unadmitted(d)
    /\ Goto(d, "abandonPid")
    /\ UNCHANGED <<fd, pidPath, pidLock, socket, stops>>

abandon_bound(d) ==
    /\ pc[d] = "abandonBound"
    /\ socket' = None
    /\ Goto(d, "abandonPid")
    /\ UNCHANGED <<fd, pidPath, pidLock, admission, stops>>

abandon_pidfile(d) ==
    /\ pc[d] = "abandonPid"
    /\ pidPath' = None
    /\ Goto(d, "unlockPid")
    /\ UNCHANGED <<fd, pidLock, admission, socket, stops>>

-----------------------------------------------------------------------------
(* The end of Daemon::run, on a signal or on the death of the writer *)

\* drop(listener)
stop(d) ==
    /\ pc[d] = "serving" /\ stops < MaxStops
    /\ socket' = Unlistened(d)
    /\ Goto(d, "unlisten")
    /\ stops' = stops + 1
    /\ UNCHANGED <<fd, pidPath, pidLock, admission>>

\* store.shutdown
stop_store(d) ==
    /\ pc[d] = "unlisten" /\ Goto(d, "unlink")
    /\ UNCHANGED <<fd, pidPath, pidLock, admission, socket, stops>>

\* bind_guard.cleanup
remove_socket(d) ==
    /\ pc[d] = "unlink"
    /\ socket' = None
    /\ Goto(d, "unlinkPid")
    /\ UNCHANGED <<fd, pidPath, pidLock, admission, stops>>

remove_pidfile(d) ==
    /\ pc[d] = "unlinkPid"
    /\ pidPath' = None
    /\ Goto(d, "unlockPid")
    /\ UNCHANGED <<fd, pidLock, admission, socket, stops>>

\* The locals go in reverse order: the pidfile first, the database guard last.
close_pidfile(d) ==
    /\ pc[d] = "unlockPid"
    /\ pidLock' = Unlocked(d)
    /\ fd' = [fd EXCEPT ![d] = None]
    /\ Goto(d, "unadmit")
    /\ UNCHANGED <<pidPath, admission, socket, stops>>

release_database(d) ==
    /\ pc[d] = "unadmit"
    /\ admission' = Unadmitted(d)
    /\ Goto(d, "idle")
    /\ UNCHANGED <<fd, pidPath, pidLock, socket, stops>>

-----------------------------------------------------------------------------
\* The process dies: the kernel closes what it had open, the files stay.
die(d) ==
    /\ pc[d] # "idle" /\ stops < MaxStops
    /\ pidLock' = Unlocked(d) /\ admission' = Unadmitted(d) /\ socket' = Unlistened(d)
    /\ fd' = [fd EXCEPT ![d] = None]
    /\ Goto(d, "idle")
    /\ stops' = stops + 1
    /\ UNCHANGED pidPath

\* accept_model_change outside any daemon
migrate(b) ==
    /\ \/ /\ admission[b] = None /\ stops < MaxStops
          /\ admission' = [admission EXCEPT ![b] = Migration]
          /\ stops' = stops + 1
       \/ /\ admission[b] = Migration
          /\ admission' = [admission EXCEPT ![b] = None]
          /\ UNCHANGED stops
    /\ UNCHANGED <<pc, fd, pidPath, pidLock, socket>>

Step(d) ==
    \/ open_pidfile(d) \/ lock_pidfile(d) \/ acquire_database(d) \/ probe_socket(d)
    \/ remove_stale(d) \/ bind_socket(d) \/ start_store(d)
    \/ abandon(d) \/ abandon_bound(d) \/ abandon_pidfile(d)
    \/ stop_store(d) \/ remove_socket(d) \/ remove_pidfile(d)
    \/ close_pidfile(d) \/ release_database(d)

Next ==
    \/ \E d \in Daemons : Step(d) \/ start_fails(d) \/ stop(d) \/ die(d)
    \/ \E b \in Databases : migrate(b)

\* A process that runs takes its next step; a migration ends; and somebody who needs
\* the daemon starts one again (connect_or_start).  Nothing stops a daemon that serves.
Fairness ==
    /\ \A d \in Daemons : WF_vars(Step(d))
    /\ \A b \in Databases : WF_vars(admission[b] = Migration /\ migrate(b))

Spec == Init /\ [][Next]_vars
FairSpec == Spec /\ Fairness

-----------------------------------------------------------------------------
(* Properties *)

\* The store of a database is open
StoreOpen(d) == pc[d] \in {"bound", "serving", "unlisten"}

\* No database is ever open in two daemons, nor in a daemon while a model change is
\* cut over: what DatabaseGuard is for.
OneOwnerPerDatabase ==
    \A d \in Daemons : StoreOpen(d) =>
        /\ admission[DbOf[d]] = d
        /\ \A e \in Daemons \ {d} : StoreOpen(e) => DbOf[e] # DbOf[d]

\* Neither an orderly stop nor the removal of a socket found dead takes the socket of
\* a daemon that listens.
ListenerKeepsSocket ==
    [][\A d \in Daemons : remove_socket(d) \/ remove_stale(d) => socket \notin Daemons]_vars

\* Whatever was left behind by the ones that stopped or died, a daemon ends up serving.
EventuallyServed == <>[](\E d \in Daemons : pc[d] = "serving")
=============================================================================

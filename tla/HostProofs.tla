----------------------------- MODULE HostProofs -----------------------------
(***************************************************************************)
(* What stays true on the user's machine, for every value of the bounds.   *)
(* DaemonLifecycle: one owner per database, for any number of daemons and  *)
(* databases and whatever happens to the pidfile and the socket; and where *)
(* they share one database, a listener keeps its socket.  Installer: the   *)
(* user's content is kept, a report is true, an edited extension is spared *)
(* in spite of failed writes, deaths and edits between any two helpers.    *)
(***************************************************************************)
EXTENDS DaemonLifecycle, Installer, FiniteSetTheorems, WellFoundedInduction, TLAPS

-----------------------------------------------------------------------------
(* Daemons *)

\* The phases from the database's admission to the end of its store
Owning == {"admitted", "stale", "clear", "bound", "serving", "abandon",
           "unlisten", "unlink", "unlinkPid"}

\* A daemon in one of these phases holds its database's lock: the strengthening of
\* OneOwnerPerDatabase that every step preserves.
OwnersHoldLock ==
    /\ pc \in [Daemons -> Phases]
    /\ admission \in [Databases -> Daemons \cup {None, Migration}]
    /\ \A d \in Daemons : pc[d] \in Owning => admission[DbOf[d]] = d

\* A daemon that moves disturbs nobody's lock when it gives up its own or takes a free one.
LEMMA OthersKeepLock ==
    ASSUME OwnersHoldLock, NEW d \in Daemons, NEW label \in Phases,
           pc' = [pc EXCEPT ![d] = label],
           \/ label \notin Owning /\ admission' = Unadmitted(d)
           \/ admission' = admission /\ (label \in Owning => pc[d] \in Owning)
           \/ admission[DbOf[d]] = None /\ admission' = [admission EXCEPT ![DbOf[d]] = d]
    PROVE  OwnersHoldLock'
  <1> USE DaemonsAssumption DEF OwnersHoldLock
  <1>1. CASE label \notin Owning /\ admission' = Unadmitted(d)
    BY <1>1 DEF Unadmitted
  <1>2. CASE admission' = admission /\ (label \in Owning => pc[d] \in Owning)
    BY <1>2
  <1>3. CASE admission[DbOf[d]] = None /\ admission' = [admission EXCEPT ![DbOf[d]] = d]
    BY <1>3
  <1> QED
    BY <1>1, <1>2, <1>3

\* Every step of every process keeps the owners' locks: one case per action.
LEMMA OwnersStep ==
    ASSUME OwnersHoldLock, Next
    PROVE  OwnersHoldLock'
  <1>1. ASSUME NEW d \in Daemons, Step(d) \/ start_fails(d) \/ stop(d) \/ die(d)
        PROVE  OwnersHoldLock'
    <2>1. CASE open_pidfile(d)
      BY <2>1, OthersKeepLock DEF open_pidfile, Goto, Phases, Owning
    <2>2. CASE lock_pidfile(d)
      BY <2>2, OthersKeepLock DEF lock_pidfile, Goto, Phases, Owning
    <2>3. CASE acquire_database(d)
      BY <2>3, OthersKeepLock DEF acquire_database, Admissible, Goto, Phases, Owning
    <2>4. CASE probe_socket(d)
      BY <2>4, OthersKeepLock DEF probe_socket, Goto, Phases, Owning
    <2>5. CASE remove_stale(d)
      BY <2>5, OthersKeepLock DEF remove_stale, Goto, Phases, Owning
    <2>6. CASE bind_socket(d)
      BY <2>6, OthersKeepLock DEF bind_socket, Goto, Phases, Owning
    <2>7. CASE start_store(d)
      BY <2>7, OthersKeepLock DEF start_store, Goto, Phases, Owning
    <2>8. CASE abandon(d)
      BY <2>8, OthersKeepLock DEF abandon, Goto, Phases, Owning
    <2>9. CASE abandon_bound(d)
      BY <2>9, OthersKeepLock DEF abandon_bound, Goto, Phases, Owning
    <2>10. CASE abandon_pidfile(d)
      BY <2>10, OthersKeepLock DEF abandon_pidfile, Goto, Phases, Owning
    <2>11. CASE stop_store(d)
      BY <2>11, OthersKeepLock DEF stop_store, Goto, Phases, Owning
    <2>12. CASE remove_socket(d)
      BY <2>12, OthersKeepLock DEF remove_socket, Goto, Phases, Owning
    <2>13. CASE remove_pidfile(d)
      BY <2>13, OthersKeepLock DEF remove_pidfile, Goto, Phases, Owning
    <2>14. CASE close_pidfile(d)
      BY <2>14, OthersKeepLock DEF close_pidfile, Goto, Phases, Owning
    <2>15. CASE release_database(d)
      BY <2>15, OthersKeepLock DEF release_database, Goto, Phases, Owning
    <2>16. CASE start_fails(d)
      BY <2>16, OthersKeepLock DEF start_fails, Goto, Phases, Owning
    <2>17. CASE stop(d)
      BY <2>17, OthersKeepLock DEF stop, Goto, Phases, Owning
    <2>18. CASE die(d)
      BY <2>18, OthersKeepLock DEF die, Goto, Phases, Owning
    <2> QED
      BY <1>1, <2>1, <2>2, <2>3, <2>4, <2>5, <2>6, <2>7, <2>8, <2>9, <2>10, <2>11, <2>12,
         <2>13, <2>14, <2>15, <2>16, <2>17, <2>18 DEF Step
  <1>2. ASSUME NEW b \in Databases, migrate(b)
        PROVE  OwnersHoldLock'
    <2>1. /\ pc' = pc
          /\ \/ admission[b] \in {None, Migration} /\ admission' = [admission EXCEPT ![b] = Migration]
             \/ admission[b] \in {None, Migration} /\ admission' = [admission EXCEPT ![b] = None]
      BY <1>2 DEF migrate
    <2>2. \A d \in Daemons : admission[DbOf[d]] = d => DbOf[d] # b
      BY <2>1, DaemonsAssumption
    <2> QED
      BY <2>1, <2>2, DaemonsAssumption DEF OwnersHoldLock
  <1> QED
    BY <1>1, <1>2 DEF Next

\* DatabaseGuard keeps a database from being open in two daemons, or in a daemon while a
\* model change is cut over.
THEOREM OneOwner == Spec => []OneOwnerPerDatabase
  <1>1. Init => OwnersHoldLock
    BY DEF Init, OwnersHoldLock, Owning, Phases
  <1>2. OwnersHoldLock /\ [Next]_vars => OwnersHoldLock'
    <2>1. OwnersHoldLock /\ UNCHANGED vars => OwnersHoldLock'
      BY DEF OwnersHoldLock, vars
    <2> QED
      BY <2>1, OwnersStep
  <1>3. OwnersHoldLock => OneOwnerPerDatabase
    BY DaemonsAssumption DEF OwnersHoldLock, OneOwnerPerDatabase, StoreOpen, Owning
  <1> QED
    BY <1>1, <1>2, <1>3, PTL DEF Spec

-----------------------------------------------------------------------------
(* The socket *)

\* What the socket path leads to is a daemon only between its bind and the end of its
\* listener.
SocketListens ==
    /\ pc \in [Daemons -> Phases]
    /\ socket \in Daemons => pc[socket] \in {"bound", "serving"}

\* A process that moves leaves the socket's listener where it is, unless it is itself
\* the listener and says so: one case per action.
LEMMA SocketStep ==
    ASSUME SocketListens, Next
    PROVE  SocketListens'
  <1>1. ASSUME NEW d \in Daemons, Step(d) \/ start_fails(d) \/ stop(d) \/ die(d)
        PROVE  SocketListens'
    <2> USE <1>1, DaemonsAssumption DEF SocketListens, Goto, Phases
    <2>1. CASE open_pidfile(d)
      BY <2>1 DEF open_pidfile
    <2>2. CASE lock_pidfile(d)
      BY <2>2 DEF lock_pidfile
    <2>3. CASE acquire_database(d)
      BY <2>3 DEF acquire_database
    <2>4. CASE probe_socket(d)
      BY <2>4 DEF probe_socket
    <2>5. CASE remove_stale(d)
      BY <2>5 DEF remove_stale
    <2>6. CASE bind_socket(d)
      BY <2>6 DEF bind_socket
    <2>7. CASE start_store(d)
      BY <2>7 DEF start_store
    <2>8. CASE abandon(d)
      BY <2>8 DEF abandon
    <2>9. CASE abandon_bound(d)
      BY <2>9 DEF abandon_bound
    <2>10. CASE abandon_pidfile(d)
      BY <2>10 DEF abandon_pidfile
    <2>11. CASE stop_store(d)
      BY <2>11 DEF stop_store
    <2>12. CASE remove_socket(d)
      BY <2>12 DEF remove_socket
    <2>13. CASE remove_pidfile(d)
      BY <2>13 DEF remove_pidfile
    <2>14. CASE close_pidfile(d)
      BY <2>14 DEF close_pidfile
    <2>15. CASE release_database(d)
      BY <2>15 DEF release_database
    <2>16. CASE start_fails(d)
      BY <2>16 DEF start_fails, Unlistened
    <2>17. CASE stop(d)
      BY <2>17 DEF stop, Unlistened
    <2>18. CASE die(d)
      BY <2>18 DEF die, Unlistened
    <2> QED
      BY <2>1, <2>2, <2>3, <2>4, <2>5, <2>6, <2>7, <2>8, <2>9, <2>10, <2>11, <2>12,
         <2>13, <2>14, <2>15, <2>16, <2>17, <2>18 DEF Step
  <1>2. ASSUME NEW b \in Databases, migrate(b)
        PROVE  SocketListens'
    BY <1>2 DEF migrate, SocketListens
  <1> QED
    BY <1>1, <1>2 DEF Next

\* Daemons of one database: neither an orderly stop nor the removal of a socket found
\* dead unlinks the socket of a daemon that listens.  Both happen under the database's
\* admission lock, which the listener holds.  With two databases on one path nothing
\* keeps them apart, so the hypothesis is needed.
THEOREM SocketIsSafe ==
    ASSUME \A d, e \in Daemons : DbOf[d] = DbOf[e]
    PROVE  Spec => ListenerKeepsSocket
  <1> DEFINE Inv == OwnersHoldLock /\ SocketListens
             Spared == \A d \in Daemons :
                          remove_socket(d) \/ remove_stale(d) => socket \notin Daemons
  <1>1. Init => Inv
    BY DaemonsAssumption DEF Init, OwnersHoldLock, SocketListens, Owning, Phases
  <1>2. Inv /\ [Next]_vars => Inv'
    <2>1. Inv /\ UNCHANGED vars => Inv'
      BY DEF OwnersHoldLock, SocketListens, vars
    <2> QED
      BY <2>1, OwnersStep, SocketStep
  <1>3. Inv => Spared
    <2> SUFFICES ASSUME Inv, NEW d \in Daemons, remove_socket(d) \/ remove_stale(d),
                        socket \in Daemons
                 PROVE  FALSE
      OBVIOUS
    <2>1. pc[d] \in {"unlink", "stale"}
      BY DEF remove_socket, remove_stale
    <2>2. admission[DbOf[d]] = d
      BY <2>1 DEF OwnersHoldLock, Owning
    <2>3. pc[socket] \in {"bound", "serving"} /\ admission[DbOf[socket]] = socket
      BY DEF OwnersHoldLock, SocketListens, Owning
    <2> QED
      BY <2>1, <2>2, <2>3
  <1>4. Spec => [][Spared]_vars
    BY <1>1, <1>2, <1>3, PTL DEF Spec
  <1> QED
    BY <1>4 DEF ListenerKeepsSocket

-----------------------------------------------------------------------------
(* The installer: its invariant, what its list helpers keep and drop, its steps *)

\* Entries, settings files, the user's things and reports there may be
Entry == Versions \cup {"user"}
Lists == [Events -> Seq(Entry)]
Tools == (UNION UserAllows) \cup Managed
Settings == [parses : BOOLEAN, hooks : Shapes, groups : Lists, allow : SUBSET Tools]
Users == [groups : [Events -> Nat], notes : Nat, hooks : Shapes, allow : SUBSET Tools]
Sayings == {"none", "not_found", "configured", "removed", "failed", "died"}
Reports == [said : Sayings, by : Versions \cup {"absent"}]
RunPcs == Installing \cup Reversing \cup {"strip", "look", "check", "publish", "remove"}

\* The installer's process by where it is: an install goes on as a rollback when it fails.
RunByPc ==
    \/ run = NoRun
    \/ /\ run.kind \in {"install", "uninstall", "rollback"} /\ run.pc \in RunPcs
       /\ run.version \in Versions
       /\ run.pc \in Installing \cup {"check", "publish"} => run.kind # "uninstall"
       /\ run.pc \in Installing <=> run.kind = "install" /\ run.pc \notin {"look", "check", "publish"}
       /\ run.pc = "remove" => run.kind = "uninstall"

Runs == [kind : {"none", "install", "uninstall", "rollback"}, pc : RunPcs \cup {"idle"},
         version : Versions \cup {"absent"}, seen : Versions \cup {"absent", "user", "drifted"},
         edits : Nat, botched : BOOLEAN]

\* Types; a run reports as its version.
FilesTyped ==
    /\ settings \in Settings
    /\ skill \in Versions \cup {"absent"} /\ notes \in Seq(Entry)
    /\ asset \in Versions \cup {"absent", "user", "drifted"}

InstallTypes ==
    /\ FilesTyped
    /\ run \in Runs /\ RunByPc
    /\ report \in Reports /\ (run # NoRun => run.version = report.by)
    /\ user \in Users
    /\ spent \in [runs : Nat, faults : Nat, edits : Nat]

\* The parts of Gone
NoGroups == \A e \in Events : Ours(settings.groups[e]) = <<>>
NoAllow == settings.allow \cap AllowEntries[report.by] = {}
NoSkill == skill = "absent"
NoBlock == Ours(notes) = <<>>

\* What an uninstall that has reported nothing, or a rollback that has not failed, has
\* already taken away.
Clearing ==
    /\ run.kind = "uninstall" /\ report.said = "none" =>
           /\ run.pc \in Reversing => NoGroups
           /\ run.pc \in {"un_file", "un_block"} => NoAllow
           /\ run.pc = "un_block" => NoSkill
    /\ run.kind = "rollback" /\ ~run.botched =>
           /\ run.pc \in {"un_file", "un_block", "strip", "look"} => NoAllow
           /\ run.pc \in {"un_block", "strip", "look"} => NoSkill
           /\ run.pc \in {"strip", "look"} => NoBlock
           /\ run.pc = "look" => NoGroups
    /\ run.kind = "install" => report.said \in {"none", "not_found", "configured"}
    /\ report.said = "removed" => Gone /\ run.pc \notin Installing \cup Reversing \cup {"strip"}

\* What the installer has seen of the extension is so, unless the user edited since.
SeenIsSo ==
    run.pc \in {"check", "publish", "remove"} =>
        /\ Replaceable(run.seen) /\ run.edits <= spent.edits
        /\ run.edits = spent.edits => StateOf(asset) = StateOf(run.seen)

\* The inductive invariant
InstallInv == InstallTypes /\ UserContentKept /\ Clearing /\ SeenIsSo

\* A set of numbers has a least one.
LEMMA Least ==
    ASSUME NEW E \in SUBSET Nat, E # {}
    PROVE  \E x \in E : \A y \in E : x <= y
<1>1. \E x \in E : \A y \in E : <<y, x>> \notin OpToRel(<, Nat)
  BY NatLessThanWellFounded, WFMin
<1>2. \A x, y \in E : <<y, x>> \notin OpToRel(<, Nat) => x <= y
  BY DEF OpToRel
<1>3. QED BY <1>1, <1>2

\* f has the entries of each prefix of s that are in S, up to the one of length n.
Kept(f, n, s, S, U) ==
    /\ f \in [0 .. n -> Seq(U)] /\ f[0] = <<>>
    /\ \A k \in 1 .. n : f[k] = IF s[k] \in S THEN Append(f[k - 1], s[k]) ELSE f[k - 1]

\* There is such a function for every prefix: the shortest one without would have one.
LEMMA KeptExists ==
    ASSUME NEW T, NEW s \in Seq(T), NEW S, NEW U, U = T \cap S
    PROVE  \A n \in 0 .. Len(s) : \E f : Kept(f, n, s, S, U)
<1> DEFINE Bad == {n \in 0 .. Len(s) : ~ \E f : Kept(f, n, s, S, U)}
<1> SUFFICES ASSUME Bad # {} PROVE FALSE
  OBVIOUS
<1>0. Len(s) \in Nat /\ DOMAIN s = 1 .. Len(s)
  OBVIOUS
<1>1. PICK m \in Bad : \A y \in Bad : m <= y
  <2>1. Bad \in SUBSET Nat
    BY <1>0
  <2> HIDE DEF Bad
  <2>2. QED BY <2>1, Least
<1>2. CASE m = 0
  <2>1. PICK f : f = [k \in 0 .. 0 |-> <<>>]
    OBVIOUS
  <2>2. f \in [0 .. 0 -> Seq(U)] /\ f[0] = <<>>
    BY <2>1
  <2>3. Kept(f, 0, s, S, U)
    BY <2>2 DEF Kept
  <2>4. QED BY <1>1, <1>2, <2>3
<1>3. CASE m # 0
  <2>1. /\ m \in Nat /\ m - 1 \in Nat /\ m \in 1 .. Len(s)
        /\ m - 1 \in 0 .. Len(s) /\ m - 1 \notin Bad
    <3>1. m \in 0 .. Len(s)
      BY <1>1
    <3>2. m \in Nat /\ m - 1 \in Nat /\ m \in 1 .. Len(s) /\ m - 1 \in 0 .. Len(s) /\ ~(m <= m - 1)
      BY <1>0, <1>3, <3>1
    <3>3. m - 1 \notin Bad
      <4> HIDE DEF Bad
      <4>1. QED BY <1>1, <3>2
    <3>4. QED BY <3>2, <3>3
  <2>2. PICK f : Kept(f, m - 1, s, S, U)
    BY <2>1
  <2>3. PICK last : last = IF s[m] \in S THEN Append(f[m - 1], s[m]) ELSE f[m - 1]
    OBVIOUS
  <2>4. f[m - 1] \in Seq(U) /\ s[m] \in T
    <3>1. s[m] \in T
      BY <2>1
    <3>2. f \in [0 .. m - 1 -> Seq(U)] /\ m - 1 \in 0 .. m - 1
      BY <2>1, <2>2 DEF Kept
    <3>3. QED BY <3>1, <3>2
  <2>5. last \in Seq(U)
    BY <2>3, <2>4
  <2>6. PICK g : g = [k \in 0 .. m |-> IF k = m THEN last ELSE f[k]]
    OBVIOUS
  <2>7. \A k \in 0 .. m - 1 : g[k] = f[k] /\ f[k] \in Seq(U)
    BY <2>1, <2>2, <2>6 DEF Kept
  <2>8. g \in [0 .. m -> Seq(U)] /\ g[m] = last
    <3>1. \A k \in 0 .. m : g[k] \in Seq(U)
      <4> TAKE k \in 0 .. m
      <4>1. CASE k = m
        BY <2>1, <2>5, <2>6, <4>1
      <4>2. CASE k # m
        <5>1. k \in 0 .. m - 1
          BY <2>1, <4>2
        <5>2. QED BY <2>7, <5>1
      <4>3. QED BY <4>1, <4>2
    <3>2. g[m] = last
      BY <2>1, <2>6
    <3>3. QED BY <2>6, <3>1, <3>2
  <2>9. \A k \in 1 .. m : g[k] = IF s[k] \in S THEN Append(g[k - 1], s[k]) ELSE g[k - 1]
    <3> TAKE k \in 1 .. m
    <3>1. CASE k = m
      <4>1. m - 1 \in 0 .. m - 1
        BY <2>1
      <4>2. g[m - 1] = f[m - 1]
        BY <2>7, <4>1
      <4>3. QED BY <2>3, <2>8, <3>1, <4>2
    <3>2. CASE k # m
      <4>1. k \in 1 .. m - 1 /\ k \in 0 .. m - 1 /\ k - 1 \in 0 .. m - 1
        BY <2>1, <3>2
      <4>2. f[k] = IF s[k] \in S THEN Append(f[k - 1], s[k]) ELSE f[k - 1]
        BY <2>2, <4>1 DEF Kept
      <4>3. QED BY <2>7, <4>1, <4>2
    <3>3. QED BY <3>1, <3>2
  <2>10. g[0] = <<>>
    <3>1. 0 \in 0 .. m - 1
      BY <2>1
    <3>2. QED BY <2>2, <2>7, <3>1 DEF Kept
  <2>11. Kept(g, m, s, S, U)
    BY <2>8, <2>9, <2>10 DEF Kept
  <2>12. QED BY <1>1, <2>11
<1>4. QED BY <1>2, <1>3

\* Only computes the last of these.
LEMMA OnlyIsKept ==
    ASSUME NEW T, NEW s \in Seq(T), NEW S, NEW U, U = T \cap S
    PROVE  \E f : Kept(f, Len(s), s, S, U) /\ Only(s, S) = f[Len(s)]
<1> DEFINE Body(f, n) == IF n = 0 THEN <<>>
                         ELSE IF s[n] \in S THEN Append(f[n - 1], s[n]) ELSE f[n - 1]
           kept == CHOOSE f : f = [n \in 0 .. Len(s) |-> Body(f, n)]
<1>1. Only(s, S) = kept[Len(s)]
  BY DEF Only
<1>2. Len(s) \in Nat
  OBVIOUS
<1>3. PICK f : Kept(f, Len(s), s, S, U)
  <2>1. Len(s) \in 0 .. Len(s)
    BY <1>2
  <2>2. QED BY <2>1, KeptExists
<1>4. f = [n \in 0 .. Len(s) |-> Body(f, n)]
  <2>1. \A n \in 0 .. Len(s) : f[n] = Body(f, n)
    <3> TAKE n \in 0 .. Len(s)
    <3>1. CASE n = 0
      BY <1>3, <3>1 DEF Kept
    <3>2. CASE n # 0
      <4>1. n \in 1 .. Len(s)
        BY <1>2, <3>2
      <4>2. QED BY <1>3, <3>2, <4>1 DEF Kept
    <3>3. QED BY <3>1, <3>2
  <2>2. f = [n \in 0 .. Len(s) |-> f[n]]
    BY <1>3 DEF Kept
  <2>3. QED BY <2>1, <2>2
<1>5. kept = [n \in 0 .. Len(s) |-> Body(kept, n)]
  BY <1>4
<1> HIDE DEF kept
<1>6. \A n \in 0 .. Len(s) : kept[n] = Body(kept, n)
  BY <1>5
<1>7. \A n \in 0 .. Len(s) : kept[n] = f[n]
  <2> DEFINE Bad == {n \in 0 .. Len(s) : kept[n] # f[n]}
  <2> SUFFICES ASSUME Bad # {} PROVE FALSE
    OBVIOUS
  <2>1. PICK m \in Bad : \A y \in Bad : m <= y
    <3>1. Bad \in SUBSET Nat
      BY <1>2
    <3> HIDE DEF Bad
    <3>2. QED BY <3>1, Least
  <2>2. m # 0
    BY <1>2, <1>3, <1>6, <2>1 DEF Kept
  <2>3. m \in 1 .. Len(s) /\ m - 1 \in 0 .. Len(s) /\ m - 1 \notin Bad
    BY <1>2, <2>1, <2>2
  <2>4. kept[m - 1] = f[m - 1]
    BY <2>3
  <2>5. kept[m] = IF s[m] \in S THEN Append(kept[m - 1], s[m]) ELSE kept[m - 1]
    BY <1>6, <2>2, <2>3
  <2>6. f[m] = IF s[m] \in S THEN Append(f[m - 1], s[m]) ELSE f[m - 1]
    BY <1>3, <2>3 DEF Kept
  <2>7. QED BY <2>1, <2>4, <2>5, <2>6
<1>8. QED BY <1>1, <1>2, <1>3, <1>7

\* Where the entries of s that are in S stand
Places(s, S) == {i \in DOMAIN s : s[i] \in S}

\* The places in a sequence are finitely many.
LEMMA PlacesFinite ==
    ASSUME NEW T, NEW s \in Seq(T), NEW S
    PROVE  IsFiniteSet(Places(s, S)) /\ Cardinality(Places(s, S)) \in Nat
<1>1. IsFiniteSet(1 .. Len(s))
  BY FS_Interval
<1>2. Places(s, S) \subseteq 1 .. Len(s)
  BY DEF Places
<1>3. QED BY <1>1, <1>2, FS_Subset, FS_CardinalityType

\* Only keeps nothing else and loses nothing.
LEMMA OnlyCounts ==
    ASSUME NEW T, NEW s \in Seq(T), NEW S
    PROVE  Only(s, S) \in Seq(T \cap S) /\ Len(Only(s, S)) = Cardinality(Places(s, S))
<1> PICK U : U = T \cap S
  OBVIOUS
<1>1. PICK f : Kept(f, Len(s), s, S, U) /\ Only(s, S) = f[Len(s)]
  BY OnlyIsKept
<1>2. Len(s) \in Nat /\ DOMAIN s = 1 .. Len(s)
  OBVIOUS
<1>3. \A n \in 0 .. Len(s) : f[n] \in Seq(U)
  BY <1>1, <1>2 DEF Kept
<1> DEFINE Upto(n) == {i \in 1 .. n : s[i] \in S}
<1>4. \A n \in 0 .. Len(s) : Len(f[n]) = Cardinality(Upto(n))
  <2> DEFINE Bad == {n \in 0 .. Len(s) : Len(f[n]) # Cardinality(Upto(n))}
  <2> SUFFICES ASSUME Bad # {} PROVE FALSE
    OBVIOUS
  <2>1. PICK m \in Bad : \A y \in Bad : m <= y
    <3>1. Bad \in SUBSET Nat
      BY <1>2
    <3> HIDE DEF Bad
    <3>2. QED BY <3>1, Least
  <2>2. m # 0
    <3>1. Upto(0) = {} /\ f[0] = <<>>
      BY <1>1 DEF Kept
    <3>2. Len(f[0]) = Cardinality(Upto(0))
      BY <3>1, FS_EmptySet
    <3>3. QED BY <2>1, <3>2
  <2>3. m \in 1 .. Len(s) /\ m - 1 \in 0 .. Len(s) /\ m - 1 \notin Bad
    BY <1>2, <2>1, <2>2
  <2>4. Len(f[m - 1]) = Cardinality(Upto(m - 1))
    BY <2>3
  <2>5. f[m] = IF s[m] \in S THEN Append(f[m - 1], s[m]) ELSE f[m - 1]
    BY <1>1, <2>3 DEF Kept
  <2>6. IsFiniteSet(Upto(m - 1)) /\ Cardinality(Upto(m - 1)) \in Nat /\ m \notin Upto(m - 1)
    <3>1. IsFiniteSet(1 .. m - 1)
      BY <2>3, FS_Interval
    <3>2. QED BY <2>3, <3>1, FS_Subset, FS_CardinalityType
  <2>7. CASE s[m] \in S
    <3>1. Upto(m) = Upto(m - 1) \cup {m}
      BY <2>3, <2>7
    <3>2. Cardinality(Upto(m)) = Cardinality(Upto(m - 1)) + 1
      BY <2>6, <3>1, FS_AddElement
    <3>3. Len(f[m]) = Len(f[m - 1]) + 1
      BY <1>3, <2>3, <2>5, <2>7
    <3>4. QED BY <2>1, <2>4, <3>2, <3>3
  <2>8. CASE s[m] \notin S
    <3>1. Upto(m) = Upto(m - 1)
      BY <2>3, <2>8
    <3>2. QED BY <2>1, <2>4, <2>5, <2>8, <3>1
  <2>9. QED BY <2>7, <2>8
<1>5. Upto(Len(s)) = Places(s, S)
  BY <1>2 DEF Places
<1>6. QED BY <1>1, <1>2, <1>3, <1>4, <1>5

\* The user's mark is nobody's version.
LEMMA UserIsNotOurs == "user" \notin Versions /\ "absent" \notin Versions /\ "drifted" \notin Versions
  BY InstallerAssumption

\* Ours and Theirs as counts of places
LEMMA Counts ==
    ASSUME NEW s \in Seq(Entry)
    PROVE  /\ Theirs(s) \in Seq({"user"}) /\ Len(Theirs(s)) = Cardinality(Places(s, {"user"}))
           /\ Len(Ours(s)) = Cardinality(Places(s, Versions))
           /\ Ours(s) = <<>> <=> Places(s, Versions) = {}
<1>1. Theirs(s) \in Seq(Entry \cap {"user"}) /\ Len(Theirs(s)) = Cardinality(Places(s, {"user"}))
  BY OnlyCounts DEF Theirs
<1>2. Entry \cap {"user"} = {"user"}
  BY DEF Entry
<1>3. Ours(s) \in Seq(Entry \cap Versions) /\ Len(Ours(s)) = Cardinality(Places(s, Versions))
  BY OnlyCounts DEF Ours
<1>4. Ours(s) = <<>> <=> Len(Ours(s)) = 0
  BY <1>3
<1>5. Cardinality(Places(s, Versions)) = 0 <=> Places(s, Versions) = {}
  BY PlacesFinite, FS_EmptySet
<1>6. QED BY <1>1, <1>2, <1>3, <1>4, <1>5

\* An entry added at the end counts for its owner.
LEMMA Appended ==
    ASSUME NEW s \in Seq(Entry), NEW x \in Entry
    PROVE  /\ Append(s, x) \in Seq(Entry)
           /\ Len(Theirs(Append(s, x))) = IF x = "user" THEN Len(Theirs(s)) + 1 ELSE Len(Theirs(s))
           /\ Len(Ours(Append(s, x))) = IF x = "user" THEN Len(Ours(s)) ELSE Len(Ours(s)) + 1
           /\ x = "user" => (Ours(Append(s, x)) = <<>> <=> Ours(s) = <<>>)
<1> PICK t : t = Append(s, x)
  OBVIOUS
<1>1. t \in Seq(Entry) /\ Len(s) \in Nat /\ DOMAIN s = 1 .. Len(s) /\ DOMAIN t = 1 .. Len(s) + 1
  OBVIOUS
<1>2. t[Len(s) + 1] = x /\ \A i \in 1 .. Len(s) : t[i] = s[i]
  OBVIOUS
<1>3. ASSUME NEW S
      PROVE  /\ x \notin S => Places(t, S) = Places(s, S)
             /\ x \in S => Cardinality(Places(t, S)) = Cardinality(Places(s, S)) + 1
  <2>1. x \notin S => Places(t, S) = Places(s, S)
    BY <1>1, <1>2 DEF Places
  <2>2. x \in S => Places(t, S) = Places(s, S) \cup {Len(s) + 1}
    BY <1>1, <1>2 DEF Places
  <2>3. Len(s) + 1 \notin Places(s, S)
    BY <1>1 DEF Places
  <2>4. QED BY <2>1, <2>2, <2>3, PlacesFinite, FS_AddElement
<1>4. x = "user" <=> x \notin Versions
  BY UserIsNotOurs DEF Entry
<1>5. /\ Len(Theirs(t)) = Cardinality(Places(t, {"user"}))
      /\ Len(Theirs(s)) = Cardinality(Places(s, {"user"}))
      /\ Len(Ours(t)) = Cardinality(Places(t, Versions))
      /\ Len(Ours(s)) = Cardinality(Places(s, Versions))
      /\ Ours(t) = <<>> <=> Places(t, Versions) = {}
      /\ Ours(s) = <<>> <=> Places(s, Versions) = {}
  BY <1>1, Counts
<1>6. CASE x = "user"
  BY <1>1, <1>3, <1>4, <1>5, <1>6
<1>7. CASE x # "user"
  BY <1>1, <1>3, <1>4, <1>5, <1>7
<1>8. QED BY <1>6, <1>7

\* strip_sentinel leaves the user's groups, all of them, and none of ours.
LEMMA StrippedKeeps ==
    ASSUME NEW s \in Seq(Entry)
    PROVE  /\ Theirs(s) \in Seq(Entry)
           /\ Len(Theirs(Theirs(s))) = Len(Theirs(s))
           /\ Ours(Theirs(s)) = <<>> /\ Len(Ours(Theirs(s))) = 0
<1> PICK t : t = Theirs(s)
  OBVIOUS
<1>1. t \in Seq({"user"})
  BY Counts
<1>2. t \in Seq(Entry) /\ Len(t) \in Nat /\ DOMAIN t = 1 .. Len(t)
  BY <1>1 DEF Entry
<1>3. \A i \in 1 .. Len(t) : t[i] = "user"
  BY <1>1
<1>4. Places(t, {"user"}) = 1 .. Len(t) /\ Places(t, Versions) = {}
  BY <1>2, <1>3, UserIsNotOurs DEF Places
<1>5. Cardinality(1 .. Len(t)) = Len(t)
  <2>1. 1 \in Int /\ Len(t) \in Int
    BY <1>2
  <2>2. Cardinality(1 .. Len(t)) = IF 1 > Len(t) THEN 0 ELSE Len(t) - 1 + 1
    BY <2>1, FS_Interval
  <2>3. QED BY <1>2, <2>2
<1>6. /\ Len(Theirs(t)) = Cardinality(Places(t, {"user"}))
      /\ Len(Ours(t)) = Cardinality(Places(t, Versions))
      /\ Ours(t) = <<>> <=> Places(t, Versions) = {}
  BY <1>2, Counts
<1>7. QED BY <1>2, <1>4, <1>5, <1>6, FS_EmptySet

\* merge_value leaves the user's groups and one of ours.
LEMMA MergedKeeps ==
    ASSUME NEW s \in Seq(Entry), NEW v \in Versions
    PROVE  /\ Merged(s, v) \in Seq(Entry)
           /\ Len(Theirs(Merged(s, v))) = Len(Theirs(s))
           /\ Len(Ours(Merged(s, v))) = 1
<1>1. v \in Entry /\ v # "user"
  BY UserIsNotOurs DEF Entry
<1>2. PICK t : t = Theirs(s)
  OBVIOUS
<1>3. t \in Seq(Entry) /\ Len(Theirs(t)) = Len(Theirs(s)) /\ Len(Ours(t)) = 0
  BY <1>2, StrippedKeeps
<1>4. Merged(s, v) = Append(t, v)
  BY <1>2 DEF Merged
<1>5. /\ Append(t, v) \in Seq(Entry) /\ Len(Theirs(Append(t, v))) = Len(Theirs(t))
      /\ Len(Ours(Append(t, v))) = Len(Ours(t)) + 1
  BY <1>1, <1>3, Appended
<1>6. QED BY <1>3, <1>4, <1>5

\* ensure_text_block leaves the user's paragraphs and one block of ours.
LEMMA WithBlockKeeps ==
    ASSUME NEW s \in Seq(Entry), NEW v \in Versions, Len(Ours(s)) <= 1
    PROVE  /\ WithBlock(s, v) \in Seq(Entry)
           /\ Len(Theirs(WithBlock(s, v))) = Len(Theirs(s))
           /\ Len(Ours(WithBlock(s, v))) <= 1
<1>1. v \in Entry /\ v # "user"
  BY UserIsNotOurs DEF Entry
<1>2. CASE Ours(s) = <<>>
  <2>1. WithBlock(s, v) = Append(s, v) /\ Len(Ours(s)) = 0
    BY <1>2 DEF WithBlock
  <2>2. QED BY <1>1, <2>1, Appended
<1>3. CASE Ours(s) # <<>>
  <2> DEFINE first(i) == s[i] \in Versions /\ \A j \in 1 .. i - 1 : s[j] \notin Versions
  <2>1. PICK t : t = [i \in DOMAIN s |-> IF first(i) THEN v ELSE s[i]]
    OBVIOUS
  <2>2. WithBlock(s, v) = t
    BY <1>3, <2>1 DEF WithBlock
  <2>3. DOMAIN s = 1 .. Len(s) /\ Len(s) \in Nat /\ \A i \in DOMAIN s : s[i] \in Entry
    OBVIOUS
  <2>4. \A i \in DOMAIN s : t[i] = s[i] \/ (s[i] \in Versions /\ t[i] = v)
    BY <2>1
  <2>5. DOMAIN t = DOMAIN s /\ \A i \in DOMAIN t : t[i] \in Entry
    BY <1>1, <2>1, <2>3, <2>4
  <2>6. t \in Seq(Entry)
    <3>1. t \in [1 .. Len(s) -> Entry]
      BY <2>1, <2>3, <2>5
    <3>2. QED BY ONLY <2>3, <3>1
  <2>7. Places(t, {"user"}) = Places(s, {"user"}) /\ Places(t, Versions) = Places(s, Versions)
    BY <1>1, <2>4, <2>5, UserIsNotOurs DEF Places
  <2>8. Len(Theirs(t)) = Len(Theirs(s)) /\ Len(Ours(t)) = Len(Ours(s))
    BY <2>6, <2>7, Counts
  <2>9. QED BY <2>2, <2>6, <2>8
<1>4. QED BY <1>2, <1>3

\* Removing one place
LEMMA Removed ==
    ASSUME NEW s \in Seq(Entry), NEW i \in DOMAIN s, NEW S
    PROVE  /\ RemoveAt(s, i) \in Seq(Entry)
           /\ Cardinality(Places(RemoveAt(s, i), S)) = Cardinality(Places(s, S) \ {i})
<1> PICK t : t = RemoveAt(s, i)
  OBVIOUS
<1>1. DOMAIN s = 1 .. Len(s) /\ Len(s) \in Nat /\ i \in 1 .. Len(s) /\ i \in Nat
  OBVIOUS
<1>2. PICK a, b : a = SubSeq(s, 1, i - 1) /\ b = SubSeq(s, i + 1, Len(s))
  OBVIOUS
<1>3. /\ a \in Seq(Entry) /\ Len(a) = i - 1 /\ \A k \in 1 .. i - 1 : a[k] = s[k]
  BY <1>1, <1>2
<1>4. /\ b \in Seq(Entry) /\ Len(b) = Len(s) - i /\ \A k \in 1 .. Len(s) - i : b[k] = s[i + k]
  BY <1>1, <1>2
<1>5. t = a \o b
  BY <1>2 DEF RemoveAt
<1>6. t \in Seq(Entry) /\ Len(t) = Len(s) - 1 /\ DOMAIN t = 1 .. Len(s) - 1
  <2>1. a \o b \in Seq(Entry) /\ Len(a \o b) = Len(a) + Len(b)
    <3>1. a \in Seq(Entry) /\ b \in Seq(Entry)
      BY <1>3, <1>4
    <3>2. QED BY ONLY <3>1
  <2>2. Len(t) = Len(s) - 1
    BY <1>1, <1>3, <1>4, <1>5, <2>1
  <2>3. QED BY <1>5, <2>1, <2>2
<1>7. \A k \in 1 .. Len(s) - 1 : t[k] = IF k < i THEN s[k] ELSE s[k + 1]
  <2> TAKE k \in 1 .. Len(s) - 1
  <2>1. CASE k < i
    <3>1. k \in 1 .. Len(a)
      BY <1>1, <1>3, <2>1
    <3>2. a \in Seq(Entry) /\ b \in Seq(Entry)
      BY <1>3, <1>4
    <3>3. (a \o b)[k] = a[k]
      BY ONLY <3>1, <3>2
    <3>4. QED BY <1>3, <1>5, <2>1, <3>1, <3>3
  <2>2. CASE ~(k < i)
    <3>1. k - (i - 1) \in 1 .. Len(s) - i /\ i + (k - (i - 1)) = k + 1
      BY <1>1, <2>2
    <3>2. t[k] = b[k - (i - 1)]
      <4>1. k \in Len(a) + 1 .. Len(a) + Len(b)
        BY <1>1, <1>3, <1>4, <2>2
      <4>2. a \in Seq(Entry) /\ b \in Seq(Entry)
        BY <1>3, <1>4
      <4>3. (a \o b)[k] = b[k - Len(a)]
        BY ONLY <4>1, <4>2
      <4>4. QED BY <1>3, <1>5, <4>3
    <3>3. QED BY <1>4, <2>2, <3>1, <3>2
  <2>3. QED BY <2>1, <2>2
<1> DEFINE A == Places(s, S) \ {i}
           B == Places(t, S)
           g == [k \in A |-> IF k < i THEN k ELSE k - 1]
<1>8. g \in [A -> B]
  <2>1. \A k \in A : g[k] \in B
    BY <1>1, <1>6, <1>7 DEF Places
  <2>2. QED BY <2>1
<1>9. \A k, l \in A : g[k] = g[l] => k = l
  BY <1>1 DEF Places
<1>10. \A k \in B : \E l \in A : g[l] = k
  <2> TAKE k \in B
  <2>1. k \in 1 .. Len(s) - 1 /\ t[k] \in S
    BY <1>6 DEF Places
  <2>2. CASE k < i
    <3>1. k \in A /\ g[k] = k
      BY <1>1, <1>7, <2>1, <2>2 DEF Places
    <3>2. QED BY <3>1
  <2>3. CASE ~(k < i)
    <3>1. k + 1 \in A
      BY <1>1, <1>7, <2>1, <2>3 DEF Places
    <3>2. g[k + 1] = k
      BY <1>1, <2>1, <2>3, <3>1
    <3>3. QED BY <3>1, <3>2
  <2>4. QED BY <2>2, <2>3
<1>11. IsFiniteSet(A)
  BY PlacesFinite, FS_RemoveElement
<1> HIDE DEF A, B, g
<1>12. ExistsBijection(A, B)
  BY <1>8, <1>9, <1>10 DEF ExistsBijection, Bijection, Injection, Surjection, IsInjective
<1>13. QED BY <1>6, <1>11, <1>12, FS_Bijection DEF A, B

\* remove_text_block leaves the user's paragraphs, and nothing of the one block there was.
LEMMA BlockRemoved ==
    ASSUME NEW s \in Seq(Entry), Len(Ours(s)) <= 1, Ours(s) # <<>>,
           NEW i, i = CHOOSE k \in DOMAIN s :
                          s[k] \in Versions /\ \A j \in 1 .. k - 1 : s[j] \notin Versions
    PROVE  /\ RemoveAt(s, i) \in Seq(Entry)
           /\ Len(Theirs(RemoveAt(s, i))) = Len(Theirs(s))
           /\ Ours(RemoveAt(s, i)) = <<>> /\ Len(Ours(RemoveAt(s, i))) = 0
<1> PICK t : t = RemoveAt(s, i)
  OBVIOUS
<1>1. DOMAIN s = 1 .. Len(s) /\ Len(s) \in Nat
  OBVIOUS
<1>2. \E k \in DOMAIN s : s[k] \in Versions /\ \A j \in 1 .. k - 1 : s[j] \notin Versions
  <2>1. Places(s, Versions) # {} /\ Places(s, Versions) \in SUBSET Nat
    <3>1. Places(s, Versions) # {}
      BY Counts
    <3>2. Places(s, Versions) \subseteq 1 .. Len(s)
      BY <1>1 DEF Places
    <3>3. QED BY <1>1, <3>1, <3>2
  <2>2. PICK k \in Places(s, Versions) : \A y \in Places(s, Versions) : k <= y
    BY <2>1, Least
  <2>3. k \in DOMAIN s /\ s[k] \in Versions
    BY DEF Places
  <2>4. \A j \in 1 .. k - 1 : s[j] \notin Versions
    <3>1. \A j \in 1 .. k - 1 : j \in DOMAIN s /\ ~(k <= j)
      BY <1>1, <2>3
    <3>2. QED BY <2>2, <3>1 DEF Places
  <2>5. QED BY <2>3, <2>4
<1>3. i \in DOMAIN s /\ s[i] \in Versions
  BY <1>2
<1>4. t \in Seq(Entry) /\ \A S : Cardinality(Places(t, S)) = Cardinality(Places(s, S) \ {i})
  BY <1>3, Removed
<1>5. Places(s, {"user"}) \ {i} = Places(s, {"user"})
  BY <1>3, UserIsNotOurs DEF Places
<1>6. i \in Places(s, Versions)
  BY <1>3 DEF Places
<1>7. /\ Cardinality(Places(s, Versions) \ {i}) = Cardinality(Places(s, Versions)) - 1
      /\ IsFiniteSet(Places(s, Versions) \ {i})
  BY <1>6, PlacesFinite, FS_RemoveElement
<1>8. Cardinality(Places(s, Versions) \ {i}) = 0
  <2>1. Cardinality(Places(s, Versions)) \in Nat /\ Cardinality(Places(s, Versions)) <= 1
    BY PlacesFinite, Counts
  <2>2. Cardinality(Places(s, Versions) \ {i}) \in Nat
    BY <1>7, FS_CardinalityType
  <2>3. QED BY <1>7, <2>1, <2>2
<1>9. Places(t, Versions) = {}
  BY <1>4, <1>8, PlacesFinite, FS_EmptySet
<1>10. QED BY <1>4, <1>5, <1>9, Counts, FS_EmptySet

\* The process between two runs
LEMMA NoRunFacts ==
    /\ NoRun \in Runs /\ NoRun.kind = "none" /\ NoRun.pc = "idle" /\ NoRun.version = "absent"
    /\ NoRun.seen = "absent" /\ NoRun.edits = 0 /\ NoRun.botched = FALSE
  BY DEF NoRun, Runs

\* A process that only moves on
LEMMA Moved ==
    ASSUME run \in Runs, NEW x \in RunPcs, Move(x)
    PROVE  /\ run' \in Runs /\ run'.pc = x /\ run'.kind = run.kind /\ run'.version = run.version
           /\ run'.seen = run.seen /\ run'.edits = run.edits /\ run'.botched = run.botched
<1>1. run' = [run EXCEPT !.pc = x]
  BY DEF Move
<1>2. QED BY <1>1 DEF Runs

\* Settings with one part replaced
LEMMA Rewritten ==
    ASSUME settings \in Settings
    PROVE  /\ \A g \in Lists :
                 LET new == [settings EXCEPT !.groups = g]
                 IN /\ new \in Settings /\ new.groups = g /\ new.allow = settings.allow
                    /\ new.hooks = settings.hooks
           /\ \A g \in Lists :
                 LET new == [settings EXCEPT !.hooks = "lists", !.groups = g]
                 IN /\ new \in Settings /\ new.groups = g /\ new.allow = settings.allow
                    /\ new.hooks = "lists"
           /\ \A a \in SUBSET Tools :
                 LET new == [settings EXCEPT !.allow = a]
                 IN /\ new \in Settings /\ new.allow = a /\ new.groups = settings.groups
                    /\ new.hooks = settings.hooks
           /\ LET new == [settings EXCEPT !.parses = ~@]
              IN /\ new \in Settings /\ new.allow = settings.allow
                 /\ new.groups = settings.groups /\ new.hooks = settings.hooks
<1>1. ASSUME NEW g \in Lists
      PROVE  LET new == [settings EXCEPT !.groups = g]
             IN /\ new \in Settings /\ new.groups = g /\ new.allow = settings.allow
                /\ new.hooks = settings.hooks
  BY DEF Settings
<1>2. ASSUME NEW g \in Lists
      PROVE  LET new == [settings EXCEPT !.hooks = "lists", !.groups = g]
             IN /\ new \in Settings /\ new.groups = g /\ new.allow = settings.allow
                /\ new.hooks = "lists"
  BY DEF Settings, Shapes
<1>3. ASSUME NEW a \in SUBSET Tools
      PROVE  LET new == [settings EXCEPT !.allow = a]
             IN /\ new \in Settings /\ new.allow = a /\ new.groups = settings.groups
                /\ new.hooks = settings.hooks
  BY DEF Settings
<1>4. LET new == [settings EXCEPT !.parses = ~@]
      IN /\ new \in Settings /\ new.allow = settings.allow
         /\ new.groups = settings.groups /\ new.hooks = settings.hooks
  BY DEF Settings
<1>5. QED BY <1>1, <1>2, <1>3, <1>4

\* A report that says something else
LEMMA Said ==
    ASSUME report \in Reports, NEW x \in Sayings, Say(x)
    PROVE  report' \in Reports /\ report'.said = x /\ report'.by = report.by
<1>1. report' = [report EXCEPT !.said = x]
  BY DEF Say
<1>2. QED BY <1>1 DEF Reports

\* A run that is not over is an install, an uninstall or a rollback, by where it is.
LEMMA RunFacts ==
    ASSUME InstallTypes
    PROVE  /\ run \in Runs /\ RunByPc
           /\ run.pc \in Installing => run.kind = "install" /\ run.version \in Versions
           /\ run.pc \in Reversing \cup {"strip"} =>
                  run.kind \in {"uninstall", "rollback"} /\ run.version \in Versions
           /\ run.pc \in RunPcs => run.version \in Versions /\ run.kind # "none"
<1>1. run \in Runs /\ RunByPc
  BY DEF InstallTypes
<1>2. run = NoRun => run.pc \notin RunPcs
  BY NoRunFacts DEF RunPcs, Installing, Reversing
<1>3. QED BY <1>1, <1>2 DEF RunByPc, RunPcs, Installing, Reversing

-----------------------------------------------------------------------------
(* What the files' writes keep, whether or not the directory is synced after them *)

LEMMA MergesKeep ==
    ASSUME FilesTyped, UserContentKept, run.version \in Versions, Merges, UNCHANGED user
    PROVE  FilesTyped' /\ UserContentKept'
<1>1. settings \in Settings /\ settings.groups \in Lists
  BY DEF FilesTyped, Settings
<1>2. UNCHANGED <<skill, notes, asset, user>> /\ settings' = merge_value(settings, run.version)
  BY DEF Merges
<1>3. CASE settings.hooks = "container"
  BY <1>2, <1>3 DEF merge_value, FilesTyped, UserContentKept
<1>4. CASE settings.hooks # "container"
  <2>1. PICK g : g = [e \in Events |-> IF e \in Fragment[run.version]
                                       THEN Merged(settings.groups[e], run.version)
                                       ELSE settings.groups[e]]
    OBVIOUS
  <2>2. ASSUME NEW e \in Events
        PROVE  /\ g[e] \in Seq(Entry) /\ Len(Theirs(g[e])) = user.groups[e]
               /\ Len(Ours(g[e])) <= 1
    <3>1. /\ settings.groups[e] \in Seq(Entry) /\ Len(Theirs(settings.groups[e])) = user.groups[e]
          /\ Len(Ours(settings.groups[e])) <= 1
      BY <1>1 DEF Lists, UserContentKept
    <3>2. CASE e \in Fragment[run.version]
      <4>1. g[e] = Merged(settings.groups[e], run.version)
        BY <2>1, <3>2
      <4>2. PICK m : m = Merged(settings.groups[e], run.version)
        OBVIOUS
      <4>3. m \in Seq(Entry) /\ Len(Theirs(m)) = Len(Theirs(settings.groups[e])) /\ Len(Ours(m)) = 1
        BY <3>1, <4>2, MergedKeeps
      <4>4. Len(Ours(m)) <= 1
        BY <4>3
      <4>5. QED BY <3>1, <4>1, <4>2, <4>3, <4>4
    <3>3. CASE e \notin Fragment[run.version]
      <4>1. g[e] = settings.groups[e]
        BY <2>1, <3>3
      <4>2. QED BY <3>1, <4>1
    <3>4. QED BY <3>2, <3>3
  <2>3. g \in Lists
    BY <2>1, <2>2 DEF Lists
  <2>4. settings' = [settings EXCEPT !.hooks = "lists", !.groups = g]
    BY <1>2, <1>4, <2>1 DEF merge_value
  <2>5. /\ settings' \in Settings /\ settings'.groups = g /\ settings'.allow = settings.allow
    BY <1>1, <2>3, <2>4, Rewritten
  <2>6. FilesTyped'
    BY <1>2, <2>5 DEF FilesTyped
  <2>7. UserContentKept'
    <3>1. user.hooks # "container"
      BY <1>4 DEF UserContentKept
    <3>2. QED BY <1>2, <2>2, <2>5, <3>1 DEF UserContentKept
  <2>8. QED BY <2>6, <2>7
<1>5. QED BY <1>3, <1>4

LEMMA AllowsKeep ==
    ASSUME FilesTyped, UserContentKept, run.version \in Versions, Allows \/ Disallows, UNCHANGED user
    PROVE  /\ FilesTyped' /\ UserContentKept' /\ settings'.groups = settings.groups
           /\ Disallows => settings'.allow = settings.allow \ AllowEntries[run.version]
<1>1. settings \in Settings /\ settings.allow \in SUBSET Tools
  BY DEF FilesTyped, Settings
<1>2. AllowEntries[run.version] \subseteq Managed /\ Managed \subseteq Tools
  <2>1. AllowEntries[run.version] \in {AllowEntries[v] : v \in Versions}
    OBVIOUS
  <2>2. \A x \in AllowEntries[run.version] : x \in Managed
    BY <2>1 DEF Managed
  <2>3. Managed \subseteq Tools
    BY DEF Tools
  <2>4. QED BY <2>2, <2>3
<1>3. PICK a \in {settings.allow \cup AllowEntries[run.version],
                  settings.allow \ AllowEntries[run.version]} :
          /\ settings' = [settings EXCEPT !.allow = a] /\ UNCHANGED <<skill, notes, asset, user>>
          /\ Disallows => a = settings.allow \ AllowEntries[run.version]
  BY DEF Allows, Disallows, At
<1>4. a \in SUBSET Tools
  BY <1>1, <1>2
<1>5. /\ settings' \in Settings /\ settings'.groups = settings.groups
      /\ settings'.hooks = settings.hooks /\ settings'.allow = a
  BY <1>1, <1>3, <1>4, Rewritten
<1>6. user.allow \ Managed \subseteq a
  BY <1>2 DEF UserContentKept
<1>7. FilesTyped'
  BY <1>3, <1>5 DEF FilesTyped
<1>8. UserContentKept'
  BY <1>3, <1>5, <1>6 DEF UserContentKept
<1>9. QED BY <1>3, <1>5, <1>7, <1>8

LEMMA StripsKeep ==
    ASSUME FilesTyped, UserContentKept, Strips, UNCHANGED user
    PROVE  /\ FilesTyped' /\ UserContentKept'
           /\ settings'.allow = settings.allow /\ NoGroups'
<1>1. settings \in Settings /\ settings.groups \in Lists
  BY DEF FilesTyped, Settings
<1>2. PICK g : g = Stripped(settings.groups)
  OBVIOUS
<1>3. UNCHANGED <<skill, notes, asset, user>> /\ settings' = [settings EXCEPT !.groups = g]
  BY <1>2 DEF Strips
<1>4. ASSUME NEW e \in Events
      PROVE  /\ g[e] \in Seq(Entry) /\ Len(Theirs(g[e])) = user.groups[e]
             /\ Len(Ours(g[e])) <= 1 /\ Ours(g[e]) = <<>>
  <2>1. settings.groups[e] \in Seq(Entry) /\ Len(Theirs(settings.groups[e])) = user.groups[e]
    BY <1>1 DEF Lists, UserContentKept
  <2>2. g[e] = Theirs(settings.groups[e])
    BY <1>2 DEF Stripped
  <2>3. PICK m : m = Theirs(settings.groups[e])
    OBVIOUS
  <2>4. m \in Seq(Entry) /\ Len(Theirs(m)) = Len(m) /\ Ours(m) = <<>> /\ Len(Ours(m)) = 0
    BY <2>1, <2>3, StrippedKeeps
  <2>5. Len(Ours(m)) <= 1
    BY <2>4
  <2>6. QED BY <2>1, <2>2, <2>3, <2>4, <2>5
<1>5. g \in Lists
  BY <1>2, <1>4 DEF Lists, Stripped
<1>6. /\ settings' \in Settings /\ settings'.groups = g /\ settings'.allow = settings.allow
      /\ settings'.hooks = settings.hooks
  BY <1>1, <1>3, <1>5, Rewritten
<1>7. FilesTyped'
  BY <1>3, <1>6 DEF FilesTyped
<1>8. UserContentKept'
  BY <1>3, <1>4, <1>6 DEF UserContentKept
<1>9. QED BY <1>4, <1>6, <1>7, <1>8 DEF NoGroups

LEMMA BlocksKeep ==
    ASSUME FilesTyped, UserContentKept, run.version \in Versions, PutsBlock \/ DropsBlock,
           UNCHANGED user
    PROVE  FilesTyped' /\ UserContentKept' /\ (DropsBlock => NoBlock')
<1>1. notes \in Seq(Entry) /\ Len(Theirs(notes)) = user.notes /\ Len(Ours(notes)) <= 1
  BY DEF FilesTyped, UserContentKept
<1>2. UNCHANGED <<settings, skill, asset, user>>
  BY DEF PutsBlock, DropsBlock
<1>3. /\ notes' \in Seq(Entry) /\ Len(Theirs(notes')) = user.notes /\ Len(Ours(notes')) <= 1
      /\ DropsBlock => Ours(notes') = <<>>
  <2>1. CASE PutsBlock
    <3>1. notes' = WithBlock(notes, run.version) /\ ~DropsBlock
      BY <2>1 DEF PutsBlock, DropsBlock, At
    <3>2. QED BY <1>1, <3>1, WithBlockKeeps
  <2>2. CASE DropsBlock
    <3>1. CASE Ours(notes) = <<>>
      <4>1. notes' = notes
        BY <2>2, <3>1 DEF DropsBlock
      <4>2. QED BY <1>1, <3>1, <4>1
    <3>2. CASE Ours(notes) # <<>>
      BY <1>1, <2>2, <3>2, BlockRemoved DEF DropsBlock
    <3>3. QED BY <3>1, <3>2
  <2>3. QED BY <2>1, <2>2
<1>4. FilesTyped'
  BY <1>2, <1>3 DEF FilesTyped
<1>5. UserContentKept'
  BY <1>2, <1>3 DEF UserContentKept
<1>6. QED BY <1>3, <1>4, <1>5 DEF NoBlock

\* Whatever was renamed into place, and the skill file's coming and going
LEMMA RenamedKeeps ==
    ASSUME FilesTyped, UserContentKept, run.version \in Versions, UNCHANGED user,
           Renamed \/ remove_managed_file
    PROVE  FilesTyped' /\ UserContentKept'
<1>1. CASE PutsFile \/ remove_managed_file
  <2>1. skill' \in Versions \cup {"absent"} /\ UNCHANGED <<settings, notes, asset, user>>
    BY <1>1 DEF PutsFile, remove_managed_file
  <2>2. QED BY <2>1 DEF FilesTyped, UserContentKept
<1>2. QED BY <1>1, MergesKeep, AllowsKeep, StripsKeep, BlocksKeep DEF Renamed

\* A step of the run that moves on to x
LEMMA MovesOn ==
    ASSUME InstallTypes, NEW x \in RunPcs, Move(x), run.pc \in RunPcs,
           run.kind = "install" => x \in Installing \cup {"look", "check", "publish"},
           x \in Installing \cup {"check", "publish"} => run.kind # "uninstall",
           x \in Installing => run.kind = "install",
           x # "remove"
    PROVE  run' \in Runs /\ RunByPc'
<1>1. /\ run' \in Runs /\ run'.pc = x /\ run'.kind = run.kind /\ run'.version = run.version
  BY RunFacts, Moved
<1>2. run.kind \in {"install", "uninstall", "rollback"} /\ run.version \in Versions
  BY RunFacts DEF Runs
<1>3. RunByPc'
  BY <1>1, <1>2 DEF RunByPc, Installing
<1>4. QED BY <1>1, <1>3

\* Every step keeps the files' types and the user's content: one case per action that
\* writes a file.
LEMMA FilesStep ==
    ASSUME InstallTypes, UserContentKept, [InstallNext]_installvars
    PROVE  FilesTyped' /\ UserContentKept'
<1>1. FilesTyped /\ user \in Users
  BY DEF InstallTypes
<1>2. settings \in Settings /\ settings.groups \in Lists /\ notes \in Seq(Entry)
  BY <1>1 DEF FilesTyped, Settings
<1>3. "user" \in Entry
  BY DEF Entry
<1>4. UNCHANGED <<files, user>> => FilesTyped' /\ UserContentKept'
  BY <1>1 DEF files, FilesTyped, UserContentKept
<1>5. ASSUME Renamed \/ remove_managed_file, UNCHANGED user PROVE FilesTyped' /\ UserContentKept'
  <2>1. run.pc \in Installing \cup Reversing \cup {"strip"}
    BY <1>5 DEF Renamed, Merges, Allows, PutsFile, PutsBlock, Strips, Disallows, DropsBlock,
                remove_managed_file, At, Installing, Reversing
  <2>2. run.version \in Versions
    BY <2>1, RunFacts
  <2>3. QED BY <1>1, <1>5, <2>2, RenamedKeeps
<1>6. ASSUME \/ merge_into_file \/ ensure_allow_entries \/ write_managed_file
             \/ ensure_text_block \/ uninstall_file \/ remove_allow_entries
             \/ remove_managed_file \/ remove_text_block
      PROVE  FilesTyped' /\ UserContentKept'
  <2>1. Renamed \/ remove_managed_file
    BY <1>6 DEF merge_into_file, ensure_allow_entries, write_managed_file, ensure_text_block,
                uninstall_file, remove_allow_entries, remove_text_block, Renamed
  <2>2. UNCHANGED user
    BY <1>6 DEF merge_into_file, ensure_allow_entries, write_managed_file, ensure_text_block,
                uninstall_file, remove_allow_entries, remove_managed_file, remove_text_block
  <2>3. QED BY <1>5, <2>1, <2>2
<1>7. ASSUME fail PROVE FilesTyped' /\ UserContentKept'
  BY <1>4, <1>5, <1>7 DEF fail
<1>8. ASSUME publish \/ remove \/ asset_fails \/ edit_asset PROVE FilesTyped' /\ UserContentKept'
  <2>1. UNCHANGED <<settings, skill, notes, user>>
    BY <1>8 DEF publish, Published, remove, asset_fails, edit_asset, files
  <2>2. asset' \in Versions \cup {"absent", "user", "drifted"}
    <3>1. At("publish") => run.version \in Versions
      BY RunFacts DEF At, RunPcs
    <3>2. asset \in Versions \cup {"absent", "user", "drifted"}
      BY <1>1 DEF FilesTyped
    <3>3. QED BY <1>8, <3>1, <3>2 DEF publish, Published, remove, asset_fails, edit_asset, files
  <2>3. QED BY <1>1, <2>1, <2>2 DEF FilesTyped, UserContentKept
<1>9. ASSUME NEW e \in Events, add_hook(e) PROVE FilesTyped' /\ UserContentKept'
  <2>1. settings.groups[e] \in Seq(Entry)
    BY <1>2 DEF Lists
  <2>2. PICK a : a = Append(settings.groups[e], "user")
    OBVIOUS
  <2>3. a \in Seq(Entry) /\ Len(Theirs(a)) = Len(Theirs(settings.groups[e])) + 1
        /\ Len(Ours(a)) = Len(Ours(settings.groups[e]))
    BY <1>3, <2>1, <2>2, Appended
  <2>4. PICK g : g = [settings.groups EXCEPT ![e] = a]
    OBVIOUS
  <2>5. g \in Lists /\ g[e] = a /\ \A x \in Events \ {e} : g[x] = settings.groups[x]
    BY <1>2, <2>3, <2>4 DEF Lists
  <2>6. settings' = [settings EXCEPT !.groups = g] /\ UNCHANGED <<skill, notes, asset>>
    BY <1>9, <2>2, <2>4 DEF add_hook
  <2>7. /\ settings' \in Settings /\ settings'.groups = g /\ settings'.allow = settings.allow
        /\ settings'.hooks = settings.hooks
    BY <1>2, <2>5, <2>6, Rewritten
  <2>8. /\ user'.groups[e] = user.groups[e] + 1 /\ \A x \in Events \ {e} : user'.groups[x] = user.groups[x]
        /\ user'.notes = user.notes /\ user'.hooks = user.hooks /\ user'.allow = user.allow
    BY <1>1, <1>9 DEF add_hook, Users
  <2>9. FilesTyped'
    BY <1>1, <2>6, <2>7 DEF FilesTyped
  <2>10. /\ Len(Theirs(settings.groups[e])) = user.groups[e] /\ Len(Ours(settings.groups[e])) <= 1
         /\ \A x \in Events \ {e} : Len(Theirs(settings.groups[x])) = user.groups[x]
                                    /\ Len(Ours(settings.groups[x])) <= 1
    BY DEF UserContentKept
  <2>11. \A x \in Events : Len(Theirs(g[x])) = user'.groups[x] /\ Len(Ours(g[x])) <= 1
    <3>1. Len(Theirs(a)) = user'.groups[e] /\ Len(Ours(a)) <= 1
      BY <2>3, <2>8, <2>10
    <3>2. QED BY <2>5, <2>8, <2>10, <3>1
  <2>12. UserContentKept'
    <3>1. /\ Len(Theirs(notes)) = user.notes /\ Len(Ours(notes)) <= 1
          /\ user.hooks = "container" => settings.hooks = "container"
          /\ user.allow \ Managed \subseteq settings.allow
      BY DEF UserContentKept
    <3>2. UNCHANGED notes
      BY <2>6
    <3>3. QED BY <2>7, <2>8, <2>11, <3>1, <3>2 DEF UserContentKept
  <2>13. QED BY <2>9, <2>12
<1>10. ASSUME break_settings PROVE FilesTyped' /\ UserContentKept'
  <2>1. /\ settings' \in Settings /\ settings'.groups = settings.groups
        /\ settings'.allow = settings.allow /\ settings'.hooks = settings.hooks
    BY <1>2, <1>10, Rewritten DEF break_settings
  <2>2. UNCHANGED <<skill, notes, asset, user>>
    BY <1>10 DEF break_settings
  <2>3. QED BY <1>1, <2>1, <2>2 DEF FilesTyped, UserContentKept
<1>11. ASSUME add_note PROVE FilesTyped' /\ UserContentKept'
  <2>1. /\ notes' \in Seq(Entry) /\ Len(Theirs(notes')) = Len(Theirs(notes)) + 1
        /\ Len(Ours(notes')) = Len(Ours(notes))
    BY <1>2, <1>3, <1>11, Appended DEF add_note
  <2>2. /\ user'.notes = user.notes + 1 /\ user'.groups = user.groups
        /\ user'.hooks = user.hooks /\ user'.allow = user.allow
        /\ UNCHANGED <<settings, skill, asset>>
    BY <1>1, <1>11 DEF add_note, Users
  <2>3. FilesTyped'
    BY <1>1, <2>1, <2>2 DEF FilesTyped
  <2>4. UserContentKept'
    BY <2>1, <2>2 DEF UserContentKept
  <2>5. QED BY <2>3, <2>4
<1>12. ASSUME NEW kind, NEW v, start(kind, v) PROVE UNCHANGED <<files, user>>
  BY <1>12 DEF start
<1>13. not_found \/ look \/ check \/ killed => UNCHANGED <<files, user>>
  BY DEF not_found, look, check, killed
<1>14. UNCHANGED installvars => UNCHANGED <<files, user>>
  BY DEF installvars, files
<1>15. QED
  BY <1>4, <1>6, <1>7, <1>8, <1>9, <1>10, <1>11, <1>12, <1>13, <1>14 DEF InstallNext, Helpers

\* What the run becomes, and that it goes on reporting as its version
LEMMA RunStep ==
    ASSUME InstallTypes, [InstallNext]_installvars
    PROVE  /\ run' \in Runs /\ RunByPc' /\ report' \in Reports
           /\ run' # NoRun => run'.version = report'.by
<1>1. run \in Runs /\ RunByPc /\ report \in Reports /\ (run # NoRun => run.version = report.by)
  BY DEF InstallTypes
<1> DEFINE Run == /\ run' \in Runs /\ RunByPc' /\ report' \in Reports
                  /\ run' # NoRun => run'.version = report'.by
           Told == report' \in Reports /\ report'.by = report.by
<1>2. SUFFICES Run
  OBVIOUS
<1>3. run' = NoRun /\ report' \in Reports => Run
  BY NoRunFacts DEF RunByPc
<1>4. UNCHANGED <<run, report>> => Run
  BY <1>1 DEF RunByPc
<1>5. run.pc \in RunPcs => run # NoRun
  BY NoRunFacts DEF RunPcs, Installing, Reversing
<1>6. ASSUME NEW x \in Sayings, Say(x) PROVE Told
  BY <1>1, <1>6, Said
<1>7. UNCHANGED report => Told
  BY <1>1
<1>8. ASSUME NEW x \in RunPcs, Move(x), run.pc \in RunPcs, Told, run' \in Runs /\ RunByPc' PROVE Run
  <2>1. run'.version = run.version
    BY <1>1, <1>8, Moved
  <2>2. QED BY <1>1, <1>5, <1>8, <2>1
<1> HIDE DEF Run, Told
<1>10. ASSUME NEW kind \in {"install", "uninstall"}, NEW v \in Versions, start(kind, v)
       PROVE  Run
  <2>1. PICK x : x = IF kind = "install" THEN "merge" ELSE "strip"
    OBVIOUS
  <2>2. run' = [NoRun EXCEPT !.kind = kind, !.version = v, !.pc = x]
    BY <1>10, <2>1 DEF start
  <2>3. /\ run' \in Runs /\ run'.kind = kind /\ run'.version = v /\ run'.pc = x
    BY <2>1, <2>2 DEF Runs, NoRun, RunPcs, Installing
  <2>4. RunByPc'
    BY <2>1, <2>3 DEF RunByPc, RunPcs, Installing
  <2>5. report' \in Reports /\ report'.by = v
    BY <1>10 DEF start, Reports, Sayings
  <2>6. QED BY <2>3, <2>4, <2>5 DEF Run
<1>11. ASSUME not_found PROVE Run
  <2>1. CASE At("merge") /\ Move("look") /\ Say("not_found")
    <3>1. run.pc = "merge" /\ run.kind = "install"
      BY <2>1, RunFacts DEF At, Installing
    <3>2. run' \in Runs /\ RunByPc'
      BY <2>1, <3>1, MovesOn DEF RunPcs, Installing
    <3>3. Told
      BY <1>6, <2>1 DEF Sayings
    <3>4. QED BY <1>8, <2>1, <3>1, <3>2, <3>3 DEF RunPcs, Installing
  <2>2. CASE run' = NoRun /\ UNCHANGED report
    BY <1>1, <1>3, <2>2
  <2>3. QED BY <1>11, <2>1, <2>2 DEF not_found
<1>12. ASSUME merge_into_file PROVE Run
  <2>1. run.pc = "merge" /\ Move("allow") /\ run.kind = "install" /\ UNCHANGED report
    BY <1>12, RunFacts DEF merge_into_file, Merges, At, Installing
  <2>2. run' \in Runs /\ RunByPc'
    BY <2>1, MovesOn DEF RunPcs, Installing
  <2>3. QED BY <1>7, <1>8, <2>1, <2>2 DEF RunPcs, Installing
<1>13. ASSUME ensure_allow_entries PROVE Run
  <2>1. run.pc = "allow" /\ Move("file") /\ run.kind = "install" /\ UNCHANGED report
    BY <1>13, RunFacts DEF ensure_allow_entries, Allows, At, Installing
  <2>2. run' \in Runs /\ RunByPc'
    BY <2>1, MovesOn DEF RunPcs, Installing
  <2>3. QED BY <1>7, <1>8, <2>1, <2>2 DEF RunPcs, Installing
<1>14. ASSUME write_managed_file PROVE Run
  <2>1. run.pc = "file" /\ Move("block") /\ run.kind = "install" /\ UNCHANGED report
    BY <1>14, RunFacts DEF write_managed_file, PutsFile, At, Installing
  <2>2. run' \in Runs /\ RunByPc'
    BY <2>1, MovesOn DEF RunPcs, Installing
  <2>3. QED BY <1>7, <1>8, <2>1, <2>2 DEF RunPcs, Installing
<1>15. ASSUME ensure_text_block PROVE Run
  <2>1. run.pc = "block" /\ Move("look") /\ run.kind = "install" /\ Say("configured")
    BY <1>15, RunFacts DEF ensure_text_block, PutsBlock, At, Installing
  <2>2. run' \in Runs /\ RunByPc'
    BY <2>1, MovesOn DEF RunPcs, Installing
  <2>3. Told
    BY <1>6, <2>1 DEF Sayings
  <2>4. QED BY <1>8, <2>1, <2>2, <2>3 DEF RunPcs, Installing
<1>16. ASSUME uninstall_file PROVE Run
  <2>1. run.pc = "strip" /\ Move(AfterStrip) /\ run.kind \in {"uninstall", "rollback"} /\ UNCHANGED report
    BY <1>16, RunFacts DEF uninstall_file, Strips, At
  <2>2. AfterStrip \in RunPcs
    BY DEF AfterStrip, RunPcs, Reversing
  <2>3. run' \in Runs /\ RunByPc'
    BY <2>1, MovesOn DEF RunPcs, AfterStrip, Installing, Reversing
  <2>4. QED BY <1>7, <1>8, <2>1, <2>2, <2>3 DEF RunPcs
<1>17. ASSUME remove_allow_entries PROVE Run
  <2>1. run.pc = "un_allow" /\ Move("un_file") /\ run.kind \in {"uninstall", "rollback"} /\ UNCHANGED report
    BY <1>17, RunFacts DEF remove_allow_entries, Disallows, At, Reversing
  <2>2. run' \in Runs /\ RunByPc'
    BY <2>1, MovesOn DEF RunPcs, Installing, Reversing
  <2>3. QED BY <1>7, <1>8, <2>1, <2>2 DEF RunPcs, Reversing
<1>18. ASSUME remove_managed_file PROVE Run
  <2>1. run.pc = "un_file" /\ Move("un_block") /\ run.kind \in {"uninstall", "rollback"} /\ UNCHANGED report
    BY <1>18, RunFacts DEF remove_managed_file, At, Reversing
  <2>2. run' \in Runs /\ RunByPc'
    BY <2>1, MovesOn DEF RunPcs, Installing, Reversing
  <2>3. QED BY <1>7, <1>8, <2>1, <2>2 DEF RunPcs, Reversing
<1>19. ASSUME remove_text_block PROVE Run
  <2>1. run.pc = "un_block" /\ Move(AfterReverse) /\ run.kind \in {"uninstall", "rollback"}
    BY <1>19, RunFacts DEF remove_text_block, DropsBlock, At, Reversing
  <2>2. run' \in Runs /\ RunByPc'
    BY <2>1, MovesOn DEF RunPcs, AfterReverse, Installing, Reversing
  <2>3. PICK x : x = (IF run.kind = "uninstall" THEN Outcome ELSE report.said)
    OBVIOUS
  <2>4. x \in Sayings /\ Say(x)
    BY <1>1, <1>19, <2>3 DEF remove_text_block, Outcome, Reports, Sayings
  <2>5. Told
    BY <1>6, <2>4
  <2>6. AfterReverse \in RunPcs /\ run.pc \in RunPcs
    BY <2>1 DEF AfterReverse, RunPcs, Reversing
  <2>7. QED BY <1>8, <2>1, <2>2, <2>5, <2>6
<1>20. ASSUME fail PROVE Run
  <2>1. Told
    BY <1>6, <1>20 DEF fail, Sayings
  <2>2. run.pc \in RunPcs
    BY <1>20 DEF fail, RunPcs
  <2>3. CASE run.pc \in Installing
    <3>1. run' = [run EXCEPT !.kind = "rollback", !.pc = "un_allow"]
      BY <1>20, <2>3 DEF fail, OnError
    <3>2. run' \in Runs /\ run'.kind = "rollback" /\ run'.pc = "un_allow" /\ run'.version = run.version
      BY <1>1, <3>1 DEF Runs, RunPcs, Reversing
    <3>3. RunByPc'
      BY <2>3, <3>2, RunFacts DEF RunByPc, RunPcs, Installing, Reversing
    <3>4. QED BY <1>1, <1>5, <2>1, <2>2, <3>2, <3>3 DEF Run, Told
  <2>4. CASE run.pc \notin Installing
    <3>1. PICK x : x = IF run.pc \in Reversing THEN AfterReverse ELSE AfterStrip
      OBVIOUS
    <3>2. run' = [run EXCEPT !.pc = x, !.botched = TRUE]
      BY <1>20, <2>4, <3>1 DEF fail, OnError
    <3>3. x \in Reversing \cup {"strip", "look"}
      BY <3>1 DEF AfterReverse, AfterStrip, Reversing
    <3>4. run' \in Runs /\ run'.kind = run.kind /\ run'.pc = x /\ run'.version = run.version
      BY <1>1, <3>2, <3>3 DEF Runs, RunPcs
    <3>5. run.kind \in {"uninstall", "rollback"} /\ run.version \in Versions
      BY <1>20, <2>4, RunFacts DEF fail
    <3>6. RunByPc'
      BY <3>3, <3>4, <3>5 DEF RunByPc, RunPcs, Installing, Reversing
    <3>7. QED BY <1>1, <1>5, <2>1, <2>2, <3>4, <3>6 DEF Run, Told
  <2>5. QED BY <2>3, <2>4
<1>21. ASSUME look PROVE Run
  <2>0. UNCHANGED report /\ run.pc \in RunPcs
    BY <1>21 DEF look, At, RunPcs
  <2>1. CASE Replaceable(asset)
    <3>1. PICK x : x = IF run.kind = "uninstall" THEN "remove" ELSE "check"
      OBVIOUS
    <3>2. run' = [run EXCEPT !.pc = x, !.seen = asset, !.edits = spent.edits]
      BY <1>21, <2>1, <3>1 DEF look
    <3>3. spent.edits \in Nat /\ asset \in Versions \cup {"absent", "user", "drifted"}
      BY DEF InstallTypes, FilesTyped
    <3>4. run' \in Runs /\ run'.kind = run.kind /\ run'.pc = x /\ run'.version = run.version
      BY <1>1, <3>1, <3>2, <3>3 DEF Runs, RunPcs
    <3>5. run.kind \in {"install", "uninstall", "rollback"} /\ run.version \in Versions
      BY <1>1, <2>0, RunFacts DEF Runs
    <3>6. RunByPc'
      BY <3>1, <3>4, <3>5 DEF RunByPc, RunPcs, Installing
    <3>7. QED BY <1>1, <1>5, <2>0, <3>4, <3>6 DEF Run
  <2>2. QED BY <1>1, <1>3, <1>21, <2>0, <2>1 DEF look
<1>22. ASSUME check PROVE Run
  <2>0. UNCHANGED report /\ run.pc \in RunPcs
    BY <1>22 DEF check, At, RunPcs
  <2>1. CASE Unchanged
    <3>1. run' = [run EXCEPT !.pc = "publish", !.edits = spent.edits]
      BY <1>22, <2>1 DEF check
    <3>2. spent.edits \in Nat
      BY DEF InstallTypes
    <3>3. run' \in Runs /\ run'.kind = run.kind /\ run'.pc = "publish" /\ run'.version = run.version
      BY <1>1, <3>1, <3>2 DEF Runs, RunPcs
    <3>4. run.pc = "check" /\ run.kind # "uninstall" /\ run.kind \in {"install", "uninstall", "rollback"}
      BY <1>1, <1>22, NoRunFacts DEF check, At, RunByPc
    <3>5. run.version \in Versions
      BY <2>0, RunFacts
    <3>6. RunByPc'
      BY <3>3, <3>4, <3>5 DEF RunByPc, RunPcs, Installing
    <3>7. QED BY <1>1, <1>5, <2>0, <3>3, <3>6 DEF Run
  <2>2. QED BY <1>1, <1>3, <1>22, <2>0, <2>1 DEF check
<1>23. ASSUME publish \/ remove \/ asset_fails PROVE Run
  BY <1>1, <1>3, <1>23 DEF publish, remove, asset_fails
<1>24. ASSUME killed PROVE Run
  <2>1. Told
    BY <1>6, <1>24 DEF killed, Sayings
  <2>2. QED BY <1>3, <1>24, <2>1 DEF killed, Told
<1>25. ASSUME \/ \E e \in Events : add_hook(e)
              \/ break_settings \/ add_note \/ edit_asset \/ UNCHANGED installvars
       PROVE  Run
  BY <1>4, <1>25 DEF add_hook, break_settings, add_note, edit_asset, installvars
<1>26. QED
  BY <1>10, <1>11, <1>12, <1>13, <1>14, <1>15, <1>16, <1>17, <1>18, <1>19, <1>20, <1>21, <1>22,
     <1>23, <1>24, <1>25 DEF InstallNext, Helpers

\* The bounds and the user's history stay what they are.
LEMMA InstallTypesStep ==
    ASSUME InstallTypes, UserContentKept, [InstallNext]_installvars
    PROVE  InstallTypes'
<1>1. user \in Users /\ spent \in [runs : Nat, faults : Nat, edits : Nat]
  BY DEF InstallTypes
<1>2. \/ UNCHANGED spent
      \/ spent' \in {[spent EXCEPT !.runs = @ + 1], [spent EXCEPT !.faults = @ + 1],
                     [spent EXCEPT !.edits = @ + 1]}
  BY DEF InstallNext, Helpers, installvars, start, not_found, merge_into_file,
     ensure_allow_entries, write_managed_file, ensure_text_block, uninstall_file,
     remove_allow_entries, remove_managed_file, remove_text_block, look, check, publish, remove,
     fail, asset_fails, killed, add_hook, break_settings, add_note, edit_asset, Edits
<1>3. spent' \in [runs : Nat, faults : Nat, edits : Nat]
  BY <1>1, <1>2
<1>4. \/ UNCHANGED user
      \/ \E e \in Events : user' = [user EXCEPT !.groups[e] = @ + 1]
      \/ user' = [user EXCEPT !.notes = @ + 1]
  BY DEF InstallNext, Helpers, installvars, start, not_found, merge_into_file,
     ensure_allow_entries, write_managed_file, ensure_text_block, uninstall_file,
     remove_allow_entries, remove_managed_file, remove_text_block, look, check, publish, remove,
     fail, asset_fails, killed, add_hook, break_settings, add_note, edit_asset
<1>5. user' \in Users
  BY <1>1, <1>4 DEF Users
<1>6. QED BY <1>3, <1>5, FilesStep, RunStep DEF InstallTypes

\* The extension as it was seen stays so until the user edits.
LEMMA SeenStep ==
    ASSUME InstallTypes, SeenIsSo, [InstallNext]_installvars
    PROVE  SeenIsSo'
<1>1. run \in Runs /\ spent \in [runs : Nat, faults : Nat, edits : Nat] /\ run.edits \in Nat /\ spent.edits \in Nat
  BY DEF InstallTypes, Runs
<1> DEFINE Elsewhere == run'.pc \notin {"check", "publish", "remove"}
<1>2. Elsewhere => SeenIsSo'
  BY DEF SeenIsSo
<1>3. run' = NoRun => Elsewhere
  BY NoRunFacts
<1>4. ASSUME NEW kind \in {"install", "uninstall"}, NEW v \in Versions, start(kind, v)
      PROVE  SeenIsSo'
  <2>1. PICK x : /\ run' = [NoRun EXCEPT !.kind = kind, !.version = v, !.pc = x]
                 /\ x \in {"merge", "strip"}
    BY <1>4 DEF start
  <2>2. run'.pc = x
    BY <2>1 DEF NoRun
  <2>3. QED BY <1>2, <2>1, <2>2
<1>5. ASSUME \/ not_found \/ merge_into_file \/ ensure_allow_entries \/ write_managed_file
             \/ ensure_text_block \/ uninstall_file \/ remove_allow_entries \/ remove_managed_file
             \/ remove_text_block
      PROVE  SeenIsSo'
  <2>1. \/ run' = NoRun
        \/ \E x \in Installing \cup Reversing \cup {"strip", "look"} : Move(x)
    BY <1>5 DEF not_found, merge_into_file, ensure_allow_entries, write_managed_file,
       ensure_text_block, uninstall_file, remove_allow_entries, remove_managed_file,
       remove_text_block, AfterStrip, AfterReverse, Installing, Reversing
  <2>2. ASSUME NEW x \in Installing \cup Reversing \cup {"strip", "look"}, Move(x) PROVE Elsewhere
    <3>1. run'.pc = x
      BY <1>1, <2>2, Moved DEF RunPcs
    <3>2. QED BY <3>1 DEF Installing, Reversing
  <2>3. QED BY <1>2, <1>3, <2>1, <2>2
<1>6. ASSUME fail PROVE SeenIsSo'
  <2>1. run'.pc \in Reversing \cup {"strip", "look"}
    <3>1. PICK x \in Reversing \cup {"strip", "look"} :
              \/ run' = [run EXCEPT !.kind = "rollback", !.pc = x]
              \/ run' = [run EXCEPT !.pc = x, !.botched = TRUE]
      BY <1>6 DEF fail, OnError, AfterReverse, AfterStrip, Reversing
    <3>2. run'.pc = x
      BY <1>1, <3>1 DEF Runs
    <3>3. QED BY <3>2
  <2>2. QED BY <1>2, <2>1 DEF Reversing
<1>7. ASSUME look PROVE SeenIsSo'
  <2>1. CASE Replaceable(asset)
    <3>1. PICK x : run' = [run EXCEPT !.pc = x, !.seen = asset, !.edits = spent.edits]
      BY <1>7, <2>1 DEF look
    <3>2. run'.seen = asset /\ run'.edits = spent.edits
      BY <1>1, <3>1 DEF Runs
    <3>3. UNCHANGED <<asset, spent>>
      BY <1>7 DEF look, files
    <3>4. QED BY <1>1, <2>1, <3>2, <3>3 DEF SeenIsSo, Replaceable
  <2>2. QED BY <1>2, <1>3, <1>7, <2>1 DEF look
<1>8. ASSUME check PROVE SeenIsSo'
  <2>1. CASE Unchanged
    <3>1. run' = [run EXCEPT !.pc = "publish", !.edits = spent.edits]
      BY <1>8, <2>1 DEF check
    <3>2. run'.seen = run.seen /\ run'.edits = spent.edits
      BY <1>1, <3>1 DEF Runs
    <3>3. UNCHANGED <<asset, spent>>
      BY <1>8 DEF check, files
    <3>4. Replaceable(run.seen)
      BY <1>8 DEF check, At, SeenIsSo
    <3>5. QED BY <1>1, <2>1, <3>2, <3>3, <3>4 DEF SeenIsSo, Replaceable, Unchanged, StateOf
  <2>2. QED BY <1>2, <1>3, <1>8, <2>1 DEF check
<1>9. ASSUME publish \/ remove \/ asset_fails \/ killed PROVE SeenIsSo'
  BY <1>2, <1>3, <1>9 DEF publish, remove, asset_fails, killed
<1>10. ASSUME \/ \E e \in Events : add_hook(e)
              \/ break_settings \/ add_note \/ edit_asset
       PROVE  SeenIsSo'
  <2>1. spent' = [spent EXCEPT !.edits = @ + 1] /\ UNCHANGED run
    BY <1>10 DEF add_hook, break_settings, add_note, edit_asset, Edits
  <2>2. spent'.edits = spent.edits + 1
    BY <1>1, <2>1
  <2>3. QED BY <1>1, <2>1, <2>2 DEF SeenIsSo, Replaceable
<1>11. ASSUME UNCHANGED installvars PROVE SeenIsSo'
  BY <1>11 DEF installvars, SeenIsSo, Replaceable, StateOf
<1>12. QED
  BY <1>4, <1>5, <1>6, <1>7, <1>8, <1>9, <1>10, <1>11 DEF InstallNext, Helpers

\* Nothing of ours comes back.
Cleaner == /\ NoGroups => NoGroups'
           /\ NoAllow => NoAllow'
           /\ NoSkill => NoSkill'
           /\ NoBlock => NoBlock'

\* Files that are not written stay as clean as they are.
LEMMA CleanerFiles == UNCHANGED <<settings, skill, notes>> /\ report'.by = report.by => Cleaner
  BY DEF Cleaner, NoGroups, NoAllow, NoSkill, NoBlock

\* Gone, part by part
LEMMA GoneParts == (Gone <=> NoGroups /\ NoAllow /\ NoSkill /\ NoBlock)
                   /\ (Gone' <=> NoGroups' /\ NoAllow' /\ NoSkill' /\ NoBlock')
  BY DEF Gone, NoGroups, NoAllow, NoSkill, NoBlock

\* A run that ends, or that goes on to the extension, with its files no less clean.
LEMMA ClearingEnds ==
    ASSUME Clearing, Cleaner, run'.pc \notin Installing \cup Reversing \cup {"strip", "look"},
           report'.said # "removed" \/ report'.said = report.said,
           run'.kind = "install" => report'.said \in {"none", "not_found", "configured"}
    PROVE  Clearing'
<1>1. report'.said = "removed" => Gone'
  BY GoneParts DEF Clearing, Cleaner
<1>2. QED BY <1>1 DEF Clearing, Reversing

\* What has been taken away stays away until a run is over: one case per action.
LEMMA ClearingStep ==
    ASSUME InstallTypes, UserContentKept, Clearing, [InstallNext]_installvars
    PROVE  Clearing'
<1>1. run \in Runs /\ FilesTyped /\ report \in Reports /\ report.said \in Sayings
  BY DEF InstallTypes, Reports
<1>2. run' = NoRun => run'.pc = "idle" /\ run'.kind = "none"
  BY NoRunFacts
<1>3. ASSUME NEW kind \in {"install", "uninstall"}, NEW v \in Versions, start(kind, v)
      PROVE  Clearing'
  <2>1. PICK x : /\ run' = [NoRun EXCEPT !.kind = kind, !.version = v, !.pc = x]
                 /\ x \in {"merge", "strip"}
    BY <1>3 DEF start
  <2>2. run'.pc = x /\ run'.kind = kind /\ report'.said = "none"
    BY <1>3, <2>1 DEF NoRun, start
  <2>3. QED BY <2>1, <2>2 DEF Clearing, Reversing
<1>4. ASSUME not_found PROVE Clearing'
  <2>1. CASE At("merge") /\ Move("look") /\ Say("not_found")
    <3>1. run.kind = "install"
      BY <2>1, RunFacts DEF At, Installing
    <3>2. run'.pc = "look" /\ run'.kind = "install"
      BY <1>1, <2>1, <3>1, Moved DEF RunPcs
    <3>3. report'.said = "not_found"
      BY <1>1, <2>1, Said DEF Sayings
    <3>4. QED BY <3>2, <3>3 DEF Clearing
  <2>2. CASE run' = NoRun /\ UNCHANGED report
    <3>1. Cleaner
      BY <1>4, <2>2, CleanerFiles DEF not_found, files
    <3>2. QED BY <1>2, <2>2, <3>1, ClearingEnds DEF Installing, Reversing
  <2>3. QED BY <1>4, <2>1, <2>2 DEF not_found
<1>5. ASSUME \/ merge_into_file \/ ensure_allow_entries \/ write_managed_file \/ ensure_text_block
      PROVE  Clearing'
  <2>1. run.pc \in Installing
    BY <1>5 DEF merge_into_file, Merges, ensure_allow_entries, Allows, write_managed_file, PutsFile,
                ensure_text_block, PutsBlock, At, Installing
  <2>2. run.kind = "install" /\ report.said \in {"none", "not_found", "configured"}
    BY <2>1, RunFacts DEF Clearing
  <2>3. PICK x \in RunPcs : Move(x)
    BY <1>5 DEF merge_into_file, ensure_allow_entries, write_managed_file, ensure_text_block,
                RunPcs, Installing
  <2>4. UNCHANGED report \/ Say("configured")
    BY <1>5 DEF merge_into_file, ensure_allow_entries, write_managed_file, ensure_text_block
  <2>5. report'.said \in {"none", "not_found", "configured"}
    BY <1>1, <2>2, <2>4, Said DEF Sayings
  <2>6. run'.kind = "install"
    BY <1>1, <2>2, <2>3, Moved
  <2>7. QED BY <2>5, <2>6 DEF Clearing
<1>6. ASSUME uninstall_file PROVE Clearing'
  <2>1. Strips /\ UNCHANGED <<user, report>>
    BY <1>6 DEF uninstall_file
  <2>2. settings'.allow = settings.allow /\ NoGroups'
    BY <1>1, <2>1, StripsKeep
  <2>3. (NoAllow => NoAllow') /\ (NoSkill => NoSkill') /\ (NoBlock => NoBlock')
    BY <2>1, <2>2 DEF Strips, NoAllow, NoSkill, NoBlock
  <2>4. UNCHANGED report
    BY <2>1
  <2>5. run.pc = "strip" /\ report.said # "removed" /\ run.kind \in {"uninstall", "rollback"}
    BY <2>1, RunFacts DEF Strips, At, Clearing
  <2>6. run'.pc = AfterStrip /\ run'.kind = run.kind /\ run'.botched = run.botched
    BY <1>1, <1>6, Moved DEF uninstall_file, AfterStrip, RunPcs, Reversing
  <2>7. CASE run.kind = "uninstall"
    <3>1. run'.pc = "un_allow" /\ run'.kind = "uninstall"
      BY <2>6, <2>7 DEF AfterStrip
    <3>2. QED BY <2>2, <2>4, <2>5, <3>1 DEF Clearing
  <2>8. CASE run.kind = "rollback"
    <3>1. run'.pc = "look" /\ run'.kind = "rollback"
      BY <2>6, <2>8 DEF AfterStrip
    <3>2. ~run.botched => NoAllow /\ NoSkill /\ NoBlock
      BY <2>5, <2>8 DEF Clearing
    <3>3. QED BY <2>2, <2>3, <2>4, <2>5, <2>6, <3>1, <3>2 DEF Clearing
  <2>9. QED BY <2>5, <2>7, <2>8
<1>7. ASSUME remove_allow_entries PROVE Clearing'
  <2>1. Disallows /\ UNCHANGED <<user, report>>
    BY <1>7 DEF remove_allow_entries
  <2>2. run.pc = "un_allow" /\ report.said # "removed" /\ run.kind \in {"uninstall", "rollback"}
        /\ run.version \in Versions
    BY <2>1, RunFacts DEF Disallows, At, Clearing, Reversing
  <2>3. run.version = report.by
    BY <2>2, NoRunFacts DEF InstallTypes
  <2>4. settings'.groups = settings.groups /\ settings'.allow = settings.allow \ AllowEntries[run.version]
    BY <1>1, <2>1, <2>2, AllowsKeep
  <2>5. NoAllow' /\ (NoGroups => NoGroups')
    BY <2>1, <2>3, <2>4 DEF NoGroups, NoAllow
  <2>6. UNCHANGED report
    BY <2>1
  <2>7. run'.pc = "un_file" /\ run'.kind = run.kind /\ run'.botched = run.botched
    BY <1>1, <1>7, Moved DEF remove_allow_entries, RunPcs, Reversing
  <2>8. run.kind = "uninstall" /\ report.said = "none" => NoGroups
    BY <2>2 DEF Clearing, Reversing
  <2>9. QED BY <2>2, <2>5, <2>6, <2>7, <2>8 DEF Clearing
<1>8. ASSUME remove_managed_file PROVE Clearing'
  <2>1. UNCHANGED <<settings, notes, report>> /\ NoSkill'
    BY <1>8 DEF remove_managed_file, NoSkill
  <2>2. (NoGroups => NoGroups') /\ (NoAllow => NoAllow')
    BY <2>1 DEF NoGroups, NoAllow
  <2>3. run.pc = "un_file" /\ report.said # "removed" /\ run.kind \in {"uninstall", "rollback"}
    BY <1>8, RunFacts DEF remove_managed_file, At, Clearing, Reversing
  <2>4. run'.pc = "un_block" /\ run'.kind = run.kind /\ run'.botched = run.botched
    BY <1>1, <1>8, Moved DEF remove_managed_file, RunPcs, Reversing
  <2>5. /\ run.kind = "uninstall" /\ report.said = "none" => NoGroups /\ NoAllow
        /\ run.kind = "rollback" /\ ~run.botched => NoAllow
    BY <2>3 DEF Clearing, Reversing
  <2>6. QED BY <2>1, <2>2, <2>3, <2>4, <2>5 DEF Clearing
<1>9. ASSUME remove_text_block PROVE Clearing'
  <2>0. DropsBlock /\ UNCHANGED user /\ Say(IF run.kind = "uninstall" THEN Outcome ELSE report.said)
    BY <1>9 DEF remove_text_block
  <2>1. run.pc = "un_block" /\ report.said # "removed" /\ run.kind \in {"uninstall", "rollback"}
        /\ run.version \in Versions
    BY <2>0, RunFacts DEF DropsBlock, At, Clearing, Reversing
  <2>2. NoBlock'
    BY <1>1, <2>0, <2>1, BlocksKeep
  <2>3. /\ report'.by = report.by
        /\ report'.said = IF run.kind = "uninstall" /\ report.said = "none" THEN "removed"
                          ELSE report.said
    BY <1>1, <2>0, Said DEF Outcome, Sayings
  <2>4. (NoGroups => NoGroups') /\ (NoAllow => NoAllow') /\ (NoSkill => NoSkill')
    BY <2>0, <2>3 DEF DropsBlock, NoGroups, NoAllow, NoSkill
  <2>5. run'.pc = AfterReverse /\ run'.kind = run.kind /\ run'.botched = run.botched
    BY <1>1, <1>9, Moved DEF remove_text_block, AfterReverse, RunPcs
  <2>6. CASE run.kind = "uninstall"
    <3>1. run'.pc = "look" /\ run'.kind = "uninstall"
      BY <2>5, <2>6 DEF AfterReverse
    <3>2. report.said = "none" => NoGroups /\ NoAllow /\ NoSkill
      BY <2>1, <2>6 DEF Clearing, Reversing
    <3>3. report'.said = "removed" => Gone'
      BY <2>1, <2>2, <2>3, <2>4, <3>2, GoneParts
    <3>4. QED BY <3>1, <3>3 DEF Clearing, Installing, Reversing
  <2>7. CASE run.kind = "rollback"
    <3>1. run'.pc = "strip" /\ run'.kind = "rollback" /\ report'.said = report.said
      BY <2>3, <2>5, <2>7 DEF AfterReverse
    <3>2. ~run.botched => NoAllow /\ NoSkill
      BY <2>1, <2>7 DEF Clearing
    <3>3. QED BY <2>1, <2>2, <2>4, <2>5, <3>1, <3>2 DEF Clearing
  <2>8. QED BY <2>1, <2>6, <2>7
<1>10. ASSUME fail PROVE Clearing'
  <2>1. report'.said = "failed"
    BY <1>1, <1>10, Said DEF fail, Sayings
  <2>2. CASE run.pc \in Installing
    <3>1. run' = [run EXCEPT !.kind = "rollback", !.pc = "un_allow"]
      BY <1>10, <2>2 DEF fail, OnError
    <3>2. run'.kind = "rollback" /\ run'.pc = "un_allow"
      BY <1>1, <3>1 DEF Runs
    <3>3. QED BY <2>1, <3>2 DEF Clearing
  <2>3. CASE run.pc \notin Installing
    <3>1. PICK x : run' = [run EXCEPT !.pc = x, !.botched = TRUE]
      BY <1>10, <2>3 DEF fail, OnError
    <3>2. run'.kind = run.kind /\ run'.botched
      BY <1>1, <3>1 DEF Runs
    <3>3. run.kind # "install"
      BY <1>10, <2>3, RunFacts DEF fail
    <3>4. QED BY <2>1, <3>2, <3>3 DEF Clearing
  <2>4. QED BY <2>2, <2>3
<1>11. ASSUME look PROVE Clearing'
  <2>1. Cleaner /\ UNCHANGED report
    BY <1>11, CleanerFiles DEF look, files
  <2>2. CASE Replaceable(asset)
    <3>1. PICK x \in {"remove", "check"} :
              run' = [run EXCEPT !.pc = x, !.seen = asset, !.edits = spent.edits]
      BY <1>11, <2>2 DEF look
    <3>2. run'.pc = x /\ run'.kind = run.kind
      BY <1>1, <3>1 DEF Runs
    <3>3. QED BY <2>1, <3>2, ClearingEnds DEF Clearing, Installing, Reversing
  <2>3. CASE run' = NoRun
    BY <1>2, <2>1, <2>3, ClearingEnds DEF Installing, Reversing
  <2>4. QED BY <1>11, <2>2, <2>3 DEF look
<1>12. ASSUME check PROVE Clearing'
  <2>1. Cleaner /\ UNCHANGED report
    BY <1>12, CleanerFiles DEF check, files
  <2>2. CASE Unchanged
    <3>1. run' = [run EXCEPT !.pc = "publish", !.edits = spent.edits]
      BY <1>12, <2>2 DEF check
    <3>2. run'.pc = "publish" /\ run'.kind = run.kind
      BY <1>1, <3>1 DEF Runs
    <3>3. QED BY <2>1, <3>2, ClearingEnds DEF Clearing, Installing, Reversing
  <2>3. CASE run' = NoRun
    BY <1>2, <2>1, <2>3, ClearingEnds DEF Installing, Reversing
  <2>4. QED BY <1>12, <2>2, <2>3 DEF check
<1>13. ASSUME publish \/ remove \/ asset_fails \/ killed PROVE Clearing'
  <2>1. run' = NoRun /\ UNCHANGED <<settings, skill, notes>> /\ (UNCHANGED report \/ Say("died"))
    BY <1>13 DEF publish, Published, remove, asset_fails, killed, files
  <2>2. report'.by = report.by /\ report'.said \in {report.said, "died"}
    BY <1>1, <2>1, Said DEF Sayings
  <2>3. Cleaner
    BY <2>1, <2>2, CleanerFiles
  <2>4. QED BY <1>2, <2>1, <2>2, <2>3, ClearingEnds DEF Installing, Reversing
<1>14. ASSUME \/ \E e \in Events : add_hook(e)
              \/ break_settings \/ add_note \/ edit_asset \/ UNCHANGED installvars
       PROVE  Clearing'
  <2>1. UNCHANGED <<run, report, skill>>
    BY <1>14 DEF add_hook, break_settings, add_note, edit_asset, installvars
  <2>2. "user" \in Entry /\ settings \in Settings /\ settings.groups \in Lists /\ notes \in Seq(Entry)
    BY <1>1 DEF Entry, FilesTyped, Settings
  <2>3. Cleaner
    <3>1. ASSUME NEW e \in Events, add_hook(e) PROVE Cleaner
      <4>1. PICK a : a = Append(settings.groups[e], "user")
        OBVIOUS
      <4>2. settings.groups[e] \in Seq(Entry)
        BY <2>2 DEF Lists
      <4>3. a \in Seq(Entry) /\ (Ours(a) = <<>> <=> Ours(settings.groups[e]) = <<>>)
        BY <2>2, <4>1, <4>2, Appended
      <4>4. PICK g : g = [settings.groups EXCEPT ![e] = a]
        OBVIOUS
      <4>5. g \in Lists /\ g[e] = a /\ \A x \in Events \ {e} : g[x] = settings.groups[x]
        BY <2>2, <4>3, <4>4 DEF Lists
      <4>6. settings' = [settings EXCEPT !.groups = g] /\ UNCHANGED notes
        BY <3>1, <4>1, <4>4 DEF add_hook
      <4>7. settings'.groups = g /\ settings'.allow = settings.allow
        BY <2>2, <4>5, <4>6, Rewritten
      <4>8. UNCHANGED notes
        BY <4>6
      <4>9. NoGroups => NoGroups'
        BY <4>3, <4>5, <4>7 DEF NoGroups
      <4>10. QED BY <2>1, <4>7, <4>8, <4>9 DEF Cleaner, NoAllow, NoSkill, NoBlock
    <3>2. CASE break_settings
      <4>1. settings'.groups = settings.groups /\ settings'.allow = settings.allow
        BY <2>2, <3>2, Rewritten DEF break_settings
      <4>2. UNCHANGED notes
        BY <3>2 DEF break_settings
      <4>3. QED BY <2>1, <4>1, <4>2 DEF Cleaner, NoGroups, NoAllow, NoSkill, NoBlock
    <3>3. CASE add_note
      <4>1. Ours(notes') = <<>> <=> Ours(notes) = <<>>
        BY <2>2, <3>3, Appended DEF add_note
      <4>2. UNCHANGED settings
        BY <3>3 DEF add_note
      <4>3. QED BY <2>1, <4>1, <4>2 DEF Cleaner, NoGroups, NoAllow, NoSkill, NoBlock
    <3>4. CASE edit_asset \/ UNCHANGED installvars
      BY <2>1, <3>4, CleanerFiles DEF edit_asset, installvars
    <3>5. QED BY <1>14, <3>1, <3>2, <3>3, <3>4
  <2>4. Gone => Gone'
    BY <2>3, GoneParts DEF Cleaner
  <2>5. QED BY <2>1, <2>3, <2>4 DEF Clearing, Cleaner
<1>15. QED
  BY <1>3, <1>4, <1>5, <1>6, <1>7, <1>8, <1>9, <1>10, <1>11, <1>12, <1>13, <1>14
     DEF InstallNext, Helpers

-----------------------------------------------------------------------------
\* The installer's invariant, inductive as it stands
LEMMA InstallAlways == InstallSpec => []InstallInv
<1>1. InstallInit => InstallInv
  <2> SUFFICES ASSUME InstallInit PROVE InstallInv
    OBVIOUS
  <2>1. /\ settings.hooks \in Shapes /\ settings.allow \in UserAllows
        /\ settings.groups = [e \in Events |-> <<>>] /\ settings.parses = TRUE
        /\ settings = [parses |-> settings.parses, hooks |-> settings.hooks,
                       groups |-> settings.groups, allow |-> settings.allow]
    BY DEF InstallInit
  <2>2. /\ skill = "absent" /\ notes = <<"user">> /\ asset = "absent"
        /\ run = NoRun /\ report = [said |-> "none", by |-> "absent"]
        /\ user = [groups |-> [e \in Events |-> 0], notes |-> 1,
                   hooks |-> settings.hooks, allow |-> settings.allow]
        /\ spent \in [runs : Nat, faults : Nat, edits : Nat]
    BY DEF InstallInit
  <2>3. settings.groups \in Lists /\ settings.allow \in SUBSET Tools
    BY <2>1 DEF Lists, Tools
  <2>4. settings \in Settings
    BY <2>1, <2>3 DEF Settings
  <2>5. user \in Users
    BY <2>1, <2>2, <2>3 DEF Users
  <2>6. notes \in Seq(Entry) /\ <<>> \in Seq(Entry)
    BY <2>2 DEF Entry
  <2>7. InstallTypes
    BY <2>2, <2>4, <2>5, <2>6, NoRunFacts DEF InstallTypes, FilesTyped, RunByPc, Reports, Sayings
  <2>8. /\ Len(Theirs(<<>>)) = 0 /\ Len(Ours(<<>>)) = 0
        /\ Len(Theirs(notes)) = 1 /\ Len(Ours(notes)) = 0
    <3>1. Cardinality({}) = 0 /\ Cardinality({1}) = 1
      BY FS_EmptySet, FS_Singleton
    <3>2. Places(<<>>, {"user"}) = {} /\ Places(<<>>, Versions) = {}
      BY DEF Places
    <3>3. Places(notes, {"user"}) = {1} /\ Places(notes, Versions) = {}
      BY <2>2, UserIsNotOurs DEF Places
    <3>4. Len(Theirs(<<>>)) = 0 /\ Len(Ours(<<>>)) = 0
      BY <2>6, <3>1, <3>2, Counts
    <3>5. Len(Theirs(notes)) = 1 /\ Len(Ours(notes)) = 0
      BY <2>6, <3>1, <3>3, Counts
    <3>6. QED BY <3>4, <3>5
  <2>9. UserContentKept
    BY <2>1, <2>2, <2>8 DEF UserContentKept
  <2>10. Clearing /\ SeenIsSo
    BY <2>2, NoRunFacts DEF Clearing, SeenIsSo
  <2>11. QED BY <2>7, <2>9, <2>10 DEF InstallInv
<1>2. InstallInv /\ [InstallNext]_installvars => InstallInv'
  BY InstallTypesStep, FilesStep, ClearingStep, SeenStep DEF InstallInv
<1>3. QED BY <1>1, <1>2, PTL DEF InstallSpec

\* Of what the user has in the files the installer shares with him nothing is ever missing,
\* but for a hooks value that is a scalar and a permission equal to one of a version's; and
\* nothing of ours is beside it twice.  So at any moment of any run, for any versions with
\* any events and permissions: whatever writes fail, before or after the rename, wherever
\* the process dies and whatever the user edits (merge_value, strip_sentinel,
\* ensure_text_block, remove_text_block).
THEOREM UserContentIsKept == InstallSpec => []UserContentKept
  BY InstallAlways, PTL DEF InstallInv

\* Removed means gone, whatever half of an install earlier runs left behind: of hook groups,
\* skill and block nothing of any version, of the permissions nothing in the list of the
\* version that reports it.  A failed install whose rollback did not fail leaves as little
\* (run_install, run_uninstall).
THEOREM ReportIsTrue == InstallSpec => []ReportTellsTruth
<1>1. InstallInv => ReportTellsTruth
  <2> SUFFICES ASSUME InstallInv PROVE ReportTellsTruth
    OBVIOUS
  <2>1. report.said = "removed" => Gone
    BY DEF InstallInv, Clearing
  <2>2. ASSUME report.said = "failed", run.kind # "uninstall", At("look"), ~run.botched
        PROVE  Gone
    <3>1. run.kind # "install" /\ run.pc = "look"
      BY <2>2 DEF InstallInv, Clearing, At
    <3>2. run.kind = "rollback"
      <4>1. run.kind # "none" /\ run \in Runs
        BY <3>1, RunFacts DEF InstallInv, RunPcs
      <4>2. QED BY <2>2, <3>1, <4>1 DEF Runs
    <3>3. NoGroups /\ NoAllow /\ NoSkill /\ NoBlock
      BY <2>2, <3>1, <3>2 DEF InstallInv, Clearing
    <3>4. QED BY <3>3, GoneParts
  <2>3. QED BY <2>1, <2>2 DEF ReportTellsTruth
<1>2. QED BY <1>1, InstallAlways, PTL

\* An extension the user wrote or changed is taken away or replaced only if the last look
\* at it saw one of ours and the edit came after that look; one that appeared where there
\* was none is never replaced (write_owned_asset, remove_owned_asset).
THEOREM UserAssetIsKept == InstallSpec => UserAssetKept
<1> DEFINE Spares == run' # run /\ asset' # asset /\ asset \in {"user", "drifted"} =>
                        run.seen \in Versions /\ run.edits < spent.edits
<1>1. ASSUME InstallInv, InstallNext, run' # run, asset' # asset, asset \in {"user", "drifted"}
      PROVE  run.seen \in Versions /\ run.edits < spent.edits
  <2>1. run.edits \in Nat /\ spent.edits \in Nat
    BY <1>1 DEF InstallInv, InstallTypes, Runs
  <2>2. (At("publish") /\ Published) \/ remove
    <3>1. Renamed \/ remove_managed_file => UNCHANGED asset
      BY DEF Renamed, Merges, Allows, PutsFile, PutsBlock, Strips, Disallows, DropsBlock,
         remove_managed_file
    <3>2. \/ merge_into_file \/ ensure_allow_entries \/ write_managed_file \/ ensure_text_block
          \/ uninstall_file \/ remove_allow_entries \/ remove_text_block
          => Renamed
      BY DEF merge_into_file, ensure_allow_entries, write_managed_file, ensure_text_block,
         uninstall_file, remove_allow_entries, remove_text_block, Renamed
    <3>3. ~fail
      BY <1>1, <3>1 DEF fail, files
    <3>4. QED
      BY <1>1, <3>1, <3>2, <3>3 DEF InstallNext, Helpers, start, not_found, look, check, publish,
         asset_fails, killed, files, add_hook, break_settings, add_note, edit_asset
  <2>3. run.pc \in {"publish", "remove"} /\ run.seen # "absent"
    BY <1>1, <2>2 DEF Published, remove, At, Linkable
  <2>4. /\ Replaceable(run.seen) /\ run.edits <= spent.edits
        /\ run.edits = spent.edits => StateOf(asset) = StateOf(run.seen)
    BY <1>1, <2>3 DEF InstallInv, SeenIsSo
  <2>5. run.seen \in Versions
    BY <2>3, <2>4 DEF Replaceable
  <2>6. StateOf(asset) # StateOf(run.seen)
    BY <1>1, <2>5, UserIsNotOurs DEF StateOf
  <2>7. QED BY <2>1, <2>4, <2>5, <2>6
<1>2. InstallInv /\ [InstallNext]_installvars => [Spares]_installvars
  BY <1>1
<1>3. QED BY <1>2, InstallAlways, PTL DEF InstallSpec, UserAssetKept
=============================================================================

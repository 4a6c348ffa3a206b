--------------------------- MODULE ConsoleProofs ---------------------------
(***************************************************************************)
(* Proofs about Console, for any number of threads, ports and descriptors: *)
(* the slots that fatfs_open takes, who has a port, who has a descriptor,  *)
(* that none is lost, and which line the command line executes.  Each has  *)
(* an invariant of its own; they share the types.                          *)
(***************************************************************************)
EXTENDS Console, FiniteSetTheorems, TLAPS

All == Threads \cup {Echo}

-----------------------------------------------------------------------------
(* Types *)

Opening == {"driver", "fatcheck", "fatopen", "copy", "attach", "count",
            "portcheck", "portset", "opened", "failed"}
Closing == {"fclose", "close", "delete"}
Places == Opening \cup Closing \cup {"idle", "find", "take", "fault"}

FilesType ==
  /\ files \in [Fds -> BOOLEAN] /\ node \in [Fds -> Nodes]
  /\ port_open \in [Ports -> BOOLEAN] /\ tasks_init \in [Ports -> BOOLEAN]
  /\ fatfs_index \in Nat
  /\ fpc \in [Threads -> Places]
  /\ fd \in [Threads -> Fds \cup {NoFd}]
  /\ \A t \in Threads : fpc[t] \notin {"idle", "find"} => fd[t] \in Fds
  /\ want \in [Threads -> Nodes]
  /\ held \in [All -> SUBSET Fds]
  /\ got \in [All -> [Fds -> Nodes]]
  /\ users \in [Ports -> SUBSET Threads]

\* The steps that can change what is in the table, the ports or the FAT layer.
FileAction ==
  \/ \E t \in Threads : FileStep(t)
  \/ \E t \in Threads, n \in (Ports \ {Console}) \cup {Fat} : Open(t, n)
  \/ \E t \in Threads : \E f \in held[t] : Close(t, f) \/ Fclose(t, f)
  \/ bridged /\ \E f \in Std : Close(Invoker, f)
  \/ bridged /\ \E f \in Std : std_stream_deinit(f)
  \/ UNCHANGED fvars

\* What is on the way of the bridge is marked as bridged.
BridgeMarked == bridge # 0 => bridged

LEMMA MarkedInit == Init => BridgeMarked
  BY DEF Init, BridgeMarked

LEMMA MarkedNext == ASSUME BridgeMarked, [Next]_vars PROVE BridgeMarked'
  BY DEF BridgeMarked, Next, vars, bvars, User, InCall, Bridge, BridgeStart, BridgeClose,
         BridgeDeinit, Typing, EchoStep, InvokerStep, CommandReturns

LEMMA NextFileAction ==
  ASSUME BridgeMarked, [Next]_vars PROVE FileAction /\ (bridged => bridged')
  <1>1. ASSUME NEW t \in Threads, User(t) PROVE FileAction /\ (bridged => bridged')
    BY <1>1 DEF User, FileAction, bvars
  <1>2. ASSUME NEW t \in Threads, InCall(t) PROVE FileAction /\ (bridged => bridged')
    BY <1>2 DEF InCall, FileAction, bvars
  <1>3. CASE Bridge
    <2>1. CASE BridgeStart
      BY <2>1 DEF BridgeStart, FileAction
    <2>2. CASE BridgeClose
      <3>1. bridge - 1 \in Std /\ bridged
        BY <2>2 DEF BridgeClose, BridgeMarked, Std
      <3> QED  BY <2>2, <3>1 DEF BridgeClose, FileAction
    <2>3. CASE BridgeDeinit
      <3>1. <<1, 0, 2>>[bridge - 3] \in Std /\ bridged
        BY <2>3 DEF BridgeDeinit, BridgeMarked, Std
      <3> QED  BY <2>3, <3>1 DEF BridgeDeinit, FileAction
    <2> QED  BY <1>3, <2>1, <2>2, <2>3 DEF Bridge
  <1>4. CASE Typing \/ EchoStep \/ InvokerStep \/ CommandReturns
    BY <1>4 DEF Typing, EchoStep, InvokerStep, CommandReturns, FileAction, bvars
  <1>5. CASE UNCHANGED vars
    BY <1>5 DEF vars, bvars, FileAction
  <1> QED  BY <1>1, <1>2, <1>3, <1>4, <1>5 DEF Next

LEMMA InitFilesType == FilesInit => FilesType
  <1> SUFFICES ASSUME FilesInit PROVE FilesType
    OBVIOUS
  <1>1. Std \subseteq Fds
    BY FilesAssumption DEF Std, Fds
  <1>2. files \in [Fds -> BOOLEAN] /\ port_open \in [Ports -> BOOLEAN]
        /\ tasks_init \in [Ports -> BOOLEAN]
    BY DEF FilesInit
  <1>3. node \in [Fds -> Nodes] /\ want \in [Threads -> Nodes]
    BY FilesAssumption DEF FilesInit, Nodes
  <1>4. /\ fatfs_index \in Nat /\ fpc \in [Threads -> Places]
        /\ fd \in [Threads -> Fds \cup {NoFd}]
        /\ \A t \in Threads : fpc[t] = "idle"
        /\ users \in [Ports -> SUBSET Threads]
    BY DEF FilesInit, Places
  <1>5. held \in [All -> SUBSET Fds]
    BY <1>1 DEF FilesInit, All
  <1>6. got \in [All -> [Fds -> Nodes]]
    BY FilesAssumption DEF FilesInit, All, Nodes
  <1> QED  BY <1>2, <1>3, <1>4, <1>5, <1>6 DEF FilesType

\* A thread goes on within its call, or leaves it.
LEMMA GoesOn ==
  ASSUME FilesType, NEW t \in Threads, fpc[t] \notin {"idle", "find"},
         NEW s \in Places, Goto(t, s), UNCHANGED fd
  PROVE  /\ fpc' \in [Threads -> Places] /\ fd' \in [Threads -> Fds \cup {NoFd}]
         /\ \A u \in Threads : fpc'[u] \notin {"idle", "find"} => fd'[u] \in Fds
  BY DEF FilesType, Goto

LEMMA DriverCloseType ==
  ASSUME FilesType, NEW t \in Threads, NEW f, NEW closed, DriverClose(t, f, closed)
  PROVE  users' \in [Ports -> SUBSET Threads] /\ port_open' \in [Ports -> BOOLEAN]
  <1> USE DEF FilesType, DriverClose
  <1>1. CASE node[f] \in Ports
    <2>1. users' = [users EXCEPT ![node[f]] = @ \ {t}]
      BY <1>1
    <2>2. port_open' = [port_open EXCEPT ![node[f]] = FALSE]
      BY <1>1
    <2> QED  BY <2>1, <2>2 DEF FilesType
  <1>2. CASE node[f] \notin Ports
    BY <1>2
  <1> QED  BY <1>1, <1>2

LEMMA NextFilesType == ASSUME FilesType, FileAction PROVE FilesType'
  <1> USE DEF FilesType, fvars, tables, ports, fat, locals, ghosts, Places, Opening, Closing,
              Goto, All
  <1>1. ASSUME NEW t \in Threads, NEW n \in (Ports \ {Console}) \cup {Fat}, Open(t, n)
        PROVE  FilesType'
    BY <1>1 DEF Open, Nodes
  <1>2. ASSUME NEW t \in Threads, fd_new(t) PROVE FilesType'
    <2>1. fd'[t] \in Fds \/ (fpc'[t] = "idle" /\ fd' = fd)
      <3> DEFINE free == {f \in Fds : ~files[f]}
      <3>1. CASE free = {}
        BY <1>2, <3>1 DEF fd_new
      <3>2. CASE free # {}
        <4>1. PICK f \in Fds : fd' = [fd EXCEPT ![t] = f]
          BY <1>2, <3>2 DEF fd_new
        <4>2. fd \in [Threads -> Fds \cup {NoFd}]
          OBVIOUS
        <4> HIDE DEF FilesType
        <4>3. fd'[t] = f
          BY <4>1, <4>2
        <4> QED  BY <4>3
      <3> QED  BY <3>1, <3>2
    <2>2. \E s \in {"idle", "take"} : fpc' = [fpc EXCEPT ![t] = s]
      BY <1>2, Zenon DEF fd_new
    <2>3. \E f \in Fds \cup {NoFd} : fd' = [fd EXCEPT ![t] = f]
      <3>1. fd' = fd \/ \E f \in Fds : fd' = [fd EXCEPT ![t] = f]
        BY <1>2 DEF fd_new
      <3> QED  BY <3>1
    <2>4. /\ fpc' \in [Threads -> Places] /\ fd' \in [Threads -> Fds \cup {NoFd}]
          /\ \A u \in Threads : fpc'[u] \notin {"idle", "find"} => fd'[u] \in Fds
      BY <2>1, <2>2, <2>3
    <2> QED  BY <1>2, <2>4 DEF fd_new
  <1>3. ASSUME NEW t \in Threads, Take(t) PROVE FilesType'
    BY <1>3 DEF Take
  <1>4. ASSUME NEW t \in Threads, CallDriver(t) PROVE FilesType'
    BY <1>4 DEF CallDriver, Nodes
  <1>5. ASSUME NEW t \in Threads, Opened(t) PROVE FilesType'
    BY <1>5 DEF Opened
  <1>6. ASSUME NEW t \in Threads, OpenFails(t) PROVE FilesType'
    BY <1>6 DEF OpenFails
  <1>7. ASSUME NEW t \in Threads, PortCheck(t) \/ PortSet(t) PROVE FilesType'
    <2>1. CASE PortCheck(t)
      <3>1. users' \in [Ports -> SUBSET Threads]
        BY <2>1 DEF PortCheck
      <3>2. \E s \in Places : Goto(t, s)
        BY <2>1, Zenon DEF PortCheck, Places, Opening
      <3> HIDE DEF Goto
      <3> QED  BY <2>1, <3>1, <3>2, GoesOn DEF PortCheck
    <2>2. CASE PortSet(t)
      BY <2>2 DEF PortSet
    <2> QED  BY <1>7, <2>1, <2>2
  <1>8. ASSUME NEW t \in Threads, FatCheck(t) \/ FatOpenFile(t) PROVE FilesType'
    BY <1>8 DEF FatCheck, FatOpenFile
  <1>9. ASSUME NEW t \in Threads, FatCopy(t) \/ FatAttach(t) \/ FatCount(t)
        PROVE  FilesType'
    <2>1. CASE FatCopy(t) \/ FatAttach(t)
      BY <2>1 DEF FatCopy, FatAttach
    <2>2. CASE FatCount(t)
      BY <2>2 DEF FatCount
    <2> QED  BY <1>9, <2>1, <2>2
  <1>10. ASSUME NEW t \in Threads, NEW f \in Fds, Close(t, f) \/ Fclose(t, f)
         PROVE  FilesType'
    <2>1. CASE Close(t, f)
      BY <2>1 DEF Close
    <2>2. CASE Fclose(t, f)
      BY <2>2 DEF Fclose
    <2> QED  BY <1>10, <2>1, <2>2
  <1>11. ASSUME NEW t \in Threads, FcloseDriver(t) \/ CloseDriver(t) PROVE FilesType'
    <2>1. users' \in [Ports -> SUBSET Threads] /\ port_open' \in [Ports -> BOOLEAN]
      <3>1. ASSUME NEW closed, DriverClose(t, fd[t], closed)
            PROVE  users' \in [Ports -> SUBSET Threads] /\ port_open' \in [Ports -> BOOLEAN]
        BY <3>1, DriverCloseType
      <3>2. CASE UNCHANGED <<port_open, users>>
        BY <3>2
      <3> QED  BY <1>11, <3>1, <3>2 DEF FcloseDriver, CloseDriver
    <2>2. held' \in [All -> SUBSET Fds]
      <3>1. held' = held \/ Drop(t, fd[t])
        BY <1>11, Zenon DEF FcloseDriver, CloseDriver, Return
      <3> QED  BY <3>1 DEF Drop
    <2>3. \E s \in Places : Goto(t, s)
      BY <1>11, Zenon DEF FcloseDriver, CloseDriver, Return, Places, Closing
    <2> HIDE DEF Goto
    <2> QED  BY <1>11, <2>1, <2>2, <2>3, GoesOn DEF FcloseDriver, CloseDriver
  <1>13. ASSUME NEW t \in Threads, fd_delete(t) PROVE FilesType'
    BY <1>13 DEF fd_delete, Return, Drop
  <1>14. ASSUME NEW f \in Std, std_stream_deinit(f) PROVE FilesType'
    BY <1>14 DEF std_stream_deinit, Nodes
  <1>15. CASE UNCHANGED fvars
    BY <1>15
  <1>16. Std \subseteq Fds
    BY FilesAssumption DEF Std, Fds
  <1>17. ASSUME NEW t \in Threads, FileStep(t) PROVE FilesType'
    BY <1>2, <1>3, <1>4, <1>5, <1>6, <1>7, <1>8, <1>9, <1>11, <1>13, <1>17
    DEF FileStep
  <1>18. ASSUME NEW t \in Threads, NEW f \in held[t], Close(t, f) \/ Fclose(t, f)
         PROVE  FilesType'
    BY <1>10, <1>18
  <1>19. ASSUME NEW f \in Std, Close(Invoker, f) PROVE FilesType'
    BY <1>10, <1>16, <1>19, ConsoleAssumption
  <1> QED
    BY <1>1, <1>14, <1>15, <1>17, <1>18, <1>19 DEF FileAction

-----------------------------------------------------------------------------
(* The slots of the FAT layer: every thread between the check and the count  *)
(* is going to take one more.                                                *)

PastCheck == {"fatopen", "copy", "attach", "count"}
Past == {t \in Threads : fpc[t] \in PastCheck}

SlotInv == fatfs_index + Cardinality(Past) <= FATFS_MAX_FILES + Cardinality(Threads) - 2

LEMMA PastFinite ==
  /\ IsFiniteSet(Past) /\ Cardinality(Past) \in Nat
  /\ Cardinality(Threads) \in Nat \ {0} /\ Cardinality(Past) <= Cardinality(Threads)
  <1>1. IsFiniteSet(Threads) /\ Threads # {}
    BY FilesAssumption
  <1>2. Past \in SUBSET Threads
    BY DEF Past
  <1>3. IsFiniteSet(Past) /\ Cardinality(Past) <= Cardinality(Threads)
    BY <1>1, <1>2, FS_Subset
  <1> QED  BY <1>1, <1>3, FS_CardinalityType, FS_EmptySet

LEMMA InitSlotInv == FilesInit => SlotInv
  <1> SUFFICES ASSUME FilesInit PROVE SlotInv
    OBVIOUS
  <1>1. Past = {}
    BY DEF FilesInit, Past, PastCheck
  <1>2. Cardinality(Past) = 0
    BY <1>1, FS_EmptySet
  <1>3. fatfs_index = 0
    BY DEF FilesInit
  <1>4. Cardinality(Threads) \in Nat \ {0}
    BY PastFinite
  <1>5. FATFS_MAX_FILES \in Nat \ {0}
    BY FilesAssumption
  <1>6. 0 + 0 <= FATFS_MAX_FILES + Cardinality(Threads) - 2
    BY <1>4, <1>5
  <1> QED  BY <1>2, <1>3, <1>6 DEF SlotInv

LEMMA SamePast ==
  ASSUME FilesType, SlotInv, UNCHANGED fatfs_index,
         \A t \in Threads : fpc'[t] \in PastCheck <=> fpc[t] \in PastCheck
  PROVE  SlotInv'
  <1>1. Past' = Past
    BY DEF Past
  <1> QED  BY <1>1 DEF SlotInv

LEMMA LessPast ==
  ASSUME FilesType, SlotInv, NEW t \in Threads, t \in Past,
         NEW s \in Places \ PastCheck, Goto(t, s), fatfs_index' \in Nat,
         fatfs_index' <= fatfs_index + 1
  PROVE  SlotInv'
  <1>1. Past' = Past \ {t}
    BY DEF Past, Goto, FilesType
  <1>2. Cardinality(Past') = Cardinality(Past) - 1
    BY <1>1, FS_RemoveElement, PastFinite
  <1> QED  BY <1>2, PastFinite, FilesAssumption DEF SlotInv, FilesType

LEMMA NextSlotInv == ASSUME FilesType, SlotInv, FileAction PROVE SlotInv'
  <1> USE DEF Goto, PastCheck, FilesType, fat, fvars
  <1>1. ASSUME NEW t \in Threads, FatCheck(t) PROVE SlotInv'
    <2>1. CASE FatFull
      BY <1>1, <2>1, SamePast DEF FatCheck
    <2>2. CASE ~FatFull
      <3>1. fatfs_index' <= FATFS_MAX_FILES - 2 /\ fatfs_index' \in Nat
        BY <1>1, <2>2, FilesAssumption DEF FatCheck, FatFull
      <3>2. Past' \in SUBSET Threads
        BY DEF Past
      <3>3. Cardinality(Past') <= Cardinality(Threads) /\ Cardinality(Past') \in Nat
        BY <3>2, FS_Subset, FS_CardinalityType, FilesAssumption
      <3> QED  BY <3>1, <3>3, PastFinite, FilesAssumption DEF SlotInv
    <2> QED  BY <2>1, <2>2
  <1>2. ASSUME NEW t \in Threads, FatOpenFile(t) PROVE SlotInv'
    <2>1. CASE Goto(t, "copy")
      BY <1>2, <2>1, SamePast DEF FatOpenFile
    <2>2. CASE Goto(t, "failed")
      <3>1. t \in Past
        BY <1>2 DEF FatOpenFile, Past
      <3>2. "failed" \in Places \ PastCheck
        BY DEF Places, Opening
      <3> HIDE DEF Goto, PastCheck
      <3> QED  BY <1>2, <2>2, <3>1, <3>2, LessPast DEF FatOpenFile
    <2> QED  BY <1>2, <2>1, <2>2 DEF FatOpenFile
  <1>3. ASSUME NEW t \in Threads, FatCopy(t) \/ FatAttach(t) PROVE SlotInv'
    BY <1>3, SamePast DEF FatCopy, FatAttach
  <1>4. ASSUME NEW t \in Threads, FatCount(t) PROVE SlotInv'
    <2>1. t \in Past
      BY <1>4 DEF FatCount, Past
    <2>2. "opened" \in Places \ PastCheck
      BY DEF Places, Opening
    <2>3. fatfs_index' \in Nat /\ fatfs_index' <= fatfs_index + 1
      BY <1>4 DEF FatCount
    <2> HIDE DEF Goto, PastCheck
    <2> QED  BY <1>4, <2>1, <2>2, <2>3, LessPast DEF FatCount
  <1>5. ASSUME NEW t \in Threads, fd_new(t) \/ Take(t) \/ Opened(t) \/ OpenFails(t)
        PROVE  SlotInv'
    BY <1>5, SamePast DEF fd_new, Take, Opened, OpenFails
  <1>6. ASSUME NEW t \in Threads, CallDriver(t) PROVE SlotInv'
    BY <1>6, SamePast, FilesAssumption DEF CallDriver, Nodes
  <1>7. ASSUME NEW t \in Threads, PortCheck(t) \/ PortSet(t) PROVE SlotInv'
    BY <1>7, SamePast DEF PortCheck, PortSet
  <1>8. ASSUME NEW t \in Threads, FcloseDriver(t) \/ CloseDriver(t) \/ fd_delete(t)
        PROVE  SlotInv'
    BY <1>8, SamePast DEF FcloseDriver, CloseDriver, Return, fd_delete
  <1>9. ASSUME NEW t \in Threads, NEW n, Open(t, n) PROVE SlotInv'
    BY <1>9, SamePast DEF Open
  <1>10. ASSUME NEW t \in Threads, NEW f, Close(t, f) \/ Fclose(t, f) PROVE SlotInv'
    BY <1>10, SamePast DEF Close, Fclose
  <1>11. ASSUME NEW f \in Std, std_stream_deinit(f) PROVE SlotInv'
    BY <1>11, SamePast DEF std_stream_deinit, locals
  <1>12. CASE UNCHANGED fvars
    BY <1>12, SamePast DEF locals
  <1> QED
    BY <1>1, <1>2, <1>3, <1>4, <1>5, <1>6, <1>7, <1>8, <1>9, <1>10, <1>11, <1>12,
       ConsoleAssumption
    DEF FileAction, FileStep

LEMMA SlotInvBound == ASSUME FilesType, SlotInv PROVE SlotBound
  <1> SUFFICES ASSUME NEW t \in Threads, fpc[t] \in {"copy", "attach"}
               PROVE  fatfs_index < FATFS_MAX_FILES + Cardinality(Threads) - 2
    BY DEF SlotBound
  <1>1. Past # {}
    BY DEF Past, PastCheck
  <1>2. Cardinality(Past) >= 1
    BY <1>1, PastFinite, FS_EmptySet
  <1> QED  BY <1>2, PastFinite, FilesAssumption DEF SlotInv, FilesType

-----------------------------------------------------------------------------
(* Who has a port that was never closed, and never opened by two at a time *)

Setting(p) == {t \in Threads : fpc[t] = "portset" /\ want[t] = p}

OneUser(p) ==
  /\ \A t, u \in users[p] : t = u
  /\ \A t, u \in Setting(p) : t = u
  /\ users[p] # {} => port_open[p]
  /\ tasks_init[p] = port_open[p]
  /\ Setting(p) # {} => ~port_open[p]

PortInv == \A p \in Ports : p = Console \/ p \in excused \/ OneUser(p)

LEMMA InitPortInv == FilesInit => PortInv
  BY DEF FilesInit, PortInv, OneUser, Setting

LEMMA SamePort ==
  ASSUME FilesType, PortInv, excused \subseteq excused',
         UNCHANGED <<users, port_open, tasks_init>>,
         \A t \in Threads : fpc'[t] = "portset" => fpc[t] = "portset" /\ want'[t] = want[t]
  PROVE  PortInv'
  BY DEF PortInv, OneUser, Setting

LEMMA ClosedPort ==
  ASSUME FilesType, PortInv, NEW t \in Threads, NEW s \in Closing \cup {"idle"},
         Goto(t, s), NEW f, NEW closed, DriverClose(t, f, closed),
         UNCHANGED <<want, tasks_init>>
  PROVE  PortInv'
  <1> USE DEF FilesType, DriverClose, Goto, Closing
  <1>1. \A u \in Threads : fpc'[u] = "portset" => fpc[u] = "portset"
    OBVIOUS
  <1>2. CASE node[f] \in Ports
    <2>1. \A p \in Ports : p # node[f] =>
            users'[p] = users[p] /\ port_open'[p] = port_open[p]
      BY <1>2
    <2>2. excused' = excused \cup {node[f]}
      BY <1>2
    <2> QED  BY <1>1, <2>1, <2>2 DEF PortInv, OneUser, Setting
  <1>3. CASE node[f] \notin Ports
    BY <1>1, <1>3, SamePort
  <1> QED  BY <1>2, <1>3

LEMMA NextPortInv == ASSUME FilesType, PortInv, FileAction PROVE PortInv'
  <1> USE DEF Goto, FilesType, ports, ghosts, locals, fvars
  <1>1. ASSUME NEW t \in Threads, PortCheck(t) PROVE PortInv'
    <2> PICK q : q = want[t]
      OBVIOUS
    <2> DEFINE refused == port_open[q] /\ ~Stdio(q)
    <2>1. \A p \in Ports : p # q /\ p \notin excused' =>
            /\ p \notin excused /\ users'[p] = users[p] /\ Setting(p)' = Setting(p)
            /\ port_open'[p] = port_open[p] /\ tasks_init'[p] = tasks_init[p]
      BY <1>1 DEF PortCheck, Setting
    <2>2. \A p \in Ports : p # Console /\ p # q => p \in excused' \/ OneUser(p)'
      BY <2>1 DEF PortInv, OneUser
    <2>3. ASSUME q \in Ports, q # Console, q \notin excused' PROVE OneUser(q)'
      <3>1. Setting(q) = {} /\ q \notin excused
        BY <1>1, <2>3 DEF PortCheck, Setting
      <3>2. OneUser(q)
        BY <2>3, <3>1 DEF PortInv
      <3>3. CASE refused
        <4>1. Setting(q)' = {} /\ users' = users
          BY <1>1, <3>1, <3>3 DEF PortCheck, Setting
        <4> QED  BY <1>1, <3>2, <4>1 DEF PortCheck, OneUser
      <3>4. CASE ~refused
        <4>1. ~port_open[q] /\ ~tasks_init[q] /\ users[q] = {}
          BY <2>3, <3>2, <3>4 DEF OneUser, Stdio
        <4>2. users' = users /\ Setting(q)' = {t}
          BY <1>1, <3>1, <3>4, <4>1 DEF PortCheck, Setting
        <4> QED  BY <1>1, <3>2, <4>1, <4>2 DEF PortCheck, OneUser
      <3> QED  BY <3>3, <3>4
    <2> QED  BY <2>2, <2>3 DEF PortInv
  <1>2. ASSUME NEW t \in Threads, PortSet(t) PROVE PortInv'
    <2> PICK q : q = want[t]
      OBVIOUS
    <2>1. \A p \in Ports : p # q =>
            /\ users'[p] = users[p] /\ Setting(p)' = Setting(p)
            /\ port_open'[p] = port_open[p] /\ tasks_init'[p] = tasks_init[p]
      BY <1>2 DEF PortSet, Setting
    <2>2. ASSUME q \in Ports, OneUser(q) PROVE OneUser(q)'
      <3>1. t \in Setting(q)
        BY <1>2 DEF PortSet, Setting
      <3>2. users[q] = {} /\ Setting(q) = {t}
        BY <2>2, <3>1 DEF OneUser
      <3>3. users'[q] = {t} /\ Setting(q)' = {} /\ port_open'[q] /\ tasks_init'[q]
        BY <1>2, <2>2, <3>2 DEF PortSet, Setting
      <3> QED  BY <1>2, <3>3 DEF OneUser, PortSet
    <2>3. excused' = excused
      BY <1>2 DEF PortSet
    <2>4. \A p \in Ports : p # q /\ OneUser(p) => OneUser(p)'
      BY <2>1 DEF OneUser
    <2> QED  BY <2>2, <2>3, <2>4 DEF PortInv
  <1>3. ASSUME NEW t \in Threads, fd_new(t) \/ Take(t) \/ Opened(t) \/ OpenFails(t)
        PROVE  PortInv'
    BY <1>3, SamePort DEF fd_new, Take, Opened, OpenFails
  <1>4. ASSUME NEW t \in Threads, CallDriver(t) PROVE PortInv'
    BY <1>4, SamePort DEF CallDriver, Nodes
  <1>5. ASSUME NEW t \in Threads,
               FatCheck(t) \/ FatOpenFile(t) \/ FatCopy(t) \/ FatAttach(t) \/ FatCount(t)
        PROVE  PortInv'
    BY <1>5, SamePort DEF FatCheck, FatOpenFile, FatCopy, FatAttach, FatCount
  <1>6. ASSUME NEW t \in Threads, FcloseDriver(t) PROVE PortInv'
    <2>1. \E s \in Closing \cup {"idle"} : Goto(t, s)
      BY <1>6, Zenon DEF FcloseDriver, Return, Closing
    <2> HIDE DEF Goto
    <2> QED  BY <1>6, <2>1, ClosedPort DEF FcloseDriver
  <1>7. ASSUME NEW t \in Threads, CloseDriver(t) PROVE PortInv'
    <2>1. \E s \in Closing \cup {"idle"} : Goto(t, s)
      BY <1>7, Zenon DEF CloseDriver, Return, Closing
    <2>2. CASE files[fd[t]]
      <3> HIDE DEF Goto
      <3> QED  BY <1>7, <2>1, <2>2, ClosedPort DEF CloseDriver
    <2>3. CASE ~files[fd[t]]
      BY <1>7, <2>3, SamePort DEF CloseDriver, Return
    <2> QED  BY <2>2, <2>3
  <1>8. ASSUME NEW t \in Threads, fd_delete(t) PROVE PortInv'
    BY <1>8, SamePort DEF fd_delete, Return
  <1>9. ASSUME NEW t \in Threads, NEW n, Open(t, n) PROVE PortInv'
    BY <1>9, SamePort DEF Open
  <1>10. ASSUME NEW t \in Threads, NEW f, Close(t, f) \/ Fclose(t, f) PROVE PortInv'
    BY <1>10, SamePort DEF Close, Fclose
  <1>11. ASSUME NEW f \in Std, std_stream_deinit(f) PROVE PortInv'
    BY <1>11, SamePort DEF std_stream_deinit
  <1>12. CASE UNCHANGED fvars
    BY <1>12, SamePort
  <1> QED
    BY <1>1, <1>2, <1>3, <1>4, <1>5, <1>6, <1>7, <1>8, <1>9, <1>10, <1>11, <1>12,
       ConsoleAssumption
    DEF FileAction, FileStep

LEMMA PortInvExclusive == ASSUME FilesType, PortInv PROVE PortExclusive
  <1> SUFFICES ASSUME NEW p \in Ports, p # Console, p \notin excused
               PROVE  ~(Cardinality(users[p]) > 1)
    BY DEF PortExclusive, Stdio
  <1>1. \A t, u \in users[p] : t = u
    BY DEF PortInv, OneUser
  <1>2. CASE users[p] = {}
    BY <1>2, FS_EmptySet
  <1>3. CASE users[p] # {}
    <2>1. PICK t : users[p] = {t}
      BY <1>1, <1>3
    <2> QED  BY <2>1, FS_Singleton
  <1> QED  BY <1>2, <1>3

-----------------------------------------------------------------------------
(* Who has a descriptor, as long as none was taken twice or taken away *)

InOpen(t) == fpc[t] \in Opening
InClose(t) == fpc[t] \in Closing

\* What a thread has opened is its own, and so is what it is about to have.
Owned ==
  /\ \A t \in All : \A f \in held[t] : files[f] /\ node[f] = got[t][f]
  /\ \A t, u \in All : \A f \in Fds : f \in held[t] /\ f \in held[u] => t = u
  /\ \A t \in Threads : InOpen(t) =>
       /\ files[fd[t]] /\ node[fd[t]] = want[t]
       /\ \A u \in All : fd[t] \notin held[u]
  /\ \A t, u \in Threads : InOpen(t) /\ InOpen(u) /\ fd[t] = fd[u] => t = u
  /\ \A t \in Threads : InClose(t) => fd[t] \in held[t]

PrivateInv == raced \/ bridged \/ Owned

LEMMA InitPrivateInv == FilesInit => PrivateInv
  <1> SUFFICES ASSUME FilesInit PROVE Owned
    BY DEF PrivateInv
  <1>1. \A t \in Threads : ~InOpen(t) /\ ~InClose(t)
    BY DEF FilesInit, InOpen, InClose, Opening, Closing
  <1>2. \A t \in All : \A f \in held[t] : t = Echo /\ f \in Std
    BY DEF FilesInit, All
  <1>3. \A f \in Std : f \in Fds /\ files[f] /\ node[f] = Console /\ got[Echo][f] = Console
    <2>1. Std \subseteq Fds
      BY FilesAssumption DEF Std, Fds
    <2>2. \A f \in Std : files[f] /\ node[f] = Console
      BY <2>1 DEF FilesInit
    <2>3. got[Echo] = [f \in Fds |-> IF f \in Std THEN Console ELSE Null]
      BY DEF FilesInit
    <2> QED  BY <2>1, <2>2, <2>3
  <1> QED  BY <1>1, <1>2, <1>3 DEF Owned

\* Nobody gets a descriptor or loses one.
LEMMA SameOwned ==
  ASSUME FilesType, Owned, UNCHANGED <<files, node, fd, held, got>>,
         \A t \in Threads : InOpen(t)' => InOpen(t) /\ want'[t] = want[t],
         \A t \in Threads : InClose(t)' => InClose(t)
  PROVE  Owned'
  BY DEF Owned

\* A thread is done with a descriptor of its own, and gives it back or keeps it.
LEMMA LessOwned ==
  ASSUME FilesType, Owned, NEW t \in Threads, InClose(t),
         NEW v \in BOOLEAN, v = files[fd[t]] \/ v = FALSE,
         files' = [files EXCEPT ![fd[t]] = v],
         UNCHANGED <<node, fd, got, want>>,
         Drop(t, fd[t]), Goto(t, "idle")
  PROVE  Owned'
  <1> USE DEF FilesType, Drop, Goto, InOpen, InClose, Opening, Closing, All
  <1>1. \A u \in All : u # t => held'[u] = held[u] /\ fd[t] \notin held[u]
    BY DEF Owned
  <1>2. held'[t] = held[t] \ {fd[t]} /\ \A f \in Fds : f # fd[t] => files'[f] = files[f]
    OBVIOUS
  <1>3. \A u \in Threads : u # t => fpc'[u] = fpc[u]
    OBVIOUS
  <1>4. ~InOpen(t)' /\ ~InClose(t)'
    OBVIOUS
  <1>5. \A u \in Threads : InOpen(u) => fd[u] # fd[t]
    BY DEF Owned
  <1>6. \A u \in All : held'[u] \subseteq held[u] /\ fd[t] \notin held'[u]
    BY <1>1, <1>2
  <1>7. \A u \in All : \A f \in held'[u] : files'[f] /\ node'[f] = got'[u][f]
    BY <1>2, <1>6 DEF Owned
  <1>8. \A u \in Threads : InOpen(u)' =>
          /\ files'[fd'[u]] /\ node'[fd'[u]] = want'[u]
          /\ \A w \in All : fd'[u] \notin held'[w]
    BY <1>2, <1>3, <1>4, <1>5, <1>6 DEF Owned
  <1>9. \A u \in Threads : InClose(u)' => fd'[u] \in held'[u]
    BY <1>1, <1>3, <1>4 DEF Owned
  <1>10. \A u, w \in Threads : InOpen(u)' /\ InOpen(w)' /\ fd'[u] = fd'[w] => u = w
    BY <1>3, <1>4 DEF Owned
  <1>11. \A u, w \in All : \A f \in Fds : f \in held'[u] /\ f \in held'[w] => u = w
    BY <1>6 DEF Owned
  <1> HIDE DEF FilesType, Drop, Goto, InOpen, InClose, Opening, Closing, All
  <1> QED  BY <1>7, <1>8, <1>9, <1>10, <1>11 DEF Owned, All

LEMMA NextOwned ==
  ASSUME FilesType, Owned, FileAction, ~raced', ~bridged
  PROVE  Owned'
  <1> USE DEF Goto, FilesType, InOpen, InClose, Opening, Closing, All, tables, locals,
              ghosts, fvars
  <1>1. ASSUME NEW t \in Threads, Take(t) PROVE Owned'
    <2>1. ~files[fd[t]]
      BY <1>1 DEF Take
    <2>2. /\ \A u \in All : fd[t] \notin held[u]
          /\ \A u \in Threads : InOpen(u) => fd[u] # fd[t]
      BY <2>1 DEF Owned
    <2>3. /\ files'[fd[t]] /\ node'[fd[t]] = want[t]
          /\ \A f \in Fds : f # fd[t] => files'[f] = files[f] /\ node'[f] = node[f]
      BY <1>1 DEF Take
    <2>4. /\ UNCHANGED <<fd, want, held, got>>
          /\ ~InClose(t)' /\ \A u \in Threads : u # t => fpc'[u] = fpc[u]
      BY <1>1 DEF Take
    <2>5. \A u \in All : \A f \in held'[u] : files'[f] /\ node'[f] = got'[u][f]
      BY <2>2, <2>3, <2>4 DEF Owned
    <2>6. \A u \in Threads : InOpen(u)' =>
            /\ files'[fd'[u]] /\ node'[fd'[u]] = want'[u]
            /\ \A w \in All : fd'[u] \notin held'[w]
      <3>1. ASSUME NEW u \in Threads, u # t, InOpen(u)'
            PROVE  /\ files'[fd'[u]] /\ node'[fd'[u]] = want'[u]
                   /\ \A w \in All : fd'[u] \notin held'[w]
        <4>1. InOpen(u) /\ fd[u] \in Fds /\ fd[u] # fd[t]
          BY <2>2, <2>4, <3>1
        <4> QED  BY <2>3, <2>4, <4>1 DEF Owned
      <3>2. /\ files'[fd'[t]] /\ node'[fd'[t]] = want'[t]
            /\ \A w \in All : fd'[t] \notin held'[w]
        BY <2>2, <2>3, <2>4
      <3> QED  BY <3>1, <3>2
    <2>7. \A u, w \in Threads : InOpen(u)' /\ InOpen(w)' /\ fd'[u] = fd'[w] => u = w
      BY <2>2, <2>4 DEF Owned
    <2>8. \A u \in Threads : InClose(u)' => fd'[u] \in held'[u]
      BY <2>4 DEF Owned
    <2>9. \A u, w \in All : \A f \in Fds : f \in held'[u] /\ f \in held'[w] => u = w
      BY <2>4 DEF Owned
    <2> QED  BY <2>5, <2>6, <2>7, <2>8, <2>9 DEF Owned
  <1>2. ASSUME NEW t \in Threads, CallDriver(t) PROVE Owned'
    <2>1. node[fd[t]] = want[t] /\ files[fd[t]]
      BY <1>2 DEF CallDriver, Owned
    <2>2. want' = want
      BY <1>2, <2>1 DEF CallDriver
    <2> QED  BY <1>2, <2>2, SameOwned DEF CallDriver, Nodes
  <1>3. ASSUME NEW t \in Threads, Opened(t) PROVE Owned'
    <2>1. /\ files[fd[t]] /\ node[fd[t]] = want[t]
          /\ \A u \in All : fd[t] \notin held[u]
          /\ \A u \in Threads : u # t /\ InOpen(u) => fd[u] # fd[t]
      BY <1>3 DEF Opened, Owned
    <2>2. /\ held'[t] = held[t] \cup {fd[t]} /\ got'[t][fd[t]] = want[t]
          /\ \A f \in Fds : f # fd[t] => got'[t][f] = got[t][f]
          /\ \A u \in All : u # t => held'[u] = held[u] /\ got'[u] = got[u]
          /\ UNCHANGED <<files, node, fd, want>>
      BY <1>3 DEF Opened
    <2>3. /\ ~InOpen(t)' /\ ~InClose(t)' /\ \A u \in Threads : u # t => fpc'[u] = fpc[u]
      BY <1>3 DEF Opened
    <2>4. \A u \in All : \A f \in held'[u] : files'[f] /\ node'[f] = got'[u][f]
      <3>1. ASSUME NEW u \in All, u # t, NEW f \in held'[u]
            PROVE  files'[f] /\ node'[f] = got'[u][f]
        BY <2>2, <3>1 DEF Owned
      <3>2. ASSUME NEW f \in held'[t] PROVE files'[f] /\ node'[f] = got'[t][f]
        BY <2>1, <2>2, <3>2 DEF Owned
      <3> QED  BY <3>1, <3>2
    <2>5. \A u, w \in All : \A f \in Fds : f \in held'[u] /\ f \in held'[w] => u = w
      <3>1. \A u \in All : u # t => fd[t] \notin held'[u]
        BY <2>1, <2>2
      <3>2. \A u \in All : \A f \in Fds : f \in held'[u] /\ f # fd[t] => f \in held[u]
        BY <2>2
      <3> QED  BY <3>1, <3>2 DEF Owned
    <2>6. \A u \in Threads : InOpen(u)' =>
            /\ files'[fd'[u]] /\ node'[fd'[u]] = want'[u]
            /\ \A w \in All : fd'[u] \notin held'[w]
      <3> SUFFICES ASSUME NEW u \in Threads, InOpen(u)'
                   PROVE  /\ files'[fd'[u]] /\ node'[fd'[u]] = want'[u]
                          /\ \A w \in All : fd'[u] \notin held'[w]
        OBVIOUS
      <3>1. u # t /\ InOpen(u) /\ fd[u] # fd[t]
        BY <2>1, <2>3 DEF Owned
      <3>2. files[fd[u]] /\ node[fd[u]] = want[u] /\ \A w \in All : fd[u] \notin held[w]
        BY <3>1 DEF Owned
      <3>3. \A w \in All : fd[u] \notin held'[w]
        BY <2>2, <3>1, <3>2
      <3> QED  BY <2>2, <3>2, <3>3
    <2>7. \A u, w \in Threads : InOpen(u)' /\ InOpen(w)' /\ fd'[u] = fd'[w] => u = w
      BY <2>2, <2>3 DEF Owned
    <2>8. \A u \in Threads : InClose(u)' => fd'[u] \in held'[u]
      BY <2>2, <2>3 DEF Owned
    <2> QED  BY <2>4, <2>5, <2>6, <2>7, <2>8 DEF Owned
  <1>4. ASSUME NEW t \in Threads, OpenFails(t) PROVE Owned'
    <2>1. /\ \A u \in All : fd[t] \notin held[u]
          /\ \A u \in Threads : u # t /\ InOpen(u) => fd[u] # fd[t]
      BY <1>4 DEF OpenFails, Owned
    <2>2. /\ \A f \in Fds : f # fd[t] => files'[f] = files[f]
          /\ UNCHANGED <<node, fd, want, held, got>>
          /\ ~InOpen(t)' /\ ~InClose(t)' /\ \A u \in Threads : u # t => fpc'[u] = fpc[u]
      BY <1>4 DEF OpenFails
    <2>3. \A u \in All : \A f \in held'[u] : files'[f] /\ node'[f] = got'[u][f]
      BY <2>1, <2>2 DEF Owned
    <2>4. \A u \in Threads : InOpen(u)' =>
            /\ files'[fd'[u]] /\ node'[fd'[u]] = want'[u]
            /\ \A w \in All : fd'[u] \notin held'[w]
      BY <2>1, <2>2 DEF Owned
    <2>5. \A u, w \in Threads : InOpen(u)' /\ InOpen(w)' /\ fd'[u] = fd'[w] => u = w
      BY <2>2 DEF Owned
    <2>6. \A u \in Threads : InClose(u)' => fd'[u] \in held'[u]
      BY <2>2 DEF Owned
    <2>7. \A u, w \in All : \A f \in Fds : f \in held'[u] /\ f \in held'[w] => u = w
      BY <2>2 DEF Owned
    <2> QED  BY <2>3, <2>4, <2>5, <2>6, <2>7 DEF Owned
  <1>5. ASSUME NEW t \in Threads, fd_new(t) PROVE Owned'
    <2>1. /\ UNCHANGED <<files, node, held, got, want>>
          /\ \A u \in Threads : u # t => fd'[u] = fd[u] /\ fpc'[u] = fpc[u]
          /\ ~InOpen(t)' /\ ~InClose(t)'
      <3> DEFINE free == {f \in Fds : ~files[f]}
      <3>1. CASE free = {}
        BY <1>5, <3>1 DEF fd_new
      <3>2. CASE free # {}
        <4>1. PICK f \in free : fd' = [fd EXCEPT ![t] = f]
          BY <1>5, <3>2 DEF fd_new
        <4> QED  BY <1>5, <3>2, <4>1 DEF fd_new
      <3> QED  BY <3>1, <3>2
    <2> HIDE DEF Goto, FilesType, InOpen, InClose
    <2>2. \A u \in Threads : (InOpen(u)' => u # t /\ InOpen(u)) /\ (InClose(u)' => u # t /\ InClose(u))
      BY <2>1 DEF InOpen, InClose
    <2> QED  BY <2>1, <2>2 DEF Owned
  <1>6. ASSUME NEW t \in Threads, PortCheck(t) \/ PortSet(t) PROVE Owned'
    <2>1. CASE PortCheck(t)
      <3>1. fpc'[t] \in {"failed", "opened", "portset"}
        BY <2>1, Zenon DEF PortCheck
      <3> QED  BY <2>1, <3>1, SameOwned DEF PortCheck
    <2>2. CASE PortSet(t)
      BY <2>2, SameOwned DEF PortSet
    <2> QED  BY <1>6, <2>1, <2>2
  <1>7. ASSUME NEW t \in Threads,
               FatCheck(t) \/ FatOpenFile(t) \/ FatCopy(t) \/ FatAttach(t) \/ FatCount(t)
        PROVE  Owned'
    <2>1. CASE FatCheck(t) \/ FatOpenFile(t)
      BY <2>1, SameOwned DEF FatCheck, FatOpenFile
    <2>2. CASE FatCopy(t) \/ FatAttach(t) \/ FatCount(t)
      BY <2>2, SameOwned DEF FatCopy, FatAttach, FatCount
    <2> QED  BY <1>7, <2>1, <2>2
  <1>8. ASSUME NEW t \in Threads, NEW n, Open(t, n) PROVE Owned'
    BY <1>8, SameOwned DEF Open
  <1>9. ASSUME NEW t \in Threads, NEW f \in held[t], Close(t, f) \/ Fclose(t, f)
        PROVE  Owned'
    <2>1. /\ UNCHANGED <<files, node, held, got, want>>
          /\ \A u \in Threads : u # t => fd'[u] = fd[u] /\ fpc'[u] = fpc[u]
          /\ ~InOpen(t)' /\ fd'[t] = f
      BY <1>9 DEF Close, Fclose
    <2> HIDE DEF Goto, FilesType, InOpen, InClose
    <2>2. \A u \in Threads : (InOpen(u)' => u # t /\ InOpen(u)) /\ (InClose(u)' => u = t \/ InClose(u))
      BY <2>1 DEF InOpen, InClose
    <2> QED  BY <2>1, <2>2 DEF Owned
  <1>10. ASSUME NEW t \in Threads, FcloseDriver(t) \/ CloseDriver(t) \/ fd_delete(t)
         PROVE  Owned'
    <2>1. InClose(t) /\ files[fd[t]]
      BY <1>10 DEF FcloseDriver, CloseDriver, fd_delete, Owned
    <2>2. files = [files EXCEPT ![fd[t]] = files[fd[t]]]
      OBVIOUS
    <2>3. CASE FcloseDriver(t) \/ CloseDriver(t)
      <3>1. CASE Return(t)
        <4> HIDE DEF Goto, FilesType, InOpen, InClose
        <4> QED  BY <2>1, <2>2, <2>3, <3>1, LessOwned DEF FcloseDriver, CloseDriver, Return
      <3>2. CASE \E s \in {"close", "delete"} : Goto(t, s) /\ held' = held
        BY <2>1, <2>3, <3>2, SameOwned DEF FcloseDriver, CloseDriver
      <3> QED
        BY <2>3, <3>1, <3>2, Zenon DEF FcloseDriver, CloseDriver
    <2>5. CASE fd_delete(t)
      <3> HIDE DEF Goto, FilesType, InOpen, InClose
      <3> QED  BY <2>1, <2>5, LessOwned DEF fd_delete, Return
    <2> QED  BY <1>10, <2>3, <2>5
  <1>11. CASE UNCHANGED fvars
    BY <1>11, SameOwned
  <1> QED
    BY <1>1, <1>2, <1>3, <1>4, <1>5, <1>6, <1>7, <1>8, <1>9, <1>10, <1>11
    DEF FileAction, FileStep

LEMMA NextPrivateInv ==
  ASSUME FilesType, PrivateInv, FileAction, bridged => bridged'
  PROVE  PrivateInv'
  <1>1. raced => raced'
    BY DEF FileAction, FileStep, Open, fd_new, Take, CallDriver, Opened, OpenFails, PortCheck,
           PortSet, FatCheck, FatOpenFile, FatCopy, FatAttach, FatCount, Close, Fclose,
           FcloseDriver, CloseDriver, fd_delete, std_stream_deinit, ghosts, fvars
  <1> QED  BY <1>1, NextOwned DEF PrivateInv

LEMMA OwnedPrivate == ASSUME FilesType, PrivateInv PROVE DescriptorPrivate
  <1> SUFFICES ASSUME Owned, NEW t \in All, NEW f \in held[t], NEW u \in All
               PROVE  files[f] /\ node[f] = got[t][f] /\ (f \in held[u] => t = u)
    BY DEF PrivateInv, DescriptorPrivate, All
  <1>1. f \in Fds
    BY DEF FilesType
  <1> QED  BY <1>1 DEF Owned

-----------------------------------------------------------------------------
(* Descriptors that nobody can close *)

Apart == {"idle", "find", "take"}
FatOpening == {"driver", "fatcheck", "fatopen", "copy", "attach", "failed"}

\* A thread is at one of these steps of a call about descriptor f.
Serves(f, steps) == \E t \in Threads : fd[t] = f /\ fpc[t] \in steps

\* A slot in the table is one that fatfs_index has passed, or is about to.
SlotGiven ==
  \A f \in Fds : data[f] \in Nat =>
    data[f] < fatfs_index \/ (data[f] = fatfs_index /\ Serves(f, {"count"}))

\* A descriptor of the FAT layer without a slot is being opened.
OpenEnds ==
  \A f \in Fds : files[f] /\ node[f] = Fat /\ data[f] \notin Nat => Serves(f, FatOpening)

Reachable(f) ==
  \/ \E t \in All : f \in held[t]
  \/ Serves(f, Places \ Apart)
  \/ node[f] = Fat /\ data[f] \notin valid
  \/ f \in unclosed

LeakInv ==
  /\ data \in [Fds -> Nat \cup Threads \cup {NoFd}]
  /\ held[Echo] = Std
  /\ SlotGiven /\ OpenEnds
  /\ \A f \in Fds : files[f] => Reachable(f)

LEMMA InitLeakInv == FilesInit => LeakInv
  <1> SUFFICES ASSUME FilesInit PROVE LeakInv
    OBVIOUS
  <1>1. data = [f \in Fds |-> NoFd] /\ NoFd \notin Nat
    BY DEF FilesInit, NoFd
  <1>2. held[Echo] = Std
    BY DEF FilesInit
  <1>3. \A f \in Fds : files[f] => f \in Std /\ node[f] = Console
    BY DEF FilesInit
  <1>4. SlotGiven
    BY <1>1 DEF SlotGiven
  <1>5. OpenEnds
    BY <1>3, FilesAssumption DEF OpenEnds
  <1>6. \A f \in Fds : files[f] => Reachable(f)
    BY <1>2, <1>3 DEF Reachable, All
  <1> QED  BY <1>1, <1>2, <1>4, <1>5, <1>6 DEF LeakInv

\* One thread takes a step; those at work on other descriptors stay where they are.
OneMoves(t) == \A u \in Threads \ {t} : fd'[u] = fd[u] /\ fpc'[u] = fpc[u]

LEMMA ServesOn ==
  ASSUME NEW t \in Threads, OneMoves(t), NEW f, NEW steps, Serves(f, steps),
         fd[t] # f \/ fpc[t] \notin steps
  PROVE  Serves(f, steps)'
  BY DEF OneMoves, Serves

LEMMA ServesStill ==
  ASSUME NEW t \in Threads, OneMoves(t), fd'[t] = fd[t], NEW f, NEW steps,
         Serves(f, steps), fpc[t] \in steps => fpc'[t] \in steps
  PROVE  Serves(f, steps)'
  BY DEF OneMoves, Serves

\* A thread in a call moves on.
LEMMA StepMoves ==
  ASSUME FilesType, NEW t \in Threads, NEW s, Goto(t, s), UNCHANGED fd
  PROVE  OneMoves(t) /\ fpc'[t] = s
  BY DEF FilesType, Goto, OneMoves

\* A call that leaves the table alone and does not end.
LEMMA SameTable ==
  ASSUME FilesType, LeakInv, NEW t \in Threads, OneMoves(t),
         UNCHANGED <<files, node, data, fatfs_index, held>>, valid' \subseteq valid,
         unclosed \subseteq unclosed',
         \/ fpc[t] \in Apart
         \/ /\ fd'[t] = fd[t] /\ fpc[t] # "count" /\ fpc'[t] \in Places \ Apart
            /\ \/ fpc[t] \in FatOpening => fpc'[t] \in FatOpening
               \/ node[fd[t]] # Fat \/ ~files[fd[t]]
  PROVE  LeakInv'
  <1>1. \A f : Serves(f, {"count"}) => Serves(f, {"count"})'
    <2>1. fpc[t] \notin {"count"}
      BY DEF Apart
    <2> QED  BY <2>1, ServesOn
  <1>2. \A f : Serves(f, FatOpening) /\ files[f] /\ node[f] = Fat => Serves(f, FatOpening)'
    <2>1. CASE fpc[t] \notin FatOpening
      BY <2>1, ServesOn
    <2>2. CASE fpc[t] \in FatOpening /\ fd'[t] = fd[t] /\ fpc'[t] \in FatOpening
      BY <2>2, ServesStill
    <2>3. CASE node[fd[t]] # Fat \/ ~files[fd[t]]
      BY <2>3, ServesOn
    <2>4. fpc[t] \in Apart => fpc[t] \notin FatOpening
      BY DEF Apart, FatOpening
    <2> QED  BY <2>1, <2>2, <2>3, <2>4
  <1>3. \A f : Serves(f, Places \ Apart) => Serves(f, Places \ Apart)'
    <2>1. CASE fpc[t] \in Apart
      BY <2>1, ServesOn
    <2>2. CASE fd'[t] = fd[t] /\ fpc'[t] \in Places \ Apart
      BY <2>2, ServesStill
    <2> QED  BY <2>1, <2>2
  <1>4. SlotGiven'
    BY <1>1 DEF LeakInv, SlotGiven
  <1>5. OpenEnds'
    BY <1>2 DEF LeakInv, OpenEnds
  <1>6. \A f \in Fds : files'[f] => Reachable(f)'
    BY <1>3 DEF LeakInv, Reachable
  <1> QED  BY <1>4, <1>5, <1>6 DEF LeakInv

\* A thread is done with its descriptor, which is free then, or whose file is closed or
\* could not be.
LEMMA CallEnds ==
  ASSUME FilesType, LeakInv, NEW t \in Threads, fpc[t] \in Closing,
         Goto(t, "idle"), UNCHANGED <<fd, node, data, fatfs_index>>, Drop(t, fd[t]),
         valid' \subseteq valid, unclosed \subseteq unclosed',
         \/ /\ files' = files
            /\ \/ ~files[fd[t]] \/ fd[t] \in unclosed'
               \/ node[fd[t]] = Fat /\ data[fd[t]] \notin valid
         \/ files' = [files EXCEPT ![fd[t]] = FALSE]
  PROVE  LeakInv'
  <1>1. OneMoves(t) /\ fpc'[t] = "idle" /\ t # Echo
    <2>1. OneMoves(t) /\ fpc'[t] = "idle"
      BY StepMoves
    <2> QED  BY <2>1, FilesAssumption
  <1>2. \A f \in Fds : files'[f] => files[f]
    BY DEF FilesType
  <1>3. /\ \A f \in Fds : f # fd[t] => \A u \in All : f \in held[u] => f \in held'[u]
        /\ held'[Echo] = held[Echo]
    BY <1>1 DEF FilesType, Drop, All
  <1>4. \A f : Serves(f, {"count"}) => Serves(f, {"count"})'
    <2>1. fpc[t] \notin {"count"}
      BY DEF Closing
    <2> QED  BY <1>1, <2>1, ServesOn
  <1>5. \A f : Serves(f, FatOpening) => Serves(f, FatOpening)'
    <2>1. fpc[t] \notin FatOpening
      BY DEF Closing, FatOpening
    <2> QED  BY <1>1, <2>1, ServesOn
  <1>6. \A f : f # fd[t] /\ Serves(f, Places \ Apart) => Serves(f, Places \ Apart)'
    BY <1>1, ServesOn
  <1>7. SlotGiven'
    BY <1>4 DEF LeakInv, SlotGiven
  <1>8. OpenEnds'
    BY <1>2, <1>5 DEF LeakInv, OpenEnds
  <1>9. ASSUME NEW f \in Fds, files'[f] PROVE Reachable(f)'
    <2>1. CASE f = fd[t]
      <3>1. f \in unclosed' \/ (node[f] = Fat /\ data[f] \notin valid)
        BY <1>9, <2>1 DEF FilesType
      <3> QED  BY <3>1 DEF Reachable
    <2>2. CASE f # fd[t]
      <3>1. Reachable(f)
        BY <1>2, <1>9 DEF LeakInv
      <3> QED  BY <1>3, <1>6, <2>2, <3>1 DEF Reachable
    <2> QED  BY <2>1, <2>2
  <1> QED  BY <1>3, <1>7, <1>8, <1>9 DEF LeakInv

LEMMA ServesMore ==
  ASSUME NEW f, NEW steps \in {{"count"}, FatOpening}, Serves(f, steps)
  PROVE  Serves(f, Places \ Apart)
  BY DEF Serves, FatOpening, Apart, Places, Opening

\* Opening a file, with what it means for the descriptor it is opened on.
LEMMA FatOpenLeak ==
  ASSUME FilesType, LeakInv, NEW t \in Threads, FatOpenFile(t) \/ FatCopy(t) \/ FatAttach(t)
  PROVE  LeakInv'
  <1>1. /\ OneMoves(t) /\ fd[t] \in Fds /\ fd' = fd
        /\ UNCHANGED <<files, node, fatfs_index, held, unclosed>>
        /\ fpc[t] \in FatOpening /\ fpc[t] # "count"
        /\ fpc'[t] \in FatOpening \cup {"count"} /\ fpc'[t] \in Places \ Apart
    <2>1. UNCHANGED <<fd, files, node, fatfs_index, held, unclosed>>
      BY DEF FatOpenFile, FatCopy, FatAttach, ghosts, tables, fat
    <2>2. fpc[t] \in {"fatopen", "copy", "attach"}
      BY DEF FatOpenFile, FatCopy, FatAttach
    <2>3. \E s \in {"copy", "failed", "attach", "count"} : Goto(t, s)
      BY Zenon DEF FatOpenFile, FatCopy, FatAttach
    <2>4. OneMoves(t) /\ fpc'[t] \in {"copy", "failed", "attach", "count"}
      BY <2>1, <2>3, StepMoves
    <2>5. fd[t] \in Fds
      BY <2>2 DEF FilesType
    <2> QED  BY <2>1, <2>2, <2>4, <2>5 DEF FatOpening, Apart, Places, Opening
  <1>2. \A f : Serves(f, {"count"}) => Serves(f, {"count"})'
    <2>1. fpc[t] \notin {"count"}
      BY <1>1
    <2> QED  BY <1>1, <2>1, ServesOn
  <1>3. \A f : f # fd[t] /\ Serves(f, FatOpening) => Serves(f, FatOpening)'
    BY <1>1, ServesOn
  <1>4. \A f : Serves(f, Places \ Apart) => Serves(f, Places \ Apart)'
    BY <1>1, ServesStill
  <1>5. \A f : f = fd[t] => Serves(f, Places \ Apart)'
    BY <1>1 DEF Serves
  <1>6. /\ data' \in [Fds -> Nat \cup Threads \cup {NoFd}]
        /\ \A f \in Fds : f # fd[t] => data'[f] = data[f]
    BY <1>1 DEF FatOpenFile, FatCopy, FatAttach, FilesType, LeakInv, tables
  <1>7. /\ data'[fd[t]] \in Nat => \/ data'[fd[t]] = data[fd[t]]
                                   \/ data'[fd[t]] = fatfs_index /\ fpc'[t] = "count"
        /\ data'[fd[t]] \notin Nat => fpc'[t] \in FatOpening
    BY <1>1, FilesAssumption
    DEF FatOpenFile, FatCopy, FatAttach, FilesType, LeakInv, tables, Goto, FatOpening
  <1>8. SlotGiven'
    <2>1. ASSUME NEW f \in Fds, data'[f] \in Nat
          PROVE  data'[f] < fatfs_index' \/ (data'[f] = fatfs_index' /\ Serves(f, {"count"})')
      <3>1. CASE data'[f] = data[f]
        BY <1>1, <1>2, <2>1, <3>1 DEF LeakInv, SlotGiven
      <3>2. CASE f = fd[t] /\ data'[f] = fatfs_index /\ fpc'[t] = "count"
        BY <1>1, <3>2 DEF Serves
      <3> QED  BY <1>6, <1>7, <2>1, <3>1, <3>2
    <2> QED  BY <2>1 DEF SlotGiven
  <1>9. OpenEnds'
    <2>1. ASSUME NEW f \in Fds, files'[f], node'[f] = Fat, data'[f] \notin Nat
          PROVE  Serves(f, FatOpening)'
      <3>1. CASE f = fd[t]
        BY <1>1, <1>7, <2>1, <3>1 DEF Serves
      <3>2. CASE f # fd[t]
        BY <1>1, <1>3, <1>6, <2>1, <3>2 DEF LeakInv, OpenEnds
      <3> QED  BY <3>1, <3>2
    <2> QED  BY <2>1 DEF OpenEnds
  <1>10. ASSUME NEW f \in Fds, files'[f] PROVE Reachable(f)'
    <2>1. CASE f = fd[t]
      BY <1>5, <2>1 DEF Reachable
    <2>2. CASE f # fd[t] /\ node[f] = Fat /\ data[f] \in valid' \ valid
      <3>1. \/ data[f] = t /\ data[f] \notin Nat
            \/ data[f] = fatfs_index /\ data[f] \in Nat /\ ~(data[f] < fatfs_index)
        BY <2>2, FilesAssumption DEF FatOpenFile, FatCopy, FatAttach, fat, FilesType
      <3>2. Serves(f, FatOpening) \/ Serves(f, {"count"})
        BY <1>1, <1>10, <2>2, <3>1 DEF LeakInv, SlotGiven, OpenEnds
      <3> QED  BY <1>4, <3>2, ServesMore DEF Reachable
    <2>3. CASE f # fd[t] /\ ~(node[f] = Fat /\ data[f] \in valid' \ valid)
      <3>1. Reachable(f)
        BY <1>1, <1>10 DEF LeakInv
      <3>2. data'[f] = data[f] /\ node' = node /\ held' = held /\ unclosed' = unclosed
        BY <1>1, <1>6, <2>3
      <3>3. CASE node[f] = Fat /\ data[f] \notin valid
        BY <2>3, <3>2, <3>3 DEF Reachable
      <3>4. CASE (\E u \in All : f \in held[u]) \/ Serves(f, Places \ Apart) \/ f \in unclosed
        BY <1>4, <3>2, <3>4 DEF Reachable
      <3> QED  BY <3>1, <3>3, <3>4 DEF Reachable
    <2> QED  BY <2>1, <2>2, <2>3
  <1> QED  BY <1>1, <1>6, <1>8, <1>9, <1>10 DEF LeakInv

\* The driver is asked to close: the call goes on, or ends with the descriptor in use.
LEMMA CloseLeak ==
  ASSUME FilesType, LeakInv, NEW t \in Threads, fpc[t] \in Closing,
         UNCHANGED <<files, node, data, fatfs_index, fd>>,
         NEW closed \in CloseResults(fd[t]), DriverClose(t, fd[t], closed),
         NEW s \in Closing,
         IF closed THEN Goto(t, s) /\ UNCHANGED held ELSE Return(t)
  PROVE  LeakInv'
  <1>1. valid' \subseteq valid /\ unclosed \subseteq unclosed' /\ closed \in BOOLEAN
    BY DEF DriverClose, CloseResults
  <1>2. CASE closed
    <2>1. OneMoves(t) /\ fpc'[t] = s /\ held' = held
      BY <1>2, StepMoves
    <2>2. s \in Places \ Apart /\ fpc[t] \notin FatOpening /\ fpc[t] # "count"
      BY DEF Places, Closing, Apart, FatOpening
    <2> QED  BY <1>1, <2>1, <2>2, SameTable
  <1>3. CASE ~closed
    <2>1. \/ fd[t] \in unclosed'
          \/ node[fd[t]] = Fat /\ data[fd[t]] \notin valid
      BY <1>1, <1>3 DEF DriverClose, CloseResults
    <2> QED  BY <1>1, <1>3, <2>1, CallEnds DEF Return
  <1> QED  BY <1>1, <1>2, <1>3

LEMMA NextLeakInv == ASSUME FilesType, LeakInv, FileAction PROVE LeakInv'
  <1> USE DEF tables, ports, fat, locals, ghosts, fvars
  <1>1. ASSUME NEW t \in Threads, NEW n, Open(t, n) PROVE LeakInv'
    BY <1>1, SameTable DEF Open, OneMoves, Apart, FilesType, Goto
  <1>2. ASSUME NEW t \in Threads, NEW f, Close(t, f) \/ Fclose(t, f) PROVE LeakInv'
    BY <1>2, SameTable DEF Close, Fclose, OneMoves, Apart, FilesType, Goto
  <1>3. ASSUME NEW t \in Threads, fd_new(t) PROVE LeakInv'
    <2>1. \E s \in {"idle", "take"} : fpc' = [fpc EXCEPT ![t] = s]
      BY <1>3, Zenon DEF fd_new, Goto
    <2>2. \E f \in Fds \cup {NoFd} : fd' = [fd EXCEPT ![t] = f]
      <3>1. fd' = fd \/ \E f \in Fds : fd' = [fd EXCEPT ![t] = f]
        BY <1>3 DEF fd_new
      <3> QED  BY <3>1 DEF FilesType
    <2>3. OneMoves(t)
      BY <2>1, <2>2 DEF OneMoves, FilesType
    <2> QED  BY <1>3, <2>3, SameTable DEF fd_new, Apart
  <1>4. ASSUME NEW t \in Threads, Take(t) PROVE LeakInv'
    <2>1. OneMoves(t) /\ fpc'[t] = "driver" /\ fpc[t] = "take" /\ fd' = fd /\ fd[t] \in Fds
      BY <1>4, StepMoves DEF Take, FilesType
    <2>2. \A f : /\ Serves(f, {"count"}) => Serves(f, {"count"})'
                 /\ Serves(f, FatOpening) => Serves(f, FatOpening)'
                 /\ Serves(f, Places \ Apart) => Serves(f, Places \ Apart)'
      <3>1. fpc[t] \notin {"count"} /\ fpc[t] \notin FatOpening /\ fpc[t] \notin Places \ Apart
        BY <2>1 DEF FatOpening, Apart
      <3> QED  BY <2>1, <3>1, ServesOn
    <2>3. \A f \in Fds : f # fd[t] => files'[f] = files[f] /\ node'[f] = node[f]
      BY <1>4 DEF Take, FilesType
    <2>4. UNCHANGED <<data, fatfs_index, valid, held>> /\ unclosed' = unclosed \ {fd[t]}
      BY <1>4 DEF Take
    <2>5. \A f : f = fd[t] => Serves(f, FatOpening)' /\ Serves(f, Places \ Apart)'
      BY <2>1 DEF Serves, FatOpening, Places, Opening, Apart
    <2>6. SlotGiven'
      BY <2>1, <2>2, <2>4 DEF LeakInv, SlotGiven
    <2>7. OpenEnds'
      <3>1. ASSUME NEW f \in Fds, f # fd[t], files'[f], node'[f] = Fat, data'[f] \notin Nat
            PROVE  Serves(f, FatOpening)'
        <4>1. Serves(f, FatOpening)
          BY <2>3, <2>4, <3>1 DEF LeakInv, OpenEnds
        <4> QED  BY <2>2, <4>1
      <3> QED  BY <2>5, <3>1 DEF OpenEnds
    <2>8. \A f \in Fds : files'[f] => Reachable(f)'
      <3>1. ASSUME NEW f \in Fds, f # fd[t], files'[f] PROVE Reachable(f)'
        <4>1. Reachable(f) /\ node'[f] = node[f]
          BY <2>3, <3>1 DEF LeakInv
        <4>2. (f \in unclosed => f \in unclosed') /\ Serves(f, Places \ Apart)' \in BOOLEAN
          BY <2>4, <3>1 DEF Serves
        <4>3. data'[f] = data[f] /\ valid' = valid /\ held' = held
          BY <2>4
        <4> QED  BY <2>2, <4>1, <4>2, <4>3 DEF Reachable
      <3> QED  BY <2>5, <3>1 DEF Reachable
    <2> QED  BY <2>4, <2>6, <2>7, <2>8 DEF LeakInv
  <1>5. ASSUME NEW t \in Threads, CallDriver(t) PROVE LeakInv'
    <2> DEFINE s == fpc'[t]
    <2>0. fd[t] \in Fds /\ node[fd[t]] \in Nodes /\ files[fd[t]] \in BOOLEAN
      BY <1>5 DEF CallDriver, FilesType
    <2>1. /\ Goto(t, s) /\ s \in {"fault", "fatcheck", "portcheck", "opened"}
          /\ files[fd[t]] /\ node[fd[t]] = Fat => s = "fatcheck"
      <3>1. CASE ~files[fd[t]]
        <4>1. Goto(t, "fault")
          BY <1>5, <3>1 DEF CallDriver
        <4> QED  BY <3>1, <4>1 DEF FilesType, Goto
      <3>2. CASE files[fd[t]] /\ node[fd[t]] = Fat
        <4>1. Goto(t, "fatcheck")
          BY <1>5, <3>2, FilesAssumption DEF CallDriver
        <4> QED  BY <4>1 DEF FilesType, Goto
      <3>3. CASE files[fd[t]] /\ node[fd[t]] \in Ports
        <4>1. Goto(t, "portcheck")
          BY <1>5, <3>3, FilesAssumption DEF CallDriver
        <4> QED  BY <3>3, <4>1, FilesAssumption DEF FilesType, Goto
      <3>4. CASE files[fd[t]] /\ node[fd[t]] = Null
        <4>1. Goto(t, "opened")
          BY <1>5, <3>4, FilesAssumption DEF CallDriver
        <4> QED  BY <3>4, <4>1, FilesAssumption DEF FilesType, Goto
      <3> QED  BY <2>0, <3>1, <3>2, <3>3, <3>4 DEF Nodes
    <2> HIDE DEF s
    <2>2. OneMoves(t) /\ fpc'[t] = s /\ fpc[t] = "driver" /\ fd' = fd
      BY <1>5, <2>1, StepMoves DEF CallDriver
    <2>3. files[fd[t]] /\ node[fd[t]] = Fat => s = "fatcheck"
      BY <2>1
    <2>4. UNCHANGED <<files, node, data, fatfs_index, valid, held, unclosed>>
      BY <1>5 DEF CallDriver
    <2>5. s \in Places \ Apart /\ fpc[t] # "count" /\ (s = "fatcheck" => s \in FatOpening)
      BY <2>1, <2>2 DEF Places, Opening, Apart, FatOpening
    <2> QED  BY <2>2, <2>3, <2>4, <2>5, SameTable
  <1>6. ASSUME NEW t \in Threads, PortCheck(t) \/ PortSet(t) PROVE LeakInv'
    <2>1. PICK s \in {"failed", "opened", "portset"} : Goto(t, s)
      BY <1>6, Zenon DEF PortCheck, PortSet
    <2>2. OneMoves(t) /\ fpc'[t] = s /\ fpc[t] \in {"portcheck", "portset"} /\ fd' = fd
      BY <1>6, <2>1, StepMoves DEF PortCheck, PortSet
    <2>3. UNCHANGED <<files, node, data, fatfs_index, valid, held, unclosed>>
      BY <1>6 DEF PortCheck, PortSet
    <2>4. s \in Places \ Apart /\ fpc[t] \notin FatOpening /\ fpc[t] # "count"
      BY <2>2 DEF Places, Opening, Apart, FatOpening
    <2> QED  BY <2>2, <2>3, <2>4, SameTable
  <1>7. ASSUME NEW t \in Threads, FatCheck(t) PROVE LeakInv'
    <2>1. PICK s \in {"failed", "fatopen"} : Goto(t, s)
      BY <1>7, Zenon DEF FatCheck
    <2>2. OneMoves(t) /\ fpc'[t] = s /\ fpc[t] = "fatcheck" /\ fd' = fd
      BY <1>7, <2>1, StepMoves DEF FatCheck
    <2>3. UNCHANGED <<files, node, data, fatfs_index, valid, held, unclosed>>
      BY <1>7 DEF FatCheck
    <2>4. s \in Places \ Apart /\ s \in FatOpening /\ fpc[t] # "count"
      BY <2>2 DEF Places, Opening, Apart, FatOpening
    <2> QED  BY <2>2, <2>3, <2>4, SameTable
  <1>8. ASSUME NEW t \in Threads, Opened(t) PROVE LeakInv'
    <2>1. OneMoves(t) /\ fpc[t] = "opened" /\ fd' = fd /\ fd[t] \in Fds
      BY <1>8, StepMoves DEF Opened, FilesType
    <2>2. /\ held'[t] = held[t] \cup {fd[t]}
          /\ \A u \in All : u # t => held'[u] = held[u]
          /\ UNCHANGED <<files, node, data, fatfs_index, valid, unclosed>>
      BY <1>8 DEF Opened, FilesType, All
    <2>3. t \in All /\ Echo \in All /\ Echo # t
      BY FilesAssumption DEF All
    <2>4. \A f, steps : f # fd[t] \/ fpc[t] \notin steps =>
            (Serves(f, steps) => Serves(f, steps)')
      BY <2>1, ServesOn
    <2>5. SlotGiven' /\ OpenEnds'
      <3>1. fpc[t] \notin FatOpening /\ fpc[t] \notin {"count"}
        BY <2>1 DEF FatOpening
      <3> QED  BY <2>2, <2>4, <3>1 DEF LeakInv, SlotGiven, OpenEnds
    <2>6. \A f \in Fds : files'[f] => Reachable(f)'
      BY <2>2, <2>3, <2>4 DEF LeakInv, Reachable
    <2> QED  BY <2>2, <2>3, <2>5, <2>6 DEF LeakInv
  <1>9. ASSUME NEW t \in Threads, OpenFails(t) PROVE LeakInv'
    <2>1. OneMoves(t) /\ fpc[t] = "failed" /\ fd' = fd /\ fd[t] \in Fds
      BY <1>9, StepMoves DEF OpenFails, FilesType
    <2>2. /\ \A f \in Fds : files'[f] => f # fd[t] /\ files[f]
          /\ UNCHANGED <<node, data, fatfs_index, valid, held, unclosed>>
      BY <1>9 DEF OpenFails, FilesType
    <2>3. \A f, steps : f # fd[t] \/ fpc[t] \notin steps =>
            (Serves(f, steps) => Serves(f, steps)')
      BY <2>1, ServesOn
    <2>4. SlotGiven'
      BY <2>1, <2>2, <2>3 DEF LeakInv, SlotGiven
    <2>5. OpenEnds'
      BY <2>2, <2>3 DEF LeakInv, OpenEnds
    <2>6. \A f \in Fds : files'[f] => Reachable(f)'
      BY <2>2, <2>3 DEF LeakInv, Reachable
    <2> QED  BY <2>2, <2>4, <2>5, <2>6 DEF LeakInv
  <1>10. ASSUME NEW t \in Threads, FatCount(t) PROVE LeakInv'
    <2>1. /\ OneMoves(t) /\ fpc[t] = "count" /\ fpc'[t] = "opened" /\ fd' = fd
          /\ fatfs_index' = fatfs_index + 1 /\ fatfs_index \in Nat
      BY <1>10, StepMoves DEF FatCount, FilesType
    <2>2. UNCHANGED <<files, node, data, held, unclosed>> /\ valid' \subseteq valid
      BY <1>10 DEF FatCount
    <2>3. SlotGiven'
      BY <2>1, <2>2 DEF LeakInv, SlotGiven
    <2>4. OpenEnds'
      <3>1. \A f : Serves(f, FatOpening) => Serves(f, FatOpening)'
        <4>1. fpc[t] \notin FatOpening
          BY <2>1 DEF FatOpening
        <4> QED  BY <2>1, <4>1, ServesOn
      <3> QED  BY <2>2, <3>1 DEF LeakInv, OpenEnds
    <2>5. \A f \in Fds : files'[f] => Reachable(f)'
      <3>1. fpc'[t] \in Places \ Apart
        BY <2>1 DEF Places, Opening, Apart
      <3>2. \A f : Serves(f, Places \ Apart) => Serves(f, Places \ Apart)'
        BY <2>1, <3>1, ServesStill
      <3> QED  BY <2>2, <3>2 DEF LeakInv, Reachable
    <2> QED  BY <2>2, <2>3, <2>4, <2>5 DEF LeakInv
  <1>11. ASSUME NEW t \in Threads, FatOpenFile(t) \/ FatCopy(t) \/ FatAttach(t) PROVE LeakInv'
    BY <1>11, FatOpenLeak
  <1>12. ASSUME NEW t \in Threads, FcloseDriver(t) PROVE LeakInv'
    <2>1. PICK closed \in CloseResults(fd[t]) :
            /\ DriverClose(t, fd[t], closed)
            /\ IF closed THEN Goto(t, "close") /\ UNCHANGED held ELSE Return(t)
      BY <1>12 DEF FcloseDriver
    <2>2. fpc[t] = "fclose" /\ UNCHANGED <<files, node, data, fatfs_index, fd>>
      BY <1>12 DEF FcloseDriver
    <2> QED  BY <2>1, <2>2, CloseLeak DEF Closing, Places, Apart
  <1>13. ASSUME NEW t \in Threads, CloseDriver(t) PROVE LeakInv'
    <2>1. fpc[t] = "close" /\ UNCHANGED <<files, node, data, fatfs_index, fd>>
      BY <1>13 DEF CloseDriver
    <2>2. CASE ~files[fd[t]]
      <3>1. Return(t) /\ UNCHANGED <<valid, unclosed>>
        BY <1>13, <2>2 DEF CloseDriver
      <3> QED  BY <2>1, <2>2, <3>1, CallEnds DEF Return, Closing
    <2>3. CASE files[fd[t]]
      <3>1. PICK closed \in CloseResults(fd[t]) :
              /\ DriverClose(t, fd[t], closed)
              /\ IF closed THEN Goto(t, "delete") /\ UNCHANGED held ELSE Return(t)
        BY <1>13, <2>3 DEF CloseDriver
      <3> QED  BY <2>1, <3>1, CloseLeak DEF Closing, Places, Apart
    <2> QED  BY <2>2, <2>3
  <1>14. ASSUME NEW t \in Threads, fd_delete(t) PROVE LeakInv'
    BY <1>14, CallEnds DEF fd_delete, Return, Closing
  <1>15. ASSUME NEW f \in Std, std_stream_deinit(f) PROVE LeakInv'
    <2>1. /\ UNCHANGED <<files, data, fatfs_index, valid, fpc, fd, held, unclosed>>
          /\ \A g \in Fds : g # f => node'[g] = node[g]
          /\ (node'[f] = node[f] \/ node'[f] = Null)
      <3>1. f \in Fds
        BY FilesAssumption DEF Std, Fds
      <3> QED  BY <1>15, <3>1 DEF std_stream_deinit, FilesType
    <2>2. \A g : /\ Serves(g, {"count"}) => Serves(g, {"count"})'
                 /\ Serves(g, FatOpening) => Serves(g, FatOpening)'
                 /\ Serves(g, Places \ Apart) => Serves(g, Places \ Apart)'
      BY <2>1 DEF Serves
    <2>3. SlotGiven' /\ OpenEnds'
      <3>1. SlotGiven'
        BY <2>1, <2>2 DEF LeakInv, SlotGiven
      <3>2. ASSUME NEW g \in Fds, node'[g] = Fat PROVE node[g] = Fat
        <4>1. CASE g = f
          BY <2>1, <3>2, <4>1, FilesAssumption
        <4>2. CASE g # f
          BY <2>1, <3>2, <4>2
        <4> QED  BY <4>1, <4>2
      <3>3. OpenEnds'
        BY <2>1, <2>2, <3>2 DEF LeakInv, OpenEnds
      <3> QED  BY <3>1, <3>3
    <2>4. \A g \in Fds : files'[g] => Reachable(g)'
      BY <2>1, <2>2 DEF LeakInv, Reachable, All
    <2> QED  BY <2>1, <2>3, <2>4 DEF LeakInv
  <1>16. CASE UNCHANGED fvars
    <2>1. \A g, steps : Serves(g, steps)' = Serves(g, steps)
      BY <1>16 DEF Serves
    <2> QED  BY <1>16, <2>1 DEF LeakInv, SlotGiven, OpenEnds, Reachable
  <1> QED
    BY <1>1, <1>2, <1>3, <1>4, <1>5, <1>6, <1>7, <1>8, <1>9, <1>10, <1>11, <1>12, <1>13,
       <1>14, <1>15, <1>16, ConsoleAssumption
    DEF FileAction, FileStep

LEMMA LeakInvNoLeak == ASSUME FilesType, LeakInv PROVE NoLeak
  BY DEF LeakInv, Reachable, Serves, NoLeak, All, Apart

-----------------------------------------------------------------------------
(* The line that is executed *)

Contents == {"letter", "space", "zero"}

CliType ==
  /\ cmd \in [Cells -> Contents] /\ cmd_len \in 0 .. buf_size
  /\ waiting \in Nat /\ token \in Nat /\ heard \in Nat /\ started \in Nat
  /\ line \in 0 .. buf_size /\ spoiled \in BOOLEAN

\* The first n cells of cmd are characters.
Filled(n) == \A c \in Cells : c < n => cmd[c] # "zero"

\* cmd holds a line of n characters.
Holds(n) == Filled(n) /\ cmd[n] = "zero"

Pending == heard > started \/ ipc = "execute"

\* What is typed stays in cmd as it is, until a command that is executed splits it,
\* and so does a line from Enter on until it is executed, if no key is pressed; the
\* token of the condition variable is on its way or has arrived.
LineInv ==
  /\ ~spoiled /\ ipc # "execute" => Filled(cmd_len)
  /\ epc \in {"read", "lock", "broadcast", "unlock"}
  /\ epc # "read" => cmd_len = line /\ cmd[line] = "zero"
  /\ IF ipc = "asleep" THEN token + waiting = 1 ELSE token = 0 /\ waiting = 0
  /\ heard = started + token + (IF ipc = "relock" THEN 1 ELSE 0)
  /\ heard > started /\ ~spoiled => Holds(line)
  /\ ipc = "execute" /\ ~spoiled => ran = line

CliInv == CliType /\ LineInv

LEMMA LengthIs == ASSUME CliType, NEW n \in 0 .. buf_size, Holds(n) PROVE Length = n
  <1> DEFINE P(m) == /\ \A c \in Cells : c < m => cmd[c] # "zero"
                     /\ m = buf_size + 1 \/ cmd[m] = "zero"
  <1>1. P(n) /\ n \in 0 .. buf_size + 1
    BY CliAssumption DEF Holds, Filled
  <1>2. ASSUME NEW m \in 0 .. buf_size + 1, P(m) PROVE m = n
    <2>1. CASE m < n
      <3>1. m \in Cells /\ m # buf_size + 1
        BY <2>1, CliAssumption DEF Cells
      <3> QED  BY <1>2, <2>1, <3>1 DEF Holds, Filled
    <2>2. CASE n < m
      <3>1. n \in Cells
        BY CliAssumption DEF Cells
      <3> QED  BY <1>2, <2>2, <3>1 DEF Holds
    <2> QED  BY <2>1, <2>2, CliAssumption
  <1> QED  BY <1>1, <1>2 DEF Length

LEMMA InitCliInv == CliInit => CliInv
  <1> SUFFICES ASSUME CliInit PROVE CliInv
    OBVIOUS
  <1>1. cmd \in [Cells -> Contents]
    BY DEF CliInit, Contents
  <1>2. Filled(cmd_len)
    BY DEF CliInit, Filled, Cells
  <1>3. CliType
    <2>1. /\ cmd_len = 0 /\ waiting = 0 /\ token = 0 /\ heard = 0 /\ started = 0
          /\ line = 0 /\ spoiled = FALSE
      BY DEF CliInit
    <2>2. 0 \in 0 .. buf_size
      BY CliAssumption
    <2> QED  BY <1>1, <2>1, <2>2 DEF CliType
  <1>4. LineInv
    BY <1>2 DEF CliInit, LineInv
  <1> QED  BY <1>3, <1>4 DEF CliInv

CliAction ==
  \/ \E c \in {"letter", "space"} : Character(c)
  \/ Backspace \/ Enter \/ EchoLock \/ Broadcast \/ EchoUnlock
  \/ InvokerLock \/ CondWait \/ CondWakes \/ Execute \/ Executed
  \/ UNCHANGED cvars

LEMMA NextCliAction == [Next]_vars => CliAction
  BY DEF Next, vars, User, InCall, Bridge, BridgeStart, BridgeClose, BridgeDeinit, Typing,
         EchoStep, InvokerStep, CommandReturns, CliAction

LEMMA KeySpoils ==
  ASSUME CliInv, Key
  PROVE  /\ epc = "read" /\ spoiled' \in BOOLEAN /\ (spoiled => spoiled')
         /\ heard > started \/ ipc = "execute" => spoiled'
         /\ ~spoiled' => Filled(cmd_len)
  BY DEF Key, CliInv, CliType, LineInv

LEMMA NextCliInv == ASSUME CliInv, CliAction PROVE CliInv'
  <1> USE CliAssumption DEF CliInv, CliType, LineInv, Cells, Contents, lineedit, condvar,
                            clihist
  <1>1. ASSUME NEW c \in {"letter", "space"}, Character(c) PROVE CliInv'
    <2>1. CASE cmd_len < buf_size
      <3>1. cmd' = [cmd EXCEPT ![cmd_len] = c] /\ cmd_len' = cmd_len + 1
        BY <1>1, <2>1 DEF Character
      <3>2. Filled(cmd_len) => Filled(cmd_len)'
        BY <3>1 DEF Filled
      <3>3. cmd' \in [Cells -> Contents] /\ cmd_len' \in 0 .. buf_size
        BY <2>1, <3>1
      <3> QED  BY <1>1, <3>2, <3>3, KeySpoils DEF Character
    <2>2. CASE ~(cmd_len < buf_size)
      BY <1>1, <2>2, KeySpoils DEF Character, Filled
    <2> QED  BY <2>1, <2>2
  <1>2. CASE Backspace
    <2>1. Filled(cmd_len) => Filled(cmd_len)'
      BY <1>2 DEF Backspace, Filled
    <2> QED  BY <1>2, <2>1, KeySpoils DEF Backspace
  <1>3. CASE Enter
    <2>1. Filled(cmd_len) => Filled(cmd_len)'
      BY <1>3 DEF Enter, Filled
    <2>2. cmd' \in [Cells -> Contents] /\ cmd'[cmd_len] = "zero"
      BY <1>3 DEF Enter
    <2> QED  BY <1>3, <2>1, <2>2, KeySpoils DEF Enter
  <1>4. CASE EchoLock
    BY <1>4 DEF EchoLock, Holds, Filled
  <1>5. CASE Broadcast
    BY <1>5 DEF Broadcast, Holds, Filled
  <1>6. CASE EchoUnlock
    BY <1>6 DEF EchoUnlock, Holds, Filled
  <1>7. CASE InvokerLock \/ CondWait
    BY <1>7 DEF InvokerLock, CondWait, Holds, Filled
  <1>8. CASE CondWakes
    BY <1>8 DEF CondWakes, Holds, Filled
  <1>9. CASE Execute
    <2>1. heard > started /\ heard' = started' /\ ipc' = "execute" /\ spoiled' = spoiled
      BY <1>9 DEF Execute
    <2>2. ~spoiled => ran' = line
      BY <1>9, <2>1, LengthIs DEF Execute
    <2>3. cmd' \in [Cells -> Contents] /\ \A c \in Cells : cmd[c] = "zero" => cmd'[c] = "zero"
      BY <1>9 DEF Execute, Split
    <2> QED  BY <1>9, <2>1, <2>2, <2>3 DEF Execute
  <1>10. CASE Executed
    <2>1. spoiled' \in BOOLEAN /\ (~spoiled' => Filled(cmd_len))
      BY <1>10 DEF Executed, TypedIsSplit, Filled
    <2> QED  BY <1>10, <2>1 DEF Executed, Filled
  <1>11. CASE UNCHANGED cvars
    BY <1>11 DEF cvars, Holds, Filled
  <1> QED
    BY <1>1, <1>2, <1>3, <1>4, <1>5, <1>6, <1>7, <1>8, <1>9, <1>10, <1>11 DEF CliAction

LEMMA CliInvIntact == CliInv => LineIntact
  BY DEF CliInv, CliType, LineInv, LineIntact

-----------------------------------------------------------------------------
(* The theorems *)

IInv == BridgeMarked /\ FilesType /\ SlotInv /\ PortInv /\ PrivateInv /\ LeakInv /\ CliInv

\* The types and the five invariants hold together.
THEOREM Invariance == Spec => []IInv
  <1>1. Init => IInv
    BY MarkedInit, InitFilesType, InitSlotInv, InitPortInv, InitPrivateInv, InitLeakInv,
       InitCliInv
    DEF Init, IInv
  <1>2. IInv /\ [Next]_vars => IInv'
    BY MarkedNext, NextFileAction, NextFilesType, NextSlotInv, NextPortInv, NextPrivateInv,
       NextLeakInv, NextCliAction, NextCliInv
    DEF IInv
  <1> QED  BY <1>1, <1>2, PTL DEF Spec

\* fatfs_open writes inside fatfs_files while two threads open files, and past its
\* end by at most one element for each further thread.
THEOREM SlotsBounded == Spec => []SlotBound
  <1>1. IInv => SlotBound
    BY SlotInvBound DEF IInv
  <1> QED  BY Invariance, <1>1, PTL

\* A port that was never closed, and not opened by two threads at a time, has one
\* user.
THEOREM PortsExclusive == Spec => []PortExclusive
  <1>1. IInv => PortExclusive
    BY PortInvExclusive DEF IInv
  <1> QED  BY Invariance, <1>1, PTL

\* A descriptor leads to what its thread opened, and no other thread has it, unless
\* two opens raced for it or the console was bridged.
THEOREM DescriptorsPrivate == Spec => []DescriptorPrivate
  <1>1. IInv => DescriptorPrivate
    BY OwnedPrivate DEF IInv
  <1> QED  BY Invariance, <1>1, PTL

\* A descriptor in use belongs to a thread or to a call of one, but for those of FAT
\* files that fclose has closed and not freed (stdio.c:328, 190-194) or whose f_close
\* has failed (fatfs.c:264-270), however opens race for descriptors and slots
\* (fatfs.c:133-178).
THEOREM NoneLost == Spec => []NoLeak
  <1>1. IInv => NoLeak
    BY LeakInvNoLeak DEF IInv
  <1> QED  BY Invariance, <1>1, PTL

\* The line that is executed is the one entered last, unless keys were pressed since
\* (service.c:41, 106) or the command before it split what was typed of it
\* (node.c:110, 139), and for lines of every length.
THEOREM LinesIntact == Spec => []LineIntact
  <1>1. IInv => LineIntact
    BY CliInvIntact DEF IInv
  <1> QED  BY Invariance, <1>1, PTL
============================================================================

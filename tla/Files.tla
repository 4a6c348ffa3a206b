------------------------------- MODULE Files -------------------------------
(***************************************************************************)
(* os/fatfs/fsa: the table of descriptors that every thread opens and      *)
(* closes files through, and the two kinds of driver under it that keep a  *)
(* state of their own between open and close: the serial ports (usart.c,   *)
(* usb.c), which count on being opened once, and the FAT layer (fatfs.c),  *)
(* which takes a slot of an array for every file it opens.                 *)
(*                                                                         *)
(* None of the three takes a lock, so a thread can be preempted between    *)
(* any two of the steps below.  The threads stand for all callers: what a  *)
(* thread opens, and in which order it closes it, is open.                 *)
(*                                                                         *)
(* Left out: paths and the node tree, flags, the data of a file, reading   *)
(* and writing, the FatFs calls beyond whether they succeed.               *)
(***************************************************************************)
EXTENDS Integers, FiniteSets

CONSTANTS
  Threads,          \* the threads that open and close files
  Echo,             \* the thread that reads the console: it never opens
  Ports,            \* the serial ports
  Console,          \* the port under descriptors 0, 1 and 2
  Fat, Null,        \* the node of the FAT layer, and the null node
  MAX_FILES,        \* descriptors
  FATFS_MAX_FILES   \* elements of fatfs_files

ASSUME FilesAssumption ==
  /\ IsFiniteSet(Threads) /\ Threads # {} /\ Echo \notin Threads
  /\ Console \in Ports /\ Fat \notin Ports /\ Null \notin Ports /\ Fat # Null
  /\ MAX_FILES \in Nat /\ MAX_FILES >= 3
  /\ FATFS_MAX_FILES \in Nat \ {0}
  /\ Threads \cap Nat = {}

VARIABLES
  files,        \* descriptor -> files[fd] points to an entry
  node,         \* descriptor -> __files[fd].node
  data,         \* descriptor -> private_data: a slot, or the FIL on a stack
  port_open, tasks_init,   \* of each port
  fatfs_index,  \* the next free element of fatfs_files
  valid,        \* the FILs, slots and those on a stack, that are open files
  fpc,          \* where each thread is in its call
  fd,           \* the descriptor its call is about
  want,         \* the node it opens
  \* history
  held,         \* thread -> the descriptors it may use
  got,          \* thread -> the node it opened on each of them
  users,        \* port -> the threads that have it open
  raced,        \* a descriptor was taken that had been taken since it was looked up
  excused,      \* ports that were closed once, or opened by two threads at a time
  unclosed      \* descriptors taken once, whose file could not be closed since

tables == <<files, node, data>>
ports == <<port_open, tasks_init>>
fat == <<fatfs_index, valid>>
locals == <<fpc, fd, want>>
ghosts == <<held, got, users, raced, excused, unclosed>>
fvars == <<tables, ports, fat, locals, ghosts>>

Fds == 0 .. MAX_FILES - 1
Std == 0 .. 2
Nodes == Ports \cup {Fat, Null}
NoFd == -1

\* std_stream_init has opened descriptors 0, 1 and 2 on the console for the threads
\* of the command line.  cli->p.stdio stays true.
FilesInit ==
  /\ files = [f \in Fds |-> f \in Std]
  /\ node = [f \in Fds |-> IF f \in Std THEN Console ELSE Null]
  /\ data = [f \in Fds |-> NoFd]
  /\ port_open = [p \in Ports |-> p = Console]
  /\ tasks_init = [p \in Ports |-> p = Console]
  /\ fatfs_index = 0 /\ valid = {}
  /\ fpc = [t \in Threads |-> "idle"]
  /\ fd = [t \in Threads |-> NoFd]
  /\ want = [t \in Threads |-> Null]
  /\ held = [t \in Threads \cup {Echo} |-> IF t = Echo THEN Std ELSE {}]
  /\ got = [t \in Threads \cup {Echo} |->
              [f \in Fds |-> IF t = Echo /\ f \in Std THEN Console ELSE Null]]
  /\ users = [p \in Ports |-> {}]
  /\ raced = FALSE /\ excused = {} /\ unclosed = {}

Stdio(p) == p = Console

Goto(t, step) == fpc' = [fpc EXCEPT ![t] = step]

-----------------------------------------------------------------------------
(* open *)

Open(t, n) ==
  /\ fpc[t] = "idle"
  /\ want' = [want EXCEPT ![t] = n]
  /\ Goto(t, "find")
  /\ UNCHANGED <<tables, ports, fat, fd, ghosts>>

\* fd_new: the first descriptor that is free.  It is not taken yet.
fd_new(t) ==
  LET free == {f \in Fds : ~files[f]} IN
  /\ fpc[t] = "find"
  /\ IF free = {}
     THEN Goto(t, "idle") /\ UNCHANGED fd
     ELSE /\ \E f \in free : (\A g \in free : f <= g) /\ fd' = [fd EXCEPT ![t] = f]
          /\ Goto(t, "take")
  /\ UNCHANGED <<tables, ports, fat, want, ghosts>>

Take(t) ==
  LET f == fd[t] IN
  /\ fpc[t] = "take"
  /\ raced' = (raced \/ files[f])
  /\ unclosed' = unclosed \ {f}
  /\ files' = [files EXCEPT ![f] = TRUE]
  /\ node' = [node EXCEPT ![f] = want[t]]
  /\ Goto(t, "driver")
  /\ UNCHANGED <<data, ports, fat, fd, want>>
  /\ UNCHANGED <<held, got, users, excused>>

\* files[fd]->node->f_op.open: by way of the table again.  Another thread that took
\* the same descriptor may have changed the node or, its own open having failed,
\* put NULL there: the processor faults.
CallDriver(t) ==
  /\ fpc[t] = "driver"
  /\ Goto(t, CASE ~files[fd[t]] -> "fault"
               [] files[fd[t]] /\ node[fd[t]] = Fat -> "fatcheck"
               [] files[fd[t]] /\ node[fd[t]] \in Ports -> "portcheck"
               [] files[fd[t]] /\ node[fd[t]] = Null -> "opened")
  /\ want' = [want EXCEPT ![t] = node[fd[t]]]
  /\ UNCHANGED <<tables, ports, fat, fd, ghosts>>

\* The driver has succeeded: open returns the descriptor.
Opened(t) ==
  /\ fpc[t] = "opened"
  /\ held' = [held EXCEPT ![t] = @ \cup {fd[t]}]
  /\ got' = [got EXCEPT ![t][fd[t]] = want[t]]
  /\ Goto(t, "idle")
  /\ UNCHANGED <<tables, ports, fat, fd, want, users, raced, excused, unclosed>>

\* Mutant: the descriptor is kept.
OpenFailsKeeps(t) ==
  /\ fpc[t] = "failed"
  /\ Goto(t, "idle")
  /\ UNCHANGED <<tables, ports, fat, fd, want, ghosts>>

\* The driver has failed.
OpenFails(t) ==
  /\ fpc[t] = "failed"
  /\ files' = [files EXCEPT ![fd[t]] = FALSE]
  /\ Goto(t, "idle")
  /\ UNCHANGED <<node, data, ports, fat, fd, want, ghosts>>

-----------------------------------------------------------------------------
(* usart_open, usb_open *)

\* The port is refused when it is open; it needs nothing more when its tasks run.
PortCheck(t) ==
  LET p == want[t] IN
  /\ fpc[t] = "portcheck"
  /\ LET refused == port_open[p] /\ ~Stdio(p)
     IN  /\ Goto(t, IF refused THEN "failed"
                    ELSE IF tasks_init[p] THEN "opened" ELSE "portset")
         /\ users' = IF refused \/ ~tasks_init[p] THEN users
                     ELSE [users EXCEPT ![p] = @ \cup {t}]
  /\ excused' = IF \E u \in Threads : fpc[u] = "portset" /\ want[u] = p
                THEN excused \cup {p} ELSE excused
  /\ UNCHANGED <<tables, ports, fat, fd, want, held, got, raced, unclosed>>

\* Mutant: the port is not marked open.
PortSetTasksOnly(t) ==
  LET p == want[t] IN
  /\ fpc[t] = "portset"
  /\ tasks_init' = [tasks_init EXCEPT ![p] = TRUE]
  /\ users' = [users EXCEPT ![p] = @ \cup {t}]
  /\ Goto(t, "opened")
  /\ UNCHANGED <<tables, port_open, fat, fd, want>>
  /\ UNCHANGED <<held, got, raced, excused, unclosed>>

PortSet(t) ==
  LET p == want[t] IN
  /\ fpc[t] = "portset"
  /\ tasks_init' = [tasks_init EXCEPT ![p] = TRUE]
  /\ port_open' = [port_open EXCEPT ![p] = TRUE]
  /\ users' = [users EXCEPT ![p] = @ \cup {t}]
  /\ Goto(t, "opened")
  /\ UNCHANGED <<tables, fat, fd, want, held, got, raced, excused, unclosed>>

-----------------------------------------------------------------------------
(* fatfs_open *)

\* Mutant: the array is used to its end.
FatFullExactly == fatfs_index >= FATFS_MAX_FILES

FatFull == fatfs_index >= FATFS_MAX_FILES - 1

FatCheck(t) ==
  /\ fpc[t] = "fatcheck"
  /\ Goto(t, IF FatFull THEN "failed" ELSE "fatopen")
  /\ UNCHANGED <<tables, ports, fat, fd, want, ghosts>>

\* f_open, and f_lseek for O_APPEND, on a FIL on the stack, which stays open when
\* f_lseek fails and f_close after it.
FatOpenFile(t) ==
  /\ fpc[t] = "fatopen"
  /\ data' = [data EXCEPT ![fd[t]] = t]
  /\ \/ valid' = valid \cup {t} /\ Goto(t, "copy")
     \/ valid' \in {valid \ {t}, valid \cup {t}} /\ Goto(t, "failed")
  /\ UNCHANGED <<files, node, ports, fatfs_index, fd, want, ghosts>>

\* fatfs_files[fatfs_index] = tmp_file
FatCopy(t) ==
  /\ fpc[t] = "copy"
  /\ valid' = IF t \in valid THEN valid \cup {fatfs_index}
              ELSE valid \ {fatfs_index}
  /\ Goto(t, "attach")
  /\ UNCHANGED <<tables, ports, fatfs_index, fd, want, ghosts>>

\* private_data = &fatfs_files[fatfs_index]
FatAttach(t) ==
  /\ fpc[t] = "attach"
  /\ data' = [data EXCEPT ![fd[t]] = fatfs_index]
  /\ Goto(t, "count")
  /\ UNCHANGED <<files, node, ports, fat, fd, want, ghosts>>

\* fatfs_index++
FatCount(t) ==
  /\ fpc[t] = "count"
  /\ fatfs_index' = fatfs_index + 1
  /\ valid' = valid \ {t}
  /\ Goto(t, "opened")
  /\ UNCHANGED <<tables, ports, fd, want, ghosts>>

-----------------------------------------------------------------------------
(* close, fclose *)

\* A thread calls close or fclose, done with the descriptor whatever is returned.
Close(t, f) ==
  /\ fpc[t] = "idle"
  /\ fd' = [fd EXCEPT ![t] = f]
  /\ Goto(t, "close")
  /\ UNCHANGED <<tables, ports, fat, want, ghosts>>

Fclose(t, f) ==
  /\ fpc[t] = "idle" /\ f \in held[t]
  /\ fd' = [fd EXCEPT ![t] = f]
  /\ Goto(t, "fclose")
  /\ UNCHANGED <<tables, ports, fat, want, ghosts>>

\* What f_op.close of the node behind descriptor f can do: usart_close, usb_close and
\* null succeed always; f_close fails on a file that is not open, and on one that it
\* cannot write back.
CloseResults(f) ==
  IF node[f] # Fat THEN {TRUE} ELSE IF data[f] \in valid THEN BOOLEAN ELSE {FALSE}

\* A file that cannot be closed stays open; private_data of a port is not looked at.
DriverClose(t, f, closed) ==
  /\ valid' = IF closed /\ node[f] = Fat THEN valid \ {data[f]} ELSE valid
  /\ unclosed' = IF ~closed /\ data[f] \in valid THEN unclosed \cup {f} ELSE unclosed
  /\ IF node[f] \in Ports
     THEN /\ port_open' = [port_open EXCEPT ![node[f]] = FALSE]
          /\ excused' = excused \cup {node[f]}
          /\ users' = [users EXCEPT ![node[f]] = @ \ {t}]
     ELSE UNCHANGED <<port_open, excused, users>>

Drop(t, f) == held' = [held EXCEPT ![t] = @ \ {f}]

\* The call returns; the thread has no more use for the descriptor.
Return(t) == Goto(t, "idle") /\ Drop(t, fd[t])

\* fclose closes the driver, by way of the stream, before it calls close; close
\* closes it once more.
FcloseDriver(t) ==
  /\ fpc[t] = "fclose"
  /\ \E closed \in CloseResults(fd[t]) :
       /\ DriverClose(t, fd[t], closed)
       /\ IF closed THEN Goto(t, "close") /\ UNCHANGED held ELSE Return(t)
  /\ UNCHANGED <<tables, tasks_init, fatfs_index, fd, want>>
  /\ UNCHANGED <<got, raced>>

\* Mutant: the descriptor is free before the driver has closed.
CloseDriverDeleting(t) ==
  /\ fpc[t] = "close"
  /\ files' = [files EXCEPT ![fd[t]] = FALSE]
  /\ \E closed \in CloseResults(fd[t]) :
       /\ DriverClose(t, fd[t], closed)
       /\ IF closed THEN Goto(t, "delete") /\ UNCHANGED held ELSE Return(t)
  /\ UNCHANGED <<node, data, tasks_init, fatfs_index, fd, want, got, raced>>

CloseDriver(t) ==
  /\ fpc[t] = "close"
  /\ \/ /\ ~files[fd[t]]
        /\ Return(t)
        /\ UNCHANGED <<valid, port_open, excused, users, unclosed>>
     \/ /\ files[fd[t]]
        /\ \E closed \in CloseResults(fd[t]) :
             /\ DriverClose(t, fd[t], closed)
             /\ IF closed THEN Goto(t, "delete") /\ UNCHANGED held ELSE Return(t)
  /\ UNCHANGED <<tables, tasks_init, fatfs_index, fd, want>>
  /\ UNCHANGED <<got, raced>>

\* fd_delete
fd_delete(t) ==
  /\ fpc[t] = "delete"
  /\ files' = [files EXCEPT ![fd[t]] = FALSE]
  /\ Return(t)
  /\ UNCHANGED <<node, data, ports, fat, fd, want>>
  /\ UNCHANGED <<got, users, raced, excused, unclosed>>

\* std_stream_deinit: what is open on descriptor f from now on leads nowhere.
std_stream_deinit(f) ==
  /\ node' = IF files[f] THEN [node EXCEPT ![f] = Null] ELSE node
  /\ UNCHANGED <<files, data, ports, fat, locals, ghosts>>

FileStep(t) ==
  \/ fd_new(t) \/ Take(t) \/ CallDriver(t) \/ Opened(t) \/ OpenFails(t)
  \/ PortCheck(t) \/ PortSet(t)
  \/ FatCheck(t) \/ FatOpenFile(t) \/ FatCopy(t) \/ FatAttach(t) \/ FatCount(t)
  \/ FcloseDriver(t) \/ CloseDriver(t) \/ fd_delete(t)

-----------------------------------------------------------------------------
(* Correctness *)

\* fatfs_open writes inside fatfs_files as long as two threads open files.  It
\* takes its slot long after the check (fatfs.c:133, 178); the element the check
\* leaves unused is the only reason why one thread overtaking another does no harm,
\* and a third thread writes past the end.
SlotBound ==
  \A t \in Threads :
    fpc[t] \in {"copy", "attach"} =>
      fatfs_index < FATFS_MAX_FILES + Cardinality(Threads) - 2

\* Two threads have a port that is not the console open at a time only if it was
\* closed before, since usart_open returns early once the tasks run and leaves
\* port_open false (usart.c:272), or if one opened it between the check and the
\* assignment of the other (usart.c:267-287).
PortExclusive ==
  \A p \in Ports : Cardinality(users[p]) > 1 => Stdio(p) \/ p \in excused

\* A descriptor that is in use belongs to a thread, or to a call of one, so that
\* the table never fills up with descriptors nobody can close.  Two kinds of FAT
\* file break this, since close frees a descriptor only when the driver has closed
\* (stdio.c:190-194): one whose f_close failed, which stays open for ever
\* (fatfs.c:264-270), and every one that is closed with fclose, which closes the file
\* and then returns what closing it a second time returns (stdio.c:328-338).
NoLeak ==
  \A f \in Fds :
    files[f] =>
      \/ \E t \in Threads \cup {Echo} : f \in held[t]
      \/ \E t \in Threads : fd[t] = f /\ fpc[t] \notin {"idle", "find", "take"}
      \/ node[f] = Fat /\ data[f] \notin valid
      \/ f \in unclosed
============================================================================

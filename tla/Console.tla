------------------------------ MODULE Console ------------------------------
(***************************************************************************)
(* The command line on top of the descriptor table: cli_invoker is one of  *)
(* the threads that open and close files, while it executes a command, and *)
(* cli_echo reads its keys from descriptor 0.  The command serial_bridge   *)
(* on the console's own port takes the descriptors 0 to 2 away from them.  *)
(***************************************************************************)
EXTENDS Files, Cli

CONSTANTS
  Invoker,   \* the thread that executes commands
  Budgets    \* the bounds of the model: keys pressed, files each thread opens

ASSUME ConsoleAssumption ==
  /\ Invoker \in Threads
  /\ Budgets \subseteq [keys : Nat, opens : [Threads -> Nat]]

VARIABLES
  bridge,    \* progress of serial_bridge_commander: 0 outside it
  bridged,   \* history: it was called, which it is once in the model
  budget     \* keys still to be pressed and files to be opened

bvars == <<bridge, bridged>>
vars == <<fvars, cvars, bvars, budget>>

Init ==
  /\ FilesInit /\ CliInit
  /\ bridge = 0 /\ bridged = FALSE
  /\ budget \in Budgets

\* After a fault nothing runs.
Running == \A t \in Threads : fpc[t] # "fault"

\* The invoker opens and closes files as part of a command.
MayCall(t) == t = Invoker => ipc = "execute" /\ bridge = 0

User(t) ==
  /\ Running /\ MayCall(t)
  /\ \/ /\ budget.opens[t] > 0
        /\ budget' = [budget EXCEPT !.opens[t] = @ - 1]
        /\ \E n \in (Ports \ {Console}) \cup {Fat} : Open(t, n)
     \/ /\ \E f \in held[t] : Close(t, f) \/ Fclose(t, f)
        /\ UNCHANGED budget
  /\ UNCHANGED <<cvars, bvars>>

InCall(t) == Running /\ FileStep(t) /\ UNCHANGED <<cvars, bvars, budget>>

-----------------------------------------------------------------------------
(* serial_bridge_commander on the port of the console: it closes 0, 1 and 2  *)
(* and then calls std_stream_deinit for 1, 0 and 2, which finds them closed. *)
(* It opens the two ports after that, and keeps them.                        *)

BridgeStart ==
  /\ Running /\ ipc = "execute" /\ fpc[Invoker] = "idle" /\ ~bridged
  /\ bridge' = 1 /\ bridged' = TRUE
  /\ UNCHANGED <<fvars, cvars, budget>>

BridgeClose ==
  /\ Running /\ bridge \in 1 .. 3
  /\ Close(Invoker, bridge - 1)
  /\ bridge' = bridge + 1
  /\ UNCHANGED <<cvars, bridged, budget>>

BridgeDeinit ==
  /\ Running /\ bridge \in 4 .. 6 /\ fpc[Invoker] = "idle"
  /\ std_stream_deinit(<<1, 0, 2>>[bridge - 3])
  /\ bridge' = IF bridge = 6 THEN 0 ELSE bridge + 1
  /\ UNCHANGED <<cvars, bridged, budget>>

Bridge == BridgeStart \/ BridgeClose \/ BridgeDeinit

-----------------------------------------------------------------------------
\* A read from a closed descriptor returns at once, with nothing.
Typing ==
  /\ Running /\ files[0]
  /\ budget.keys > 0
  /\ budget' = [budget EXCEPT !.keys = @ - 1]
  /\ (\E c \in {"letter", "space"} : Character(c)) \/ Backspace \/ Enter
  /\ UNCHANGED <<fvars, bvars>>

EchoStep ==
  /\ Running
  /\ EchoLock \/ Broadcast \/ EchoUnlock
  /\ UNCHANGED <<fvars, bvars, budget>>

InvokerStep ==
  /\ Running
  /\ InvokerLock \/ CondWait \/ CondWakes \/ Execute
  /\ UNCHANGED <<fvars, bvars, budget>>

CommandReturns ==
  /\ Running /\ bridge = 0 /\ fpc[Invoker] = "idle"
  /\ Executed
  /\ UNCHANGED <<fvars, bvars, budget>>

Next ==
  \/ \E t \in Threads : User(t) \/ InCall(t)
  \/ Bridge
  \/ Typing \/ EchoStep
  \/ InvokerStep \/ CommandReturns

\* The two threads of the command line have one priority and run in turn.  A
\* command need not return, and nobody need press a key.
Spec == Init /\ [][Next]_vars /\ WF_vars(EchoStep) /\ WF_vars(InvokerStep)

-----------------------------------------------------------------------------
(* Correctness *)

\* A descriptor that a thread has opened leads to what it has opened, and no other
\* thread has it, unless two opens chose it at the same time, since fd_new finds a
\* descriptor without taking it (stdio.c:55, 96), or the console was bridged, which
\* takes descriptors 0 to 2 from the command line while it goes on using them and
\* may send what another thread has opened there meanwhile to the null node
\* (serial_bridge.c:269-274).
DescriptorPrivate ==
  raced \/ bridged \/
    \A t \in Threads \cup {Echo} : \A f \in held[t] :
      /\ files[f] /\ node[f] = got[t][f]
      /\ \A u \in Threads \cup {Echo} : f \in held[u] => t = u

\* A line entered while the invoker waits is executed, however the first command
\* and the other threads go on, unless the processor faults.  One that is entered
\* between two waits, or before the first, may be lost: the wait has no predicate
\* (service.c:123).
EnterHeard == heard > started ~> heard = started \/ ~Running
============================================================================

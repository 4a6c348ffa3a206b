-------------------------------- MODULE Cli --------------------------------
(***************************************************************************)
(* os/freertos/services/cli: the thread that edits a line (cli_echo) hands *)
(* it to the thread that executes it (cli_invoker) through a condition     *)
(* variable, the one buffer cmd and a mutex that cli_echo does not hold    *)
(* while it edits.                                                         *)
(*                                                                         *)
(* A cell of cmd is a letter, a space or zero, so that a line is told by   *)
(* its length.  Left out: the history and the arrow keys, the echo of what *)
(* is typed, the names of the commands and what they do with arguments.    *)
(***************************************************************************)
EXTENDS Naturals

CONSTANT buf_size   \* CLI_MAX_CMD_LENGTH

ASSUME CliAssumption == buf_size \in Nat \ {0}

VARIABLES
  cmd,          \* cell -> what it holds; the one after the last is not cmd's
  cmd_len,
  mutex,        \* holder: "none", "echo", "invoker"
  waiting,      \* the condition variable: iWaitingThreads
  token,        \* the condition variable: xCondWaitSemaphore
  epc, ipc,     \* where the two threads are
  \* history
  heard,        \* lines that were entered while the invoker waited
  started,      \* lines it has begun to execute
  line,         \* length of the last line entered
  spoiled,      \* a key was pressed before it was executed to its end, or it was
                \* split before it was entered
  ran           \* length of the line the invoker has before it

lineedit == <<cmd, cmd_len>>
condvar == <<waiting, token>>
clihist == <<heard, started, line, spoiled, ran>>
cvars == <<lineedit, mutex, condvar, epc, ipc, clihist>>

Cells == 0 .. buf_size

\* calloc has filled cmd with zeros.
CliInit ==
  /\ cmd = [c \in Cells |-> "zero"] /\ cmd_len = 0
  /\ mutex = "none" /\ waiting = 0 /\ token = 0
  /\ epc = "read" /\ ipc = "lock"
  /\ heard = 0 /\ started = 0 /\ line = 0 /\ spoiled = FALSE /\ ran = 0

\* The characters before the first zero; at least one cell is zero in every state.
Length == CHOOSE n \in 0 .. buf_size + 1 :
            /\ \A c \in Cells : c < n => cmd[c] # "zero"
            /\ n = buf_size + 1 \/ cmd[n] = "zero"

-----------------------------------------------------------------------------
(* cli_echo *)

Key ==
  /\ epc = "read"
  /\ spoiled' = (spoiled \/ heard > started \/ ipc = "execute")

\* A line that is full takes no more characters.
Character(c) ==
  /\ Key
  /\ IF cmd_len < buf_size
     THEN cmd' = [cmd EXCEPT ![cmd_len] = c] /\ cmd_len' = cmd_len + 1
     ELSE UNCHANGED lineedit
  /\ UNCHANGED <<mutex, condvar, epc, ipc, heard, started, line, ran>>

Backspace ==
  /\ Key
  /\ cmd_len' = IF cmd_len = 0 THEN 0 ELSE cmd_len - 1
  /\ UNCHANGED <<cmd, mutex, condvar, epc, ipc, heard, started, line, ran>>

\* Mutant: the line is not terminated.
EnterUnterminated ==
  /\ Key
  /\ epc' = "lock"
  /\ line' = cmd_len
  /\ UNCHANGED <<cmd, cmd_len, mutex, condvar, ipc, heard, started, ran>>

\* The line is terminated: one cell behind cmd when it is full.
Enter ==
  /\ Key
  /\ cmd' = [cmd EXCEPT ![cmd_len] = "zero"]
  /\ epc' = "lock"
  /\ line' = cmd_len
  /\ UNCHANGED <<cmd_len, mutex, condvar, ipc, heard, started, ran>>

EchoLock ==
  /\ epc = "lock" /\ mutex = "none"
  /\ mutex' = "echo"
  /\ epc' = "broadcast"
  /\ UNCHANGED <<lineedit, condvar, ipc, clihist>>

\* pthread_cond_broadcast: one token for every thread that waits, and nothing for
\* one that is about to.
Broadcast ==
  /\ epc = "broadcast"
  /\ token' = token + waiting
  /\ waiting' = 0
  /\ heard' = heard + waiting
  /\ epc' = "unlock"
  /\ UNCHANGED <<lineedit, mutex, ipc, started, line, spoiled, ran>>

\* Mutant: the mutex is not given back.
EchoKeepsLock ==
  /\ epc = "unlock"
  /\ cmd_len' = 0
  /\ epc' = "read"
  /\ UNCHANGED <<cmd, mutex, condvar, ipc, clihist>>

EchoUnlock ==
  /\ epc = "unlock"
  /\ mutex' = "none"
  /\ cmd_len' = 0
  /\ epc' = "read"
  /\ UNCHANGED <<cmd, condvar, ipc, clihist>>

-----------------------------------------------------------------------------
(* cli_invoker *)

\* pthread_mutex_lock, and pthread_cond_wait, which counts the thread as waiting
\* before it gives the mutex.
InvokerLock ==
  /\ ipc = "lock" /\ mutex = "none"
  /\ mutex' = "invoker"
  /\ ipc' = "wait"
  /\ UNCHANGED <<lineedit, condvar, epc, clihist>>

CondWait ==
  /\ ipc = "wait"
  /\ waiting' = waiting + 1
  /\ mutex' = "none"
  /\ ipc' = "asleep"
  /\ UNCHANGED <<lineedit, token, epc, clihist>>

CondWakes ==
  /\ ipc = "asleep" /\ token > 0
  /\ token' = token - 1
  /\ ipc' = "relock"
  /\ UNCHANGED <<lineedit, mutex, waiting, epc, clihist>>

\* What cli_cmd_execute leaves of the line: a zero behind each of its words.
Split ==
  [c \in Cells |-> IF c < Length /\ c > 0 /\ cmd[c] = "space" /\ cmd[c - 1] = "letter"
                   THEN "zero" ELSE cmd[c]]

\* cli_cmd_execute reads cmd with the mutex held.  It leaves it alone if the line is
\* empty or begins with no command, and splits it in place otherwise, with whatever
\* cli_echo has in it by then.
Execute ==
  /\ ipc = "relock" /\ mutex = "none"
  /\ mutex' = "invoker"
  /\ ran' = Length
  /\ started' = started + 1
  /\ ipc' = "execute"
  /\ \/ UNCHANGED cmd
     \/ cmd[0] = "letter" /\ cmd' = Split
  /\ UNCHANGED <<cmd_len, condvar, epc, heard, line, spoiled>>

\* The line that is being typed, or waits for the mutex, was split by the command.
TypedIsSplit == \E c \in Cells : c < cmd_len /\ cmd[c] = "zero"

\* The command has returned.  The mutex is given before the prompt is written and
\* the next wait begins.
Executed ==
  /\ ipc = "execute"
  /\ mutex' = "none"
  /\ spoiled' = TypedIsSplit
  /\ ipc' = "lock"
  /\ UNCHANGED <<lineedit, condvar, epc, heard, started, line, ran>>

-----------------------------------------------------------------------------
(* Correctness *)

\* What the invoker executes is the line entered last, as long as it was typed,
\* unless a key was pressed before it was done, or the command before it was executed
\* while it was being typed: cli_echo edits cmd without the mutex (service.c:41, 106),
\* so that typing ahead changes the command that is about to run, and the command
\* that runs cuts what was typed ahead at its first space (node.c:110, 139).  And no
\* line is executed for which no Enter was heard.
LineIntact ==
  /\ ipc = "execute" => ran = line \/ spoiled
  /\ started <= heard
============================================================================

----------------------------- MODULE HwThreads -----------------------------
(***************************************************************************)
(* The hardware threads of the CPU: startup/xenon/startup_from_xell.S and  *)
(* libxenon/drivers/xenon_soc/xenon_power.c with cpusleep.S.               *)
(*                                                                         *)
(* Core c has the threads 2c (primary) and 2c + 1 (its secondary).  Thread *)
(* 0 runs the application's main(); each other thread t runs the loop at   *)
(* the label "secondary", which takes a task from its two-word mailbox     *)
(* wait[2t], wait[2t+1] and calls it.  Putting a thread to sleep is such a *)
(* task.  Each action has at most one access to shared memory, and those   *)
(* accesses take effect in program order.                                  *)
(***************************************************************************)
EXTENDS Integers, FiniteSets

CONSTANTS
  Cores,       \* number of cores
  Task,        \* tasks of the application
  Programs,    \* applications: the entry points main() uses, whether it waits for
               \* a task's end before the next call, and how many calls it makes
  Sleep,       \* the task xenon_thread_sleep
  None         \* a zero word

ASSUME HwAssumption ==
  /\ Cores \in Nat \ {0}
  /\ Programs \subseteq [api : SUBSET {"startup", "post", "sleep", "single", "faster"},
                          joins : BOOLEAN, most : Nat]
  /\ Sleep \notin Task /\ None \notin Task /\ Sleep # None

VARIABLES
  lockBits,    \* secondary_lock, as a set of thread numbers
  alive,       \* secondary_alive, likewise
  task,        \* wait[2t]
  stack,       \* wait[2t+1]: the task the stack was posted with
  state,       \* thread_state[t]
  pc,          \* where each thread is
  cur,         \* the task a thread has taken (its CTR)
  r1,          \* the stack a thread runs on
  ipi,         \* threads with a pending wake-up interrupt
  call,        \* what thread 0 is executing, "none" in the application
  what, to,    \* the task it posts, and the thread it is busy with
  calls,       \* calls made so far
  program,     \* the application
  owed,        \* history: posts accepted less tasks begun
  late         \* history: threads whose stack word was stored under the loop's feet

mailVars == <<task, stack>>
mainVars == <<call, what, to, calls>>
ghosts == <<program, owed, late>>
vars == <<lockBits, alive, mailVars, state, pc, cur, r1, ipi, mainVars, ghosts>>

Thread == 0 .. (2 * Cores - 1)
Others == Thread \ {0}
Primary(t) == t % 2 = 0
Mate(t) == t + 1
Work == Task \cup {Sleep}

Init ==
  /\ lockBits = {} /\ alive = {}
  /\ task = [t \in Others |-> None]
  /\ stack = [t \in Others |-> None]
  /\ state = [t \in Others |-> FALSE]
  /\ pc = [t \in Thread |-> IF t = 0 THEN "start" ELSE "parked"]
  /\ cur = [t \in Others |-> None]
  /\ r1 = [t \in Others |-> None]
  /\ ipi = {}
  /\ call = "none" /\ what = None /\ to = 0 /\ calls = 0
  /\ program \in Programs
  /\ owed = [w \in Work |-> 0]
  /\ late = {}

Goto(t, l) == pc' = [pc EXCEPT ![t] = l]
At(t, l) == pc[t] = l

-----------------------------------------------------------------------------
(* Startup code, on every thread.                                          *)

(* The loop at 0x60: a thread waits for its bit of secondary_lock.         *)
Unpark(t) ==
  /\ At(t, "parked") /\ t \in lockBits
  /\ Goto(t, "start")
  /\ UNCHANGED <<lockBits, alive, mailVars, state, cur, r1, ipi, mainVars, ghosts>>

(* It lets its core's secondary thread go (atomic_clearset) ...            *)
WakeSecondary(t) ==
  /\ At(t, "start")
  /\ lockBits' = lockBits \cup {IF Primary(t) THEN Mate(t) ELSE t}
  /\ Goto(t, "report")
  /\ UNCHANGED <<alive, mailVars, state, cur, r1, ipi, mainVars, ghosts>>

(* ... and reports itself; thread 0 goes to main(), the others to the loop.*)
ReportAlive(t) ==
  /\ At(t, "report")
  /\ alive' = alive \cup {t}
  /\ Goto(t, IF t = 0 THEN "main" ELSE "loop")
  /\ UNCHANGED <<lockBits, mailVars, state, cur, r1, ipi, mainVars, ghosts>>

-----------------------------------------------------------------------------
(* The loop of the other threads.                                          *)

TakeTask(t) ==
  /\ At(t, "loop") /\ task[t] # None
  /\ cur' = [cur EXCEPT ![t] = task[t]]
  /\ Goto(t, "load")
  /\ UNCHANGED <<lockBits, alive, mailVars, state, r1, ipi, mainVars, ghosts>>

LoadStack(t) ==
  /\ At(t, "load")
  /\ r1' = [r1 EXCEPT ![t] = stack[t]]
  /\ Goto(t, "clear")
  /\ UNCHANGED <<lockBits, alive, mailVars, state, cur, ipi, mainVars, ghosts>>

(* Mutation: the task word stays. *)
ClearTask_Skipped(t) ==
  /\ At(t, "clear")
  /\ Goto(t, "wipe")
  /\ UNCHANGED <<lockBits, alive, mailVars, state, cur, r1, ipi, mainVars, ghosts>>

(* The task word is cleared first: from here on the thread can be posted   *)
(* to again ...                                                            *)
ClearTask(t) ==
  /\ At(t, "clear")
  /\ task' = [task EXCEPT ![t] = None]
  /\ Goto(t, "wipe")
  /\ UNCHANGED <<lockBits, alive, stack, state, cur, r1, ipi, mainVars, ghosts>>

(* ... then the stack word, and the task is called.  One called without a  *)
(* stack faults on its first store and never returns.                      *)
ClearStack(t) ==
  /\ At(t, "wipe")
  /\ stack' = [stack EXCEPT ![t] = None]
  /\ owed' = [owed EXCEPT ![cur[t]] = @ - 1]
  /\ Goto(t, IF r1[t] = None THEN "fault" ELSE IF cur[t] = Sleep THEN "prepare" ELSE "run")
  /\ UNCHANGED <<lockBits, alive, task, state, cur, r1, ipi, mainVars, program, late>>

TaskEnds(t) ==
  /\ At(t, "run")
  /\ cur' = [cur EXCEPT ![t] = None]
  /\ Goto(t, "loop")
  /\ UNCHANGED <<lockBits, alive, mailVars, state, r1, ipi, mainVars, ghosts>>

-----------------------------------------------------------------------------
(* xenon_thread_sleep.                                                     *)

(* Mutation: no wait. *)
MateOff_Unchecked(t) == TRUE

(* prepare_sleep: a primary thread waits until its secondary is off.       *)
MateOff(t) == Primary(t) => At(Mate(t), "off")

Prepare(t) ==
  /\ At(t, "prepare") /\ MateOff(t)
  /\ Goto(t, "mark")
  /\ UNCHANGED <<lockBits, alive, mailVars, state, cur, r1, ipi, mainVars, ghosts>>

MarkAsleep(t) ==
  /\ At(t, "mark")
  /\ state' = [state EXCEPT ![t] = TRUE]
  /\ Goto(t, "cpusleep")
  /\ UNCHANGED <<lockBits, alive, mailVars, cur, r1, ipi, mainVars, ghosts>>

CpuSleep(t) ==
  /\ At(t, "cpusleep")
  /\ Goto(t, "off")
  /\ UNCHANGED <<lockBits, alive, mailVars, state, cur, r1, ipi, mainVars, ghosts>>

(* A primary thread comes back by an interrupt, through the reset vector.  *)
IpiWakes(t) ==
  /\ At(t, "off") /\ t \in ipi
  /\ ipi' = ipi \ {t}
  /\ Goto(t, "woken")
  /\ UNCHANGED <<lockBits, alive, mailVars, state, cur, r1, mainVars, ghosts>>

MarkAwake(t) ==
  /\ At(t, "woken")
  /\ state' = [state EXCEPT ![t] = FALSE]
  /\ cur' = IF Primary(t) THEN cur ELSE [cur EXCEPT ![t] = None]
  /\ Goto(t, IF Primary(t) THEN "wakemate" ELSE "loop")
  /\ UNCHANGED <<lockBits, alive, mailVars, r1, ipi, mainVars, ghosts>>

(* wakeup_secondary turns both threads of the core on: nothing happens to  *)
(* one that is on already.                                                 *)
TurnOn(t, l) ==
  pc' = [pc EXCEPT ![t] = l, ![Mate(t)] = IF @ = "off" THEN "woken" ELSE @]

WakeMate(t) ==
  /\ At(t, "wakemate")
  /\ TurnOn(t, "loop")
  /\ cur' = [cur EXCEPT ![t] = None]
  /\ UNCHANGED <<lockBits, alive, mailVars, state, r1, ipi, mainVars, ghosts>>

-----------------------------------------------------------------------------
(* The application on thread 0.                                            *)

(* A task of the application that thread t has not finished.               *)
Unfinished(t) == task[t] \in Task \/ cur[t] \in Task

MayCall(c, ts) ==
  /\ At(0, "main") /\ c \in program.api /\ calls < program.most
  /\ program.joins => \A t \in ts : ~Unfinished(t)
  /\ call' = c
  /\ calls' = calls + 1

(* xenon_run_thread_task and xenon_sleep_thread.                           *)
CallPost(t, w) ==
  /\ MayCall(IF w = Sleep THEN "sleep" ELSE "post", {t})
  /\ what' = w /\ to' = t
  /\ Goto(0, "try")
  /\ UNCHANGED <<lockBits, alive, mailVars, state, cur, r1, ipi, ghosts>>

(* xenon_thread_startup by itself, and xenon_set_single_thread_mode by      *)
(* itself or from xenon_make_it_faster.                                    *)
CallStartup ==
  /\ MayCall("startup", {})
  /\ Goto(0, "startup")
  /\ UNCHANGED <<lockBits, alive, mailVars, state, cur, r1, ipi, what, to, ghosts>>

CallSingle(c) ==
  /\ c \in {"single", "faster"}
  /\ MayCall(c, Others)
  /\ what' = Sleep /\ to' = 1
  /\ Goto(0, "check")
  /\ UNCHANGED <<lockBits, alive, mailVars, state, cur, r1, ipi, ghosts>>

CheckAlive ==
  /\ At(0, "check")
  /\ Goto(0, IF alive = Thread THEN "try" ELSE "startup")
  /\ UNCHANGED <<lockBits, alive, mailVars, state, cur, r1, ipi, mainVars, ghosts>>

(* xenon_thread_startup: a plain store of the primary threads' bits ...    *)
Startup ==
  /\ At(0, "startup")
  /\ lockBits' = {t \in Others : Primary(t)}
  /\ Goto(0, "await")
  /\ UNCHANGED <<alive, mailVars, state, cur, r1, ipi, mainVars, ghosts>>

(* ... and the wait until every thread has reported itself.                *)
AllAlive ==
  /\ At(0, "await") /\ alive = Thread
  /\ Goto(0, IF call = "startup" THEN "main" ELSE "try")
  /\ call' = IF call = "startup" THEN "none" ELSE call
  /\ UNCHANGED <<lockBits, alive, mailVars, state, cur, r1, ipi, what, to,
                 calls, ghosts>>

(* The loops over the other threads.                                       *)
Last == 2 * Cores - 1

ToNext(l, exit) ==
  IF to < Last THEN to' = to + 1 /\ Goto(0, l)
  ELSE to' = 1 /\ Goto(0, exit)

Looping == call \in {"single", "faster"}

(* xenon_run_thread_task, the test: a busy thread is refused, and the loop *)
(* of xenon_set_single_thread_mode tries again.                            *)
TestBusy ==
  /\ At(0, "try")
  /\ ~(Looping /\ task[to] # None)
  /\ Goto(0, IF task[to] = None THEN "putstack" ELSE "main")
  /\ call' = IF task[to] = None THEN call ELSE "none"
  /\ UNCHANGED <<lockBits, alive, mailVars, state, cur, r1, ipi, what, to,
                 calls, ghosts>>

(* Mutation: the stack is not stored. *)
PutStack_Forgotten ==
  /\ At(0, "putstack")
  /\ Goto(0, "puttask")
  /\ UNCHANGED <<lockBits, alive, mailVars, state, cur, r1, ipi, mainVars, ghosts>>

(* The stack word may be stored between the two stores of the loop, which  *)
(* then clears it.                                                         *)
PutStack ==
  /\ At(0, "putstack")
  /\ stack' = [stack EXCEPT ![to] = what]
  /\ late' = IF At(to, "wipe") THEN late \cup {to} ELSE late
  /\ Goto(0, "puttask")
  /\ UNCHANGED <<lockBits, alive, task, state, cur, r1, ipi, mainVars, program, owed>>

PutTask ==
  /\ At(0, "puttask")
  /\ task' = [task EXCEPT ![to] = what]
  /\ owed' = [owed EXCEPT ![what] = @ + 1]
  /\ IF Looping THEN ToNext("try", "collect") /\ UNCHANGED call
     ELSE Goto(0, "main") /\ call' = "none" /\ UNCHANGED to
  /\ UNCHANGED <<lockBits, alive, stack, state, cur, r1, ipi, what, calls, program, late>>

(* Mutation: only the first thread is waited for. *)
Collect_First ==
  /\ At(0, "collect") /\ state[1]
  /\ to' = 1
  /\ Goto(0, "settle")
  /\ UNCHANGED <<lockBits, alive, mailVars, state, cur, r1, ipi, call, what,
                 calls, ghosts>>

(* while (!thread_state[i]).                                               *)
Collect ==
  /\ At(0, "collect") /\ state[to]
  /\ ToNext("collect", "settle")
  /\ UNCHANGED <<lockBits, alive, mailVars, state, cur, r1, ipi, call, what,
                 calls, ghosts>>

(* prepare_sleep on thread 0 itself.                                       *)
Settle ==
  /\ At(0, "settle") /\ MateOff(0)
  /\ Goto(0, IF call = "faster" THEN "speed" ELSE "main")
  /\ call' = IF call = "faster" THEN call ELSE "none"
  /\ UNCHANGED <<lockBits, alive, mailVars, state, cur, r1, ipi, what, to,
                 calls, ghosts>>

(* xenon_set_speed: a timer wakes thread 0 from the sleep in it.           *)
SetSpeed ==
  /\ At(0, "speed")
  /\ Goto(0, "wakeup")
  /\ UNCHANGED <<lockBits, alive, mailVars, state, cur, r1, ipi, mainVars, ghosts>>

(* wakeup_cpus: one store sends the interrupts, then its own secondary.    *)
SendIpis ==
  /\ At(0, "wakeup")
  /\ ipi' = ipi \cup {t \in Others : Primary(t)}
  /\ Goto(0, "wakemate")
  /\ UNCHANGED <<lockBits, alive, mailVars, state, cur, r1, mainVars, ghosts>>

WakeOwnMate ==
  /\ At(0, "wakemate")
  /\ TurnOn(0, "back")
  /\ UNCHANGED <<lockBits, alive, mailVars, state, cur, r1, ipi, mainVars, ghosts>>

(* Mutation: no wait. *)
ComeBack_Unchecked ==
  /\ At(0, "back")
  /\ ToNext("back", "fine")
  /\ UNCHANGED <<lockBits, alive, mailVars, state, cur, r1, ipi, call, what,
                 calls, ghosts>>

(* while (thread_state[i]), then "fine, they all came back".               *)
ComeBack ==
  /\ At(0, "back") /\ ~state[to]
  /\ ToNext("back", "fine")
  /\ UNCHANGED <<lockBits, alive, mailVars, state, cur, r1, ipi, call, what,
                 calls, ghosts>>

Fine ==
  /\ At(0, "fine")
  /\ Goto(0, "main")
  /\ call' = "none"
  /\ UNCHANGED <<lockBits, alive, mailVars, state, cur, r1, ipi, what, to,
                 calls, ghosts>>

-----------------------------------------------------------------------------
Boot(t) == Unpark(t) \/ WakeSecondary(t) \/ ReportAlive(t)

Loop(t) == TakeTask(t) \/ LoadStack(t) \/ ClearTask(t) \/ ClearStack(t)
           \/ TaskEnds(t)

Nap(t) == Prepare(t) \/ MarkAsleep(t) \/ CpuSleep(t) \/ IpiWakes(t)
          \/ MarkAwake(t) \/ WakeMate(t)

Inside == CheckAlive \/ Startup \/ AllAlive \/ TestBusy \/ PutStack \/ PutTask \/ Collect \/ Settle
          \/ SetSpeed \/ SendIpis \/ WakeOwnMate \/ ComeBack \/ Fine

Next ==
  \/ \E t \in Thread : Boot(t)
  \/ \E t \in Others : Loop(t) \/ Nap(t)
  \/ \E t \in Others, w \in Work : CallPost(t, w)
  \/ CallStartup
  \/ \E c \in {"single", "faster"} : CallSingle(c)
  \/ Inside

Spec == Init /\ [][Next]_vars

(* Each hardware thread runs on, and a task of the application ends.       *)
FairSpec == /\ Spec
            /\ \A t \in Thread : WF_vars(Boot(t))
            /\ \A t \in Others : WF_vars(Loop(t)) /\ WF_vars(Nap(t))
            /\ WF_vars(Inside)

-----------------------------------------------------------------------------
(* Properties.                                                             *)

(* A program that waits for its tasks, and has threads sleep for a change  *)
(* of the speed only.                                                      *)
Patient == program.joins /\ "sleep" \notin program.api /\ "single" \notin program.api

(* A task is called on the stack it was posted with, or on none: never on  *)
(* another task's.  On none exactly the threads can end up that are posted *)
(* to between the loop's two stores, whose second one takes the new stack  *)
(* away; a program that waits for its tasks never comes between them.      *)
StackGiven ==
  /\ \A t \in Others : /\ At(t, "wipe") => r1[t] = cur[t] \/ (t \in late /\ r1[t] = None)
                       /\ At(t, "fault") => t \in late
  /\ Patient => late = {}

(* Every post that xenon_run_thread_task accepts leads to exactly one call *)
(* of the task: what is owed is what lies in a mailbox or in the hands of  *)
(* a thread that is about to call it.  So for every program, also one that *)
(* posts to busy threads and is refused.                                   *)
PostsExact ==
  \A w \in Work :
    owed[w] = Cardinality({t \in Others : task[t] = w
                                          /\ pc[t] \notin {"load", "clear"}})
            + Cardinality({t \in Others : cur[t] = w
                                          /\ pc[t] \in {"load", "clear", "wipe"}})

(* The clock of the CPU changes only while no other thread executes        *)
(* anything but the end of cpusleep, whatever else the program has posted.  *)
QuietAtSpeed ==
  At(0, "speed") => \A t \in Others : pc[t] \in {"cpusleep", "off"}

(* When xenon_make_it_faster prints "fine, they all came back", every      *)
(* thread executes the loop or is about to, if the program had put none to *)
(* sleep before, whose second sleep would then follow the first.           *)
AllBack ==
  Patient /\ At(0, "fine") => \A t \in Others : pc[t] \in {"loop", "wakemate"}

(* Once every thread is alive xenon_make_it_faster returns, in a program    *)
(* that waits for its tasks: a thread without a stack never goes to sleep. *)
FasterReturns ==
  Patient /\ call = "faster" /\ At(0, "try") ~> call = "none"

(* xenon_thread_startup returns: its comment is "wait until all are alive".*)
StartupReturns == At(0, "await") ~> ~At(0, "await")
=============================================================================

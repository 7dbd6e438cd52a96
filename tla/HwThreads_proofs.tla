--------------------------- MODULE HwThreads_proofs ---------------------------
(***************************************************************************)
(* The hardware threads, for any number of cores.  In a program that waits *)
(* for its tasks and lets threads sleep through xenon_make_it_faster only, *)
(* the speed changes while every other thread is asleep, and all of them   *)
(* are awake again when it returns (HwInv).  In any program whatever, a    *)
(* task gets its own stack or none, and each post accepted is one call     *)
(* (MailInv).                                                              *)
(***************************************************************************)
EXTENDS HwThreads, FiniteSetTheorems, TLAPS

(* The places of a thread before it takes a task, and of thread 0.         *)
Booting == {"parked", "start", "report"}
Waiting == Booting \cup {"loop"}
Asleep == {"cpusleep", "off"}
Falling == {"prepare", "mark"} \cup Asleep
Rising == {"woken", "wakemate"}
Places == Waiting \cup {"load", "clear", "wipe", "run"} \cup Falling \cup Rising

Calls == {"main", "check", "startup", "await", "try", "putstack", "puttask", "collect", "settle",
          "speed", "wakeup", "back", "fine"}

HwTyped ==
  /\ pc \in [Thread -> Places \cup Calls]
  /\ \A t \in Others : pc[t] \in Places
  /\ task \in [Others -> Work \cup {None}] /\ stack \in [Others -> Work \cup {None}]
  /\ cur \in [Others -> Work \cup {None}] /\ r1 \in [Others -> Work \cup {None}]
  /\ state \in [Others -> BOOLEAN]
  /\ alive \subseteq Thread
  /\ ipi \subseteq Others
  /\ to \in Others \cup {0}

(* What the words of the mailbox and the thread's registers have to do     *)
(* with each other.                                                        *)
MailRight(t) ==
  /\ pc[t] \in Waiting => cur[t] = None /\ (task[t] # None => stack[t] = task[t])
  /\ pc[t] = "load" => cur[t] # None /\ task[t] = cur[t] /\ stack[t] = cur[t]
  /\ pc[t] = "clear" => cur[t] # None /\ task[t] = cur[t] /\ r1[t] = cur[t]
  /\ pc[t] = "wipe" => cur[t] # None /\ task[t] = None /\ r1[t] = cur[t]
  /\ pc[t] = "run" => cur[t] \in Task /\ task[t] = None
  /\ pc[t] \in Falling \cup Rising => cur[t] = Sleep /\ task[t] = None

(* Thread 0 writes to the mailbox of a thread that waits for it.           *)
PostRight ==
  pc[0] \in {"try", "putstack", "puttask"} =>
    /\ to \in Others /\ what \in Work
    /\ pc[to] \in Waiting /\ task[to] = None
    /\ pc[0] = "puttask" => stack[to] = what

Resting(t) == pc[t] = "loop" /\ task[t] = None /\ ~state[t]

(* On the way to sleep; a primary thread does not go before its secondary. *)
GoingDown(t) ==
  /\ pc[t] \in {"loop", "load", "clear", "wipe"} \cup Falling
  /\ pc[t] = "loop" => task[t] = Sleep
  /\ pc[t] # "loop" => cur[t] = Sleep
  /\ (state[t] <=> pc[t] \in Asleep)
  /\ Primary(t) /\ pc[t] \in {"mark", "cpusleep", "off"} => pc[Mate(t)] = "off"

(* On the way back; a primary thread wakes its secondary.                  *)
ComingBack(t) ==
  /\ task[t] = None
  /\ Primary(t) =>
       /\ pc[t] \in Asleep \cup Rising \cup {"loop"}
       /\ (state[t] <=> pc[t] \in Asleep \cup {"woken"})
       /\ (t \in ipi <=> pc[t] \in Asleep)
       /\ pc[t] # "loop" => pc[Mate(t)] = "off"
  /\ ~Primary(t) =>
       /\ pc[t] \in {"off", "woken", "loop"}
       /\ (state[t] <=> pc[t] # "loop")
       /\ t \notin ipi

(* Where xenon_make_it_faster is, and what this says of the others.        *)
Ordinary ==
  \/ pc[0] \in {"start", "report", "main"} /\ call = "none"
  \/ pc[0] \in {"startup", "await"} /\ call = "startup"
  \/ pc[0] \in {"try", "putstack", "puttask"} /\ call = "post" /\ what \in Task
  \/ pc[0] \in {"check", "startup", "await"} /\ call = "faster" /\ what = Sleep /\ to = 1

Faster == call = "faster" /\ what = Sleep /\ to \in Others

Outside ==
  /\ Ordinary
  /\ ipi = {}
  /\ \A t \in Others : task[t] # Sleep /\ cur[t] # Sleep /\ ~state[t]
  /\ call = "faster" => \A t \in Others : task[t] = None /\ cur[t] = None

Posting ==
  /\ Faster /\ pc[0] \in {"try", "putstack", "puttask"}
  /\ ipi = {}
  /\ \A t \in Others : IF t < to THEN GoingDown(t) ELSE Resting(t)

Collecting ==
  /\ Faster /\ pc[0] = "collect"
  /\ ipi = {}
  /\ \A t \in Others : GoingDown(t) /\ (t < to => state[t])

Quiet ==
  /\ Faster /\ pc[0] \in {"settle", "speed", "wakeup"} /\ to = 1
  /\ ipi = {}
  /\ \A t \in Others : GoingDown(t) /\ state[t]
  /\ pc[0] # "settle" => pc[1] = "off"

Waking ==
  /\ Faster /\ pc[0] \in {"wakemate", "back"}
  /\ \A t \in Others : ComingBack(t) /\ (t < to => ~state[t])
  /\ pc[0] = "wakemate" => to = 1 /\ pc[1] = "off"

AllUp ==
  /\ Faster /\ pc[0] = "fine"
  /\ ipi = {}
  /\ \A t \in Others : Resting(t)

Protocol == Outside \/ Posting \/ Collecting \/ Quiet \/ Waking \/ AllUp

HwInv ==
  /\ HwTyped
  /\ \A t \in Others : MailRight(t)
  /\ PostRight
  /\ Protocol
  /\ \A t \in Others : t \in alive => pc[t] \notin Booting
-----------------------------------------------------------------------------
(* Threads and their secondaries. *)
LEMMA Mates ==
  /\ 0 \in Thread /\ 1 \in Others /\ Mate(0) = 1 /\ Primary(0) /\ ~Primary(1)
  /\ \A t \in Others : t \in Thread /\ t # 0 /\ t \in Nat /\ t >= 1
  /\ \A t \in Thread : t # 0 => t \in Others
  /\ \A t \in Others : Primary(t) => /\ Mate(t) \in Others /\ ~Primary(Mate(t))
                                     /\ Mate(t) # t /\ Mate(t) # 1
  /\ \A t, u \in Others : Mate(t) = Mate(u) => t = u
  /\ \A t \in Others : ~Primary(t) => t = 1 \/ \E p \in Others : Primary(p) /\ Mate(p) = t
<1> USE DEF Thread, Others, Primary, Mate
<1>1. Cores \in Nat /\ Cores >= 1
  BY HwAssumption DEF HwAssumption
<1>2. \A t \in Others : Primary(t) => Mate(t) \in Others /\ ~Primary(Mate(t))
  <2> SUFFICES ASSUME NEW t \in Others, Primary(t)
               PROVE  t + 1 <= 2 * Cores - 1 /\ (t + 1) % 2 # 0
    BY <1>1
  <2>1. PICK k \in Nat : t = 2 * k
    BY <1>1
  <2> QED BY <1>1, <2>1
<1>3. \A t \in Others : ~Primary(t) => t = 1 \/ \E p \in Others : Primary(p) /\ Mate(p) = t
  <2> SUFFICES ASSUME NEW t \in Others, ~Primary(t), t # 1
               PROVE  t - 1 \in Others /\ Primary(t - 1) /\ Mate(t - 1) = t
    OBVIOUS
  <2> QED BY <1>1
<1> QED BY <1>1, <1>2, <1>3

LEMMA Moved ==
  ASSUME HwTyped, NEW t \in Thread, NEW l \in Places \cup Calls, pc' = [pc EXCEPT ![t] = l]
  PROVE  /\ pc' \in [Thread -> Places \cup Calls]
         /\ pc'[t] = l /\ \A u \in Thread : u # t => pc'[u] = pc[u]
  BY DEF HwTyped
-----------------------------------------------------------------------------
(* A step of thread t, which is on, that touches only what is its own.     *)
Own(t) ==
  /\ UNCHANGED <<call, what, to, ipi>>
  /\ alive' = alive \/ alive' = alive \cup {t}
  /\ \A u \in Others : u # t => /\ task'[u] = task[u] /\ stack'[u] = stack[u] /\ cur'[u] = cur[u]
                                /\ r1'[u] = r1[u] /\ state'[u] = state[u]
  /\ task' \in [Others -> Work \cup {None}] /\ stack' \in [Others -> Work \cup {None}]
  /\ cur' \in [Others -> Work \cup {None}] /\ r1' \in [Others -> Work \cup {None}]
  /\ state' \in [Others -> BOOLEAN]

(* It stays in each of the groups it may be in. *)
Stays(t) ==
  /\ MailRight(t) => MailRight(t)'
  /\ pc[t] \in Waiting /\ task[t] = None =>
       pc'[t] \in Waiting /\ task'[t] = None /\ stack'[t] = stack[t]
  /\ task[t] # Sleep /\ cur[t] # Sleep /\ ~state[t] => task'[t] # Sleep /\ cur'[t] # Sleep /\ ~state'[t]
  /\ task[t] = None /\ cur[t] = None => task'[t] = None /\ cur'[t] = None
  /\ GoingDown(t) => GoingDown(t)' /\ (state[t] => state'[t])
  /\ Resting(t) => Resting(t)'
  /\ ComingBack(t) => ComingBack(t)' /\ (~state[t] => ~state'[t])
  /\ t \in alive' => pc'[t] \notin Booting

LEMMA AloneKept ==
  ASSUME HwInv, NEW t \in Others, NEW l \in Places, pc' = [pc EXCEPT ![t] = l],
         pc[t] # "off", Own(t), Stays(t)
  PROVE  HwInv'
<1>0. t \in Thread /\ t # 0 /\ 0 \in Thread /\ \A u \in Others : u \in Thread
  BY Mates
<1>1. /\ pc' \in [Thread -> Places \cup Calls]
      /\ pc'[t] = l /\ pc'[0] = pc[0] /\ \A u \in Others : u # t => pc'[u] = pc[u]
  BY <1>0, Moved DEF HwInv
<1>2. \A u \in Others : u # t => task'[u] = task[u] /\ stack'[u] = stack[u] /\ cur'[u] = cur[u]
                                /\ r1'[u] = r1[u] /\ state'[u] = state[u]
  BY DEF Own
<1>3. UNCHANGED <<call, what, to, ipi>>
  BY DEF Own
<1>4. HwTyped'
  BY <1>0, <1>1, <1>3 DEF HwInv, HwTyped, Own
<1>5. ASSUME NEW u \in Others PROVE MailRight(u)'
  <2>1. CASE u = t
    BY <2>1 DEF Stays, HwInv
  <2>2. CASE u # t
    BY <1>1, <1>2, <2>2 DEF HwInv, MailRight
  <2> QED BY <2>1, <2>2
<1>6. PostRight'
  <2> SUFFICES ASSUME pc[0] \in {"try", "putstack", "puttask"} PROVE PostRight'
    BY <1>1 DEF PostRight
  <2>1. /\ to \in Others /\ what \in Work /\ pc[to] \in Waiting /\ task[to] = None
        /\ pc[0] = "puttask" => stack[to] = what
    BY DEF HwInv, PostRight
  <2>2. CASE to = t
    BY <1>1, <1>3, <2>1, <2>2 DEF Stays, PostRight
  <2>3. CASE to # t
    BY <1>1, <1>2, <1>3, <2>1, <2>3 DEF PostRight
  <2> QED BY <2>2, <2>3
<1>7. ASSUME NEW u \in Others
      PROVE  /\ GoingDown(u) => GoingDown(u)' /\ (state[u] => state'[u])
             /\ Resting(u) => Resting(u)'
             /\ ComingBack(u) => ComingBack(u)' /\ (~state[u] => ~state'[u])
  <2>1. CASE u = t
    BY <2>1 DEF Stays
  <2>2. CASE u # t
    <3>1. Primary(u) /\ pc[Mate(u)] = "off" => pc'[Mate(u)] = "off"
      BY <1>1, Mates
    <3>2. GoingDown(u) => GoingDown(u)'
      BY <1>1, <1>2, <2>2, <3>1 DEF GoingDown, Primary, Mate
    <3>3. ComingBack(u) => ComingBack(u)'
      BY <1>1, <1>2, <1>3, <2>2, <3>1 DEF ComingBack, Primary, Mate
    <3> QED BY <1>1, <1>2, <2>2, <3>2, <3>3 DEF Resting
  <2> QED BY <2>1, <2>2
<1>8. Protocol'
  <2>1. CASE Outside
    <3>1. Ordinary'
      BY <1>1, <1>3, <2>1 DEF Outside, Ordinary
    <3>2. \A u \in Others : task'[u] # Sleep /\ cur'[u] # Sleep /\ ~state'[u]
      BY <1>2, <2>1 DEF Outside, Stays, Own
    <3>3. call' = "faster" => \A u \in Others : task'[u] = None /\ cur'[u] = None
      BY <1>2, <1>3, <2>1 DEF Outside, Stays
    <3> QED BY <1>3, <2>1, <3>1, <3>2, <3>3 DEF Outside, Protocol
  <2>2. CASE Posting
    BY <1>1, <1>3, <1>7, <2>2 DEF Posting, Faster, Protocol
  <2>3. CASE Collecting
    BY <1>1, <1>3, <1>7, <2>3 DEF Collecting, Faster, Protocol
  <2>4. CASE Quiet
    BY <1>1, <1>3, <1>7, <2>4, Mates DEF Quiet, Faster, Protocol
  <2>5. CASE Waking
    BY <1>1, <1>3, <1>7, <2>5, Mates DEF Waking, Faster, Protocol
  <2>6. CASE AllUp
    BY <1>1, <1>3, <1>7, <2>6 DEF AllUp, Faster, Protocol
  <2> QED BY <2>1, <2>2, <2>3, <2>4, <2>5, <2>6 DEF HwInv, Protocol
<1>9. \A u \in Others : u \in alive' => pc'[u] \notin Booting
  BY <1>1 DEF HwInv, Own, Stays
<1> QED BY <1>4, <1>5, <1>6, <1>8, <1>9 DEF HwInv
-----------------------------------------------------------------------------
(* The steps of another thread than 0. *)
LEMMA NotWork == None \notin Work /\ Sleep \in Work /\ Sleep \notin Task /\ Task \subseteq Work
  BY HwAssumption DEF HwAssumption, Work

LEMMA BootKept ==
  ASSUME HwInv, NEW t \in Others, Boot(t)
  PROVE  HwInv'
<1>1. /\ UNCHANGED <<task, stack, cur, r1, state, ipi, call, what, to>>
      /\ pc[t] \in Booting
      /\ \/ pc' = [pc EXCEPT ![t] = "start"] /\ alive' = alive
         \/ pc' = [pc EXCEPT ![t] = "report"] /\ alive' = alive
         \/ pc' = [pc EXCEPT ![t] = "loop"] /\ alive' = alive \cup {t}
  BY Mates DEF Boot, Unpark, WakeSecondary, ReportAlive, At, Goto, Booting, mailVars, mainVars
<1>2. PICK l \in Waiting : pc' = [pc EXCEPT ![t] = l]
  BY <1>1 DEF Waiting, Booting
<1>3. Own(t)
  BY <1>1 DEF Own, HwInv, HwTyped
<1>4. pc'[t] = l /\ l \in Places
  BY <1>2, Moved, Mates DEF HwInv, Places
<1>5. Stays(t)
  <2>1. t \in alive' => pc'[t] \notin Booting
    BY <1>1, <1>4, Mates, Moved DEF HwInv, HwTyped, Booting
  <2>2. ~GoingDown(t) /\ ~Resting(t) /\ ~ComingBack(t)
    BY <1>1 DEF GoingDown, Resting, ComingBack, Booting, Falling, Rising, Asleep
  <2>3. MailRight(t) => MailRight(t)'
    BY <1>1, <1>4 DEF MailRight, Waiting, Booting, Falling, Rising, Asleep
  <2> QED BY <1>1, <1>4, <2>1, <2>2, <2>3 DEF Stays
<1> QED BY <1>1, <1>2, <1>3, <1>4, <1>5, AloneKept DEF Booting

(* Taking a task. *)
LEMMA TakeKept ==
  ASSUME HwInv, NEW t \in Others, TakeTask(t) \/ LoadStack(t) \/ ClearTask(t)
  PROVE  HwInv'
<1>1. /\ UNCHANGED <<alive, stack, state, ipi, call, what, to>>
      /\ \/ /\ pc[t] = "loop" /\ task[t] # None /\ pc' = [pc EXCEPT ![t] = "load"]
            /\ cur' = [cur EXCEPT ![t] = task[t]] /\ UNCHANGED <<task, r1>>
         \/ /\ pc[t] = "load" /\ pc' = [pc EXCEPT ![t] = "clear"]
            /\ r1' = [r1 EXCEPT ![t] = stack[t]] /\ UNCHANGED <<task, cur>>
         \/ /\ pc[t] = "clear" /\ pc' = [pc EXCEPT ![t] = "wipe"]
            /\ task' = [task EXCEPT ![t] = None] /\ UNCHANGED <<r1, cur>>
  BY DEF TakeTask, LoadStack, ClearTask, At, Goto, mailVars, mainVars
<1>2. PICK l \in {"load", "clear", "wipe"} : pc' = [pc EXCEPT ![t] = l]
  BY <1>1
<1>3. pc'[t] = l /\ l \in Places
  BY <1>2, Moved, Mates DEF HwInv, Places
<1>4. Own(t)
  BY <1>1 DEF Own, HwInv, HwTyped
<1>5. Stays(t)
  <2>1. MailRight(t)
    BY DEF HwInv
  <2>2. MailRight(t)'
    BY <1>1, <1>3, <2>1, Mates, Moved DEF HwInv, HwTyped, MailRight, Waiting, Booting, Falling, Rising, Asleep, Places
  <2>3. GoingDown(t) => GoingDown(t)'
    BY <1>1, <1>3, <2>1, NotWork DEF HwInv, HwTyped, MailRight, GoingDown, Falling, Asleep
  <2>4. ~Resting(t) /\ ~ComingBack(t)
    BY <1>1, <2>1 DEF MailRight, Resting, ComingBack, Asleep, Rising
  <2>5. /\ task[t] # Sleep /\ cur[t] # Sleep => task'[t] # Sleep /\ cur'[t] # Sleep
        /\ ~(task[t] = None /\ cur[t] = None) /\ ~(pc[t] \in Waiting /\ task[t] = None)
    BY <1>1, <2>1, NotWork DEF HwInv, HwTyped, MailRight, Waiting, Booting
  <2> QED BY <1>1, <1>3, <2>2, <2>3, <2>4, <2>5 DEF Stays, Booting
<1> QED BY <1>1, <1>2, <1>3, <1>4, <1>5, AloneKept

(* Beginning and ending it. *)
LEMMA RunKept ==
  ASSUME HwInv, NEW t \in Others, ClearStack(t) \/ TaskEnds(t)
  PROVE  HwInv'
<1>0. MailRight(t)
  BY DEF HwInv
<1>1. /\ UNCHANGED <<alive, task, r1, state, ipi, call, what, to>>
      /\ \/ /\ pc[t] = "wipe" /\ stack' = [stack EXCEPT ![t] = None] /\ cur' = cur
            /\ pc' = [pc EXCEPT ![t] = IF cur[t] = Sleep THEN "prepare" ELSE "run"]
         \/ /\ pc[t] = "run" /\ pc' = [pc EXCEPT ![t] = "loop"]
            /\ cur' = [cur EXCEPT ![t] = None] /\ stack' = stack
  BY <1>0 DEF ClearStack, TaskEnds, At, Goto, mainVars, mailVars, MailRight
<1>2. PICK l \in {"prepare", "run", "loop"} : pc' = [pc EXCEPT ![t] = l]
  BY <1>1
<1>3. pc'[t] = l /\ l \in Places
  BY <1>2, Moved, Mates DEF HwInv, Places, Waiting, Falling
<1>4. Own(t)
  BY <1>1 DEF Own, HwInv, HwTyped
<1>5. Stays(t)
  <2>1. /\ task[t] = None
        /\ \/ pc[t] = "wipe" /\ cur[t] \in Work /\ cur'[t] = cur[t]
              /\ pc'[t] = IF cur[t] = Sleep THEN "prepare" ELSE "run"
           \/ pc[t] = "run" /\ cur[t] \in Task /\ cur'[t] = None /\ pc'[t] = "loop"
    BY <1>0, <1>1, Mates, Moved DEF HwInv, HwTyped, MailRight, Waiting, Booting, Falling, Asleep, Places
  <2>2. MailRight(t)'
    BY <1>1, <2>1 DEF MailRight, Waiting, Booting, Falling, Rising, Asleep, Work
  <2>3. GoingDown(t) => GoingDown(t)'
    BY <1>1, <2>1, NotWork DEF GoingDown, Falling, Asleep
  <2>4. ~Resting(t) /\ ~ComingBack(t)
    BY <2>1 DEF Resting, ComingBack, Asleep, Rising
  <2>5. /\ task[t] # Sleep /\ cur[t] # Sleep => task'[t] # Sleep /\ cur'[t] # Sleep
        /\ cur[t] # None /\ ~(pc[t] \in Waiting)
    BY <1>1, <2>1, NotWork DEF Waiting, Booting
  <2> QED BY <1>1, <1>3, <2>1, <2>2, <2>3, <2>4, <2>5, Zenon DEF Stays, HwInv, Booting
<1> QED BY <1>1, <1>2, <1>3, <1>4, <1>5, AloneKept

(* Going to sleep, and the first steps of one that comes back. *)
LEMMA NapKept ==
  ASSUME HwInv, NEW t \in Others, Prepare(t) \/ MarkAsleep(t) \/ CpuSleep(t) \/ MarkAwake(t)
  PROVE  HwInv'
<1>0. MailRight(t)
  BY DEF HwInv
<1>1. /\ UNCHANGED <<alive, task, stack, r1, ipi, call, what, to>>
      /\ \/ /\ pc[t] = "prepare" /\ (Primary(t) => pc[Mate(t)] = "off")
            /\ pc' = [pc EXCEPT ![t] = "mark"] /\ state' = state /\ cur' = cur
         \/ /\ pc[t] = "mark" /\ state' = [state EXCEPT ![t] = TRUE]
            /\ pc' = [pc EXCEPT ![t] = "cpusleep"] /\ cur' = cur
         \/ /\ pc[t] = "cpusleep" /\ pc' = [pc EXCEPT ![t] = "off"] /\ state' = state /\ cur' = cur
         \/ /\ pc[t] = "woken" /\ state' = [state EXCEPT ![t] = FALSE]
            /\ \/ Primary(t) /\ pc' = [pc EXCEPT ![t] = "wakemate"] /\ cur' = cur
               \/ ~Primary(t) /\ pc' = [pc EXCEPT ![t] = "loop"] /\ cur' = [cur EXCEPT ![t] = None]
  BY DEF Prepare, MateOff, MarkAsleep, CpuSleep, MarkAwake, At, Goto, mainVars, mailVars
<1>2. PICK l \in {"mark", "cpusleep", "off", "wakemate", "loop"} : pc' = [pc EXCEPT ![t] = l]
  BY <1>1
<1>3. /\ pc'[t] = l /\ l \in Places
      /\ Primary(t) => pc'[Mate(t)] = pc[Mate(t)]
  BY <1>2, Moved, Mates DEF HwInv, Places, Waiting, Falling, Rising, Asleep
<1>4. Own(t)
  BY <1>1 DEF Own, HwInv, HwTyped
<1>5. Stays(t)
  <2>1. /\ task[t] = None /\ cur[t] = Sleep
        /\ \/ /\ pc[t] = "prepare" /\ (Primary(t) => pc[Mate(t)] = "off")
              /\ pc'[t] = "mark" /\ state'[t] = state[t] /\ cur'[t] = cur[t]
           \/ pc[t] = "mark" /\ state'[t] = TRUE /\ pc'[t] = "cpusleep" /\ cur'[t] = cur[t]
           \/ pc[t] = "cpusleep" /\ pc'[t] = "off" /\ state'[t] = state[t] /\ cur'[t] = cur[t]
           \/ /\ pc[t] = "woken" /\ state'[t] = FALSE
              /\ \/ Primary(t) /\ pc'[t] = "wakemate" /\ cur'[t] = cur[t]
                 \/ ~Primary(t) /\ pc'[t] = "loop" /\ cur'[t] = None
    BY <1>0, <1>1, Mates, Moved DEF HwInv, HwTyped, MailRight, Waiting, Falling, Rising, Asleep, Places
  <2>2. MailRight(t)'
    BY <1>1, <2>1 DEF MailRight, Waiting, Booting, Falling, Rising, Asleep
  <2>3. ASSUME GoingDown(t) PROVE GoingDown(t)' /\ (state[t] => state'[t])
    <3>1. pc[t] \in {"prepare", "mark", "cpusleep"} /\ pc'[t] \in {"mark", "cpusleep", "off"} /\ cur'[t] = Sleep
      BY <2>1, <2>3 DEF GoingDown, Falling, Asleep
    <3>2. (state'[t] <=> pc'[t] \in Asleep) /\ (state[t] => state'[t])
      BY <2>1, <2>3 DEF GoingDown, Falling, Asleep
    <3>3. Primary(t) => pc[Mate(t)] = "off" /\ pc'[Mate(t)] = "off"
      BY <1>3, <2>1, <2>3 DEF GoingDown, Falling, Asleep
    <3> QED BY <3>1, <3>2, <3>3 DEF GoingDown, Falling, Asleep, Primary, Mate
  <2>4. ASSUME ComingBack(t) PROVE ComingBack(t)' /\ (~state[t] => ~state'[t])
    <3>1. task'[t] = None /\ (t \in ipi' <=> t \in ipi)
      BY <1>1, <2>1
    <3>2. CASE Primary(t)
      <4>1. pc'[Mate(t)] = "off"
        BY <1>3, <2>1, <2>4, <3>2 DEF ComingBack
      <4>2. \/ pc[t] = "cpusleep" /\ pc'[t] = "off" /\ state[t] /\ state'[t] /\ t \in ipi
            \/ pc[t] = "woken" /\ pc'[t] = "wakemate" /\ ~state'[t] /\ t \notin ipi
        BY <2>1, <2>4, <3>2 DEF ComingBack, Asleep, Rising
      <4> QED BY <3>1, <3>2, <4>1, <4>2 DEF ComingBack, Asleep, Rising, Primary, Mate
    <3>3. CASE ~Primary(t)
      <4>1. pc'[t] = "loop" /\ ~state'[t] /\ t \notin ipi
        BY <2>1, <2>4, <3>3 DEF ComingBack
      <4> QED BY <3>1, <3>3, <4>1 DEF ComingBack, Primary
    <3> QED BY <3>2, <3>3
  <2>5. ~Resting(t) /\ cur[t] # None /\ ~(pc[t] \in Waiting) /\ pc'[t] \notin Booting
    BY <2>1, NotWork DEF Resting, Waiting, Booting
  <2> QED BY <1>1, <2>1, <2>2, <2>3, <2>4, <2>5, Zenon DEF Stays, HwInv
<1> QED BY <1>1, <1>2, <1>3, <1>4, <1>5, AloneKept

(* Only after the speed was changed does a thread wake. *)
LEMMA WakingOnly ==
  ASSUME HwInv, NEW t \in Others, pc[t] = "wakemate" \/ t \in ipi
  PROVE  Waking /\ Primary(t)
<1>1. MailRight(t)
  BY DEF HwInv
<1>2. Waking
  BY <1>1 DEF HwInv, Protocol, Outside, Posting, Collecting, Quiet, AllUp, Resting, GoingDown, MailRight,
              Falling, Rising, Asleep
<1> QED BY <1>2 DEF Waking, ComingBack

LEMMA WakeKept ==
  ASSUME HwInv, NEW t \in Others, IpiWakes(t) \/ WakeMate(t)
  PROVE  HwInv'
<1>0. /\ t \in Thread /\ t # 0 /\ 0 \in Thread /\ \A u \in Others : u \in Thread /\ u # 0
      /\ MailRight(t) /\ HwTyped
  BY Mates DEF HwInv
<1>1. /\ Waking /\ Primary(t) /\ ComingBack(t)
      /\ Mate(t) \in Others /\ Mate(t) # t /\ Mate(t) # 1 /\ ~Primary(Mate(t))
  <2>1. Waking /\ Primary(t)
    BY WakingOnly DEF IpiWakes, WakeMate, At
  <2> QED BY <2>1, Mates DEF Waking
<1>2. UNCHANGED <<alive, task, stack, r1, state, call, what, to>>
  BY DEF IpiWakes, WakeMate, mailVars, mainVars
<1>3. CASE IpiWakes(t)
  <2>1. /\ pc[t] = "off" /\ pc' = [pc EXCEPT ![t] = "woken"] /\ ipi' = ipi \ {t} /\ cur' = cur
    BY <1>3 DEF IpiWakes, At, Goto
  <2>2. /\ pc' \in [Thread -> Places \cup Calls]
        /\ pc'[t] = "woken" /\ pc'[0] = pc[0] /\ \A u \in Others : u # t => pc'[u] = pc[u]
    BY <1>0, <2>1, Moved DEF Places, Rising
  <2>3. HwTyped'
    BY <1>0, <1>2, <2>1, <2>2 DEF HwTyped, Places, Rising
  <2>4. \A u \in Others : MailRight(u)'
    BY <1>2, <2>1, <2>2 DEF HwInv, MailRight, Waiting, Booting, Falling, Rising, Asleep
  <2>5. PostRight'
    BY <1>1, <2>2 DEF Waking, PostRight
  <2>6. \A u \in Others : ComingBack(u)'
    <3> SUFFICES ASSUME NEW u \in Others PROVE ComingBack(u)'
      OBVIOUS
    <3>1. ComingBack(u)
      BY <1>1 DEF Waking
    <3>2. CASE u = t
      BY <1>1, <1>2, <2>1, <2>2, <3>1, <3>2 DEF ComingBack, Primary, Mate, Asleep, Rising
    <3>3. CASE u # t
      <4>1. Primary(u) => Mate(u) # t /\ Mate(u) \in Others
        BY <1>1, Mates
      <4>2. Primary(u) => pc'[Mate(u)] = pc[Mate(u)]
        BY <2>2, <4>1
      <4> QED BY <1>2, <2>1, <2>2, <3>1, <3>3, <4>2 DEF ComingBack, Primary, Mate
    <3> QED BY <3>2, <3>3
  <2>7. Waking'
    BY <1>1, <1>2, <2>2, <2>6, Mates DEF Waking, Faster
  <2> QED BY <1>2, <2>2, <2>3, <2>4, <2>5, <2>7 DEF HwInv, Protocol, Booting
<1>4. CASE WakeMate(t)
  <2>1. /\ pc[t] = "wakemate" /\ pc[Mate(t)] = "off" /\ ipi' = ipi
        /\ cur' = [cur EXCEPT ![t] = None]
        /\ pc' = [pc EXCEPT ![t] = "loop", ![Mate(t)] = "woken"]
    BY <1>0, <1>1, <1>4 DEF WakeMate, TurnOn, At, ComingBack, HwTyped
  <2>2. /\ pc' \in [Thread -> Places \cup Calls]
        /\ pc'[t] = "loop" /\ pc'[Mate(t)] = "woken" /\ pc'[0] = pc[0]
        /\ \A u \in Others : u # t /\ u # Mate(t) => pc'[u] = pc[u]
    BY <1>0, <1>1, <2>1 DEF HwTyped, Places, Waiting, Rising
  <2>3. HwTyped'
    BY <1>0, <1>1, <1>2, <2>1, <2>2 DEF HwTyped, Places, Rising, Waiting
  <2>4. \A u \in Others : MailRight(u)'
    <3> SUFFICES ASSUME NEW u \in Others PROVE MailRight(u)'
      OBVIOUS
    <3>1. MailRight(u) /\ (u # t => cur'[u] = cur[u]) /\ cur'[t] = None
      BY <1>0, <2>1 DEF HwInv, HwTyped
    <3>2. CASE u = t
      BY <1>2, <2>1, <2>2, <3>1, <3>2 DEF MailRight, Waiting, Booting, Falling, Rising, Asleep
    <3>3. CASE u = Mate(t)
      BY <1>1, <1>2, <2>1, <2>2, <3>1, <3>3 DEF MailRight, Waiting, Booting, Falling, Rising, Asleep
    <3>4. CASE u # t /\ u # Mate(t)
      BY <1>2, <2>2, <3>1, <3>4 DEF MailRight
    <3> QED BY <3>2, <3>3, <3>4
  <2>5. PostRight'
    BY <1>1, <2>2 DEF Waking, PostRight
  <2>6. \A u \in Others : ComingBack(u)'
    <3> SUFFICES ASSUME NEW u \in Others PROVE ComingBack(u)'
      OBVIOUS
    <3>1. ComingBack(u)
      BY <1>1 DEF Waking
    <3>2. CASE u = t
      BY <1>2, <2>1, <2>2, <1>1, <3>1, <3>2 DEF ComingBack, Primary, Mate, Asleep, Rising
    <3>3. CASE u = Mate(t)
      BY <1>1, <1>2, <2>1, <2>2, <3>1, <3>3 DEF ComingBack, Primary
    <3>4. CASE u # t /\ u # Mate(t)
      <4>1. Primary(u) => Mate(u) # t /\ Mate(u) # Mate(t) /\ Mate(u) \in Others
        BY <1>1, <3>4, Mates
      <4>2. Primary(u) => pc'[Mate(u)] = pc[Mate(u)]
        BY <2>2, <4>1
      <4> QED BY <1>2, <2>1, <2>2, <3>1, <3>4, <4>2 DEF ComingBack, Primary, Mate
    <3> QED BY <3>2, <3>3, <3>4
  <2>7. Waking'
    BY <1>1, <1>2, <2>2, <2>6, Mates DEF Waking, Faster
  <2>8. \A u \in Others : u \in alive' => pc'[u] \notin Booting
    BY <1>2, <2>2 DEF HwInv, Booting
  <2> QED BY <2>3, <2>4, <2>5, <2>7, <2>8 DEF HwInv, Protocol
<1> QED BY <1>3, <1>4
-----------------------------------------------------------------------------
(* The steps of thread 0. *)

(* One that leaves the others alone keeps everything but the phase. *)
LEMMA MainAlone ==
  ASSUME HwInv, NEW l \in Calls, pc' = [pc EXCEPT ![0] = l],
         UNCHANGED <<alive, task, stack, cur, r1, state, ipi>>, to' \in Others \cup {0}
  PROVE  /\ pc'[0] = l /\ \A u \in Others : pc'[u] = pc[u]
         /\ HwTyped'
         /\ \A u \in Others : MailRight(u)'
         /\ \A u \in Others : u \in alive' => pc'[u] \notin Booting
         /\ \A u \in Others : /\ GoingDown(u) => GoingDown(u)'
                              /\ Resting(u) => Resting(u)'
                              /\ ComingBack(u) => ComingBack(u)'
<1>1. pc' \in [Thread -> Places \cup Calls] /\ pc'[0] = l /\ \A u \in Others : pc'[u] = pc[u]
  BY Moved, Mates DEF HwInv
<1>2. HwTyped'
  BY <1>1 DEF HwInv, HwTyped
<1>3. \A u \in Others : MailRight(u)'
  BY <1>1 DEF HwInv, MailRight
<1>4. \A u \in Others : u \in alive' => pc'[u] \notin Booting
  BY <1>1 DEF HwInv
<1>5. ASSUME NEW u \in Others
      PROVE  /\ GoingDown(u) => GoingDown(u)'
             /\ Resting(u) => Resting(u)'
             /\ ComingBack(u) => ComingBack(u)'
  <2>1. Primary(u) => pc'[Mate(u)] = pc[Mate(u)]
    BY <1>1, Mates
  <2>2. GoingDown(u) => GoingDown(u)'
    BY <1>1, <2>1 DEF GoingDown, Primary, Mate
  <2>3. ComingBack(u) => ComingBack(u)'
    BY <1>1, <2>1 DEF ComingBack, Primary, Mate
  <2> QED BY <1>1, <2>2, <2>3 DEF Resting
<1> QED BY <1>1, <1>2, <1>3, <1>4, <1>5

(* Thread 0 starts up. *)
LEMMA BootMainKept ==
  ASSUME HwInv, Boot(0)
  PROVE  HwInv'
<1>0. 0 \in Thread /\ Primary(0) /\ HwTyped
  BY Mates DEF HwInv
<1>1. /\ UNCHANGED <<task, stack, cur, r1, state, ipi, call, what, to>>
      /\ pc[0] \in Booting
      /\ \E l \in {"start", "report", "main"} : pc' = [pc EXCEPT ![0] = l]
      /\ alive' = alive \/ alive' = alive \cup {0}
  BY DEF Boot, Unpark, WakeSecondary, ReportAlive, At, Goto, Booting, mailVars, mainVars
<1>2. PICK l \in {"start", "report", "main"} : pc' = [pc EXCEPT ![0] = l]
  BY <1>1
<1>3. /\ pc' \in [Thread -> Places \cup Calls]
      /\ pc'[0] = l /\ \A u \in Others : pc'[u] = pc[u]
  BY <1>0, <1>2, Moved, Mates DEF Places, Waiting, Booting, Calls
<1>4. Outside /\ call = "none"
  BY <1>1 DEF HwInv, Protocol, Outside, Ordinary, Posting, Collecting, Quiet, Waking, AllUp, Booting
<1>5. Outside'
  BY <1>1, <1>3, <1>4 DEF Outside, Ordinary
<1>6. HwTyped' /\ \A u \in Others : MailRight(u)'
  BY <1>0, <1>1, <1>3 DEF HwInv, HwTyped, MailRight
<1>7. PostRight' /\ \A u \in Others : u \in alive' => pc'[u] \notin Booting
  BY <1>1, <1>3, Mates DEF HwInv, PostRight
<1> QED BY <1>5, <1>6, <1>7 DEF HwInv, Protocol

(* A thread that has finished is one that waits. *)
LEMMA Finished ==
  ASSUME HwInv, Outside, NEW t \in Others, ~Unfinished(t)
  PROVE  task[t] = None /\ cur[t] = None /\ pc[t] \in Waiting
<1>1. task[t] = None /\ cur[t] = None
  BY DEF HwInv, HwTyped, Outside, Unfinished, Work
<1>2. pc[t] \in Waiting
  BY <1>1, NotWork DEF HwInv, HwTyped, MailRight, Places
<1> QED BY <1>1, <1>2

LEMMA CallKept ==
  ASSUME Patient, HwInv,
         \/ \E t \in Others, w \in Work : CallPost(t, w)
         \/ CallStartup
         \/ \E c \in {"single", "faster"} : CallSingle(c)
  PROVE  HwInv'
<1>1. pc[0] = "main" /\ UNCHANGED <<alive, task, stack, cur, r1, state, ipi>>
  BY DEF CallPost, CallStartup, CallSingle, MayCall, At, mailVars
<1>2. Outside /\ call = "none"
  BY <1>1 DEF HwInv, Protocol, Outside, Ordinary, Posting, Collecting, Quiet, Waking, AllUp
<1>3. CASE \E t \in Others, w \in Work : CallPost(t, w)
  <2>1. PICK t \in Others, w \in Work : CallPost(t, w)
    BY <1>3
  <2>2. /\ w \in Task /\ call' = "post" /\ what' = w /\ to' = t /\ ~Unfinished(t)
        /\ pc' = [pc EXCEPT ![0] = "try"]
    BY <2>1 DEF CallPost, MayCall, Goto, Patient, Work
  <2>3. /\ pc'[0] = "try" /\ \A u \in Others : pc'[u] = pc[u] /\ MailRight(u)'
        /\ HwTyped' /\ \A u \in Others : u \in alive' => pc'[u] \notin Booting
    BY <1>1, <2>2, MainAlone DEF Calls
  <2>4. PostRight'
    BY <1>1, <1>2, <2>2, <2>3, Finished DEF PostRight, Work
  <2>5. Outside'
    BY <1>1, <1>2, <2>2, <2>3 DEF Outside, Ordinary
  <2> QED BY <2>3, <2>4, <2>5 DEF HwInv, Protocol
<1>4. CASE CallStartup
  <2>1. /\ call' = "startup" /\ UNCHANGED <<what, to>> /\ pc' = [pc EXCEPT ![0] = "startup"]
    BY <1>4 DEF CallStartup, MayCall, Goto
  <2>2. to' \in Others \cup {0}
    BY <2>1 DEF HwInv, HwTyped
  <2>3. /\ pc'[0] = "startup" /\ \A u \in Others : pc'[u] = pc[u] /\ MailRight(u)'
        /\ HwTyped' /\ \A u \in Others : u \in alive' => pc'[u] \notin Booting
    BY <1>1, <2>1, <2>2, MainAlone DEF Calls
  <2>4. PostRight' /\ Outside'
    BY <1>1, <1>2, <2>1, <2>3 DEF PostRight, Outside, Ordinary
  <2> QED BY <2>3, <2>4 DEF HwInv, Protocol
<1>5. CASE \E c \in {"single", "faster"} : CallSingle(c)
  <2>1. /\ call' = "faster" /\ what' = Sleep /\ to' = 1 /\ pc' = [pc EXCEPT ![0] = "check"]
        /\ \A t \in Others : ~Unfinished(t)
    BY <1>5 DEF CallSingle, MayCall, Goto, Patient
  <2>2. to' \in Others
    BY <2>1, Mates
  <2>3. /\ pc'[0] = "check" /\ \A u \in Others : pc'[u] = pc[u] /\ MailRight(u)'
        /\ HwTyped' /\ \A u \in Others : u \in alive' => pc'[u] \notin Booting
    BY <1>1, <2>1, <2>2, MainAlone DEF Calls
  <2>4. \A u \in Others : task[u] = None /\ cur[u] = None
    BY <1>2, <2>1, Finished
  <2>5. PostRight' /\ Outside'
    BY <1>1, <1>2, <2>1, <2>3, <2>4 DEF PostRight, Outside, Ordinary
  <2> QED BY <2>3, <2>5 DEF HwInv, Protocol
<1> QED BY <1>3, <1>4, <1>5

(* When all threads are there, the loop of xenon_set_single_thread_mode.   *)
LEMMA LoopBegins ==
  ASSUME HwInv, Outside, call = "faster", alive = Thread,
         pc' = [pc EXCEPT ![0] = "try"], UNCHANGED <<alive, task, stack, cur, r1, state, ipi, call, what, to>>
  PROVE  HwInv'
<1>1. what = Sleep /\ to = 1 /\ to \in Others
  BY Mates DEF Outside, Ordinary
<1>2. /\ pc'[0] = "try" /\ \A u \in Others : pc'[u] = pc[u] /\ MailRight(u)'
      /\ HwTyped' /\ \A u \in Others : u \in alive' => pc'[u] \notin Booting
      /\ \A u \in Others : Resting(u) => Resting(u)'
  BY <1>1, MainAlone DEF Calls
<1>3. \A u \in Others : Resting(u)
  <2> SUFFICES ASSUME NEW u \in Others PROVE Resting(u)
    OBVIOUS
  <2>1. task[u] = None /\ cur[u] = None /\ ~state[u] /\ pc[u] \notin Booting
    BY Mates DEF Outside, HwInv
  <2>2. pc[u] \in Waiting
    BY <2>1, NotWork DEF HwInv, HwTyped, MailRight, Places
  <2> QED BY <2>1, <2>2 DEF Resting, Waiting
<1>4. PostRight'
  BY <1>1, <1>2, <1>3, NotWork DEF PostRight, Resting, Waiting
<1>5. Posting'
  <2>1. \A u \in Others : ~(u < to) /\ Resting(u)'
    BY <1>1, <1>2, <1>3, Mates
  <2> QED BY <1>1, <1>2, <2>1 DEF Posting, Faster, Outside
<1> QED BY <1>2, <1>4, <1>5 DEF HwInv, Protocol

LEMMA StartupKept ==
  ASSUME HwInv, CheckAlive \/ Startup \/ AllAlive
  PROVE  HwInv'
<1>0. /\ pc[0] \in {"check", "startup", "await"}
      /\ UNCHANGED <<alive, task, stack, cur, r1, state, ipi, what, to>>
  BY DEF CheckAlive, Startup, AllAlive, At, mailVars, mainVars
<1>1. Outside /\ call \in {"startup", "faster"} /\ to \in Others \cup {0}
  BY <1>0 DEF HwInv, HwTyped, Protocol, Outside, Ordinary, Posting, Collecting, Quiet, Waking, AllUp
<1>2. \/ call = "faster" /\ alive = Thread /\ pc' = [pc EXCEPT ![0] = "try"] /\ call' = call
      \/ pc[0] = "check" /\ pc' = [pc EXCEPT ![0] = "startup"] /\ call' = call
      \/ pc[0] = "startup" /\ pc' = [pc EXCEPT ![0] = "await"] /\ call' = call
      \/ call = "startup" /\ pc' = [pc EXCEPT ![0] = "main"] /\ call' = "none"
  BY <1>1 DEF CheckAlive, Startup, AllAlive, At, Goto, mainVars, Outside, Ordinary
<1>3. CASE call = "faster" /\ alive = Thread /\ pc' = [pc EXCEPT ![0] = "try"] /\ call' = call
  BY <1>0, <1>1, <1>3, LoopBegins
<1>4. ASSUME NEW l \in {"startup", "await", "main"}, pc' = [pc EXCEPT ![0] = l],
             \/ pc[0] = "check" /\ l = "startup" /\ call' = call
             \/ pc[0] = "startup" /\ l = "await" /\ call' = call
             \/ call = "startup" /\ l = "main" /\ call' = "none"
      PROVE  HwInv'
  <2>1. /\ pc'[0] = l /\ \A u \in Others : pc'[u] = pc[u] /\ MailRight(u)'
        /\ HwTyped' /\ \A u \in Others : u \in alive' => pc'[u] \notin Booting
    BY <1>0, <1>1, <1>4, MainAlone DEF Calls
  <2>2. PostRight'
    BY <1>4, <2>1 DEF PostRight
  <2>3. Ordinary'
    BY <1>0, <1>1, <1>4, <2>1 DEF Outside, Ordinary
  <2>4. Outside'
    BY <1>0, <1>1, <1>4, <2>1, <2>3 DEF Outside
  <2> QED BY <2>1, <2>2, <2>4 DEF HwInv, Protocol
<1> QED BY <1>2, <1>3, <1>4

(* Posting a task: the stack first, then the task.                         *)
LEMMA StackPut ==
  ASSUME HwInv, TestBusy \/ PutStack
  PROVE  HwInv'
<1>0. pc[0] \in {"try", "putstack"} /\ UNCHANGED <<alive, task, cur, r1, state, ipi, what, to>>
  BY DEF TestBusy, PutStack, At, mailVars, mainVars
<1>1. to \in Others /\ what \in Work /\ pc[to] \in Waiting /\ task[to] = None
  BY <1>0 DEF HwInv, PostRight
<1>2. PICK l \in {"putstack", "puttask"} :
        /\ pc' = [pc EXCEPT ![0] = l] /\ call' = call
        /\ IF l = "puttask" THEN stack' = [stack EXCEPT ![to] = what] ELSE stack' = stack
  BY <1>1 DEF TestBusy, PutStack, Goto, mailVars, mainVars
<1>3. /\ pc' \in [Thread -> Places \cup Calls]
      /\ pc'[0] = l /\ \A u \in Others : pc'[u] = pc[u]
  BY <1>2, Moved, Mates DEF HwInv, Calls
<1>4. /\ stack' \in [Others -> Work \cup {None}] /\ (l = "puttask" => stack'[to] = what)
      /\ \A u \in Others : u # to => stack'[u] = stack[u]
  BY <1>1, <1>2 DEF HwInv, HwTyped
<1>5. HwTyped'
  BY <1>0, <1>3, <1>4 DEF HwInv, HwTyped
<1>6. \A u \in Others : MailRight(u)'
  <2> SUFFICES ASSUME NEW u \in Others PROVE MailRight(u)'
    OBVIOUS
  <2>1. CASE u = to
    BY <1>0, <1>1, <1>3, <2>1 DEF HwInv, MailRight, Waiting, Booting, Falling, Rising, Asleep
  <2>2. CASE u # to
    BY <1>0, <1>3, <1>4, <2>2 DEF HwInv, MailRight
  <2> QED BY <2>1, <2>2
<1>7. PostRight'
  BY <1>0, <1>1, <1>3, <1>4 DEF PostRight
<1>8. Protocol'
  <2>1. CASE Outside
    BY <1>0, <1>2, <1>3, <2>1 DEF Outside, Ordinary, Protocol
  <2>2. CASE Posting
    <3>1. \A u \in Others : /\ GoingDown(u) => GoingDown(u)'
                            /\ Resting(u) => Resting(u)'
      <4> SUFFICES ASSUME NEW u \in Others
                   PROVE  (GoingDown(u) => GoingDown(u)') /\ (Resting(u) => Resting(u)')
        OBVIOUS
      <4>1. Primary(u) => pc'[Mate(u)] = pc[Mate(u)]
        BY <1>3, Mates
      <4> QED BY <1>0, <1>3, <4>1 DEF GoingDown, Resting, Primary, Mate
    <3> QED BY <1>0, <1>2, <1>3, <2>2, <3>1 DEF Posting, Faster, Protocol
  <2> QED BY <1>0, <2>1, <2>2 DEF HwInv, Protocol, Collecting, Quiet, Waking, AllUp
<1>9. \A u \in Others : u \in alive' => pc'[u] \notin Booting
  BY <1>0, <1>3 DEF HwInv
<1> QED BY <1>5, <1>6, <1>7, <1>8, <1>9 DEF HwInv

(* Thread after thread. *)
LEMMA NextThread ==
  ASSUME NEW l, NEW exit, to \in Others, ToNext(l, exit)
  PROVE  /\ to' \in Others
         /\ \/ /\ to' = to + 1 /\ pc' = [pc EXCEPT ![0] = l]
               /\ \A u \in Others : u < to' => u < to \/ u = to
            \/ /\ to' = 1 /\ pc' = [pc EXCEPT ![0] = exit]
               /\ \A u \in Others : ~(u < to') /\ (u < to \/ u = to)
<1>1. Cores \in Nat /\ Cores >= 1
  BY HwAssumption DEF HwAssumption
<1>2. CASE to < Last
  BY <1>1, <1>2 DEF ToNext, Goto, Last, Others, Thread
<1>3. CASE ~(to < Last)
  BY <1>1, <1>3 DEF ToNext, Goto, Last, Others, Thread
<1> QED BY <1>2, <1>3

LEMMA TaskPut ==
  ASSUME HwInv, PutTask
  PROVE  HwInv'
<1>0. /\ pc[0] = "puttask" /\ UNCHANGED <<alive, stack, cur, r1, state, ipi, what>>
      /\ task' = [task EXCEPT ![to] = what]
  BY DEF PutTask, At
<1>1. to \in Others /\ what \in Work /\ pc[to] \in Waiting /\ task[to] = None /\ stack[to] = what
  BY <1>0 DEF HwInv, PostRight
<1>2. /\ task' \in [Others -> Work \cup {None}] /\ task'[to] = what
      /\ \A u \in Others : u # to => task'[u] = task[u]
  BY <1>0, <1>1 DEF HwInv, HwTyped
<1>3. ASSUME NEW l \in Calls, pc' = [pc EXCEPT ![0] = l], to' \in Others
      PROVE  /\ pc'[0] = l /\ \A u \in Others : pc'[u] = pc[u]
             /\ HwTyped'
             /\ \A u \in Others : MailRight(u)'
             /\ \A u \in Others : u \in alive' => pc'[u] \notin Booting
  <2>1. /\ pc' \in [Thread -> Places \cup Calls]
        /\ pc'[0] = l /\ \A u \in Others : pc'[u] = pc[u]
    BY <1>3, Moved, Mates DEF HwInv
  <2>2. HwTyped'
    BY <1>0, <1>2, <1>3, <2>1 DEF HwInv, HwTyped
  <2>3. \A u \in Others : MailRight(u)'
    <3> SUFFICES ASSUME NEW u \in Others PROVE MailRight(u)'
      OBVIOUS
    <3>1. CASE u = to
      BY <1>0, <1>1, <1>2, <2>1, <3>1 DEF HwInv, MailRight, Waiting, Booting, Falling, Rising, Asleep
    <3>2. CASE u # to
      BY <1>0, <1>2, <2>1, <3>2 DEF HwInv, MailRight
    <3> QED BY <3>1, <3>2
  <2> QED BY <1>0, <2>1, <2>2, <2>3 DEF HwInv
<1>4. CASE Outside
  <2>1. call = "post" /\ what \in Task
    BY <1>0, <1>4 DEF Outside, Ordinary
  <2>2. pc' = [pc EXCEPT ![0] = "main"] /\ call' = "none" /\ to' = to
    BY <2>1 DEF PutTask, Looping, Goto
  <2>3. /\ pc'[0] = "main" /\ \A u \in Others : pc'[u] = pc[u] /\ MailRight(u)'
        /\ HwTyped' /\ \A u \in Others : u \in alive' => pc'[u] \notin Booting
    BY <1>1, <1>3, <2>2 DEF Calls
  <2>4. \A u \in Others : task'[u] # Sleep
    BY <1>2, <1>4, <2>1, NotWork DEF Outside
  <2>5. PostRight' /\ Outside'
    BY <1>0, <1>4, <2>2, <2>3, <2>4 DEF PostRight, Outside, Ordinary
  <2> QED BY <2>3, <2>5 DEF HwInv, Protocol
<1>5. CASE Posting
  <2>1. ToNext("try", "collect") /\ call' = call /\ call = "faster" /\ what = Sleep
    BY <1>5 DEF PutTask, Posting, Faster, Looping
  <2>2. PICK l \in {"try", "collect"} : pc' = [pc EXCEPT ![0] = l]
    BY <1>1, <2>1, NextThread
  <2>3. to' \in Others
    BY <1>1, <2>1, NextThread
  <2>4. /\ pc'[0] = l /\ \A u \in Others : pc'[u] = pc[u] /\ MailRight(u)'
        /\ HwTyped' /\ \A u \in Others : u \in alive' => pc'[u] \notin Booting
    BY <1>3, <2>2, <2>3 DEF Calls
  <2>5. Resting(to) /\ \A u \in Others : IF u < to THEN GoingDown(u) ELSE Resting(u)
    BY <1>1, <1>5, Mates DEF Posting
  <2>6. \A u \in Others : u < to \/ u = to => GoingDown(u)'
    <3> SUFFICES ASSUME NEW u \in Others, u < to \/ u = to PROVE GoingDown(u)'
      OBVIOUS
    <3>1. CASE u = to
      BY <1>0, <1>2, <2>1, <2>4, <2>5, <3>1 DEF GoingDown, Resting, Falling, Asleep
    <3>2. CASE u # to
      <4>1. Primary(u) => pc'[Mate(u)] = pc[Mate(u)]
        BY <2>4, Mates
      <4>2. GoingDown(u)
        BY <2>5, <3>2
      <4> QED BY <1>0, <1>2, <2>4, <3>2, <4>1, <4>2 DEF GoingDown, Primary, Mate
    <3> QED BY <3>1, <3>2
  <2>7. \A u \in Others : ~(u < to) /\ u # to => Resting(u)'
    BY <1>0, <1>2, <2>4, <2>5 DEF Resting
  <2>8. CASE /\ to' = to + 1 /\ pc' = [pc EXCEPT ![0] = "try"]
             /\ \A u \in Others : u < to' => u < to \/ u = to
    <3>1. l = "try"
      BY <2>4, <2>8, Mates DEF HwInv, HwTyped
    <3>2. \A u \in Others : IF u < to' THEN GoingDown(u)' ELSE Resting(u)'
      BY <1>1, <2>6, <2>7, <2>8, Mates
    <3>3. ~(to' < to) /\ to' # to
      BY <1>1, <2>8, Mates
    <3>4. PostRight'
      <4>1. \A u \in Others : ~(u < to) /\ u # to => pc'[u] = "loop" /\ task'[u] = None
        BY <2>7 DEF Resting
      <4>2. pc'[to'] = "loop" /\ task'[to'] = None
        BY <2>3, <3>3, <4>1
      <4> QED BY <1>0, <2>1, <2>3, <2>4, <3>1, <4>2, NotWork DEF PostRight, Waiting
    <3>5. Posting'
      BY <1>0, <1>5, <2>1, <2>3, <2>4, <3>1, <3>2 DEF Posting, Faster
    <3> QED BY <2>4, <3>4, <3>5 DEF HwInv, Protocol
  <2>9. CASE /\ to' = 1 /\ pc' = [pc EXCEPT ![0] = "collect"]
             /\ \A u \in Others : ~(u < to') /\ (u < to \/ u = to)
    <3>1. l = "collect"
      BY <2>4, <2>9, Mates DEF HwInv, HwTyped
    <3>2. PostRight'
      BY <2>4, <3>1 DEF PostRight
    <3>3. Collecting'
      BY <1>0, <1>5, <2>1, <2>3, <2>4, <2>6, <2>9, <3>1 DEF Collecting, Posting, Faster
    <3> QED BY <2>4, <3>2, <3>3 DEF HwInv, Protocol
  <2> QED BY <1>1, <2>1, <2>8, <2>9, NextThread
<1> QED BY <1>0, <1>4, <1>5 DEF HwInv, Protocol, Collecting, Quiet, Waking, AllUp

(* Waiting until all are asleep. *)
LEMMA CollectKept ==
  ASSUME HwInv, Collect
  PROVE  HwInv'
<1>0. /\ pc[0] = "collect" /\ state[to] /\ ToNext("collect", "settle")
      /\ UNCHANGED <<alive, task, stack, cur, r1, state, ipi, call, what>>
  BY DEF Collect, At, mailVars
<1>1. Collecting
  BY <1>0 DEF HwInv, Protocol, Outside, Ordinary, Posting, Quiet, Waking, AllUp
<1>2. to \in Others /\ to' \in Others
  BY <1>0, <1>1, NextThread DEF Collecting, Faster
<1>3. PICK l \in {"collect", "settle"} : pc' = [pc EXCEPT ![0] = l]
  BY <1>0, <1>2, NextThread
<1>4. /\ pc'[0] = l /\ \A u \in Others : pc'[u] = pc[u] /\ MailRight(u)'
      /\ HwTyped' /\ \A u \in Others : u \in alive' => pc'[u] \notin Booting
      /\ \A u \in Others : GoingDown(u) => GoingDown(u)'
  BY <1>0, <1>2, <1>3, MainAlone DEF Calls
<1>5. PostRight'
  BY <1>4 DEF PostRight
<1>6. CASE /\ to' = to + 1 /\ pc' = [pc EXCEPT ![0] = "collect"]
           /\ \A u \in Others : u < to' => u < to \/ u = to
  <2>1. pc'[0] = "collect"
    BY <1>6, Mates DEF HwInv, HwTyped
  <2>2. Collecting'
    BY <1>0, <1>1, <1>2, <1>4, <1>6, <2>1 DEF Collecting, Faster
  <2> QED BY <1>4, <1>5, <2>2 DEF HwInv, Protocol
<1>7. CASE /\ to' = 1 /\ pc' = [pc EXCEPT ![0] = "settle"]
           /\ \A u \in Others : ~(u < to') /\ (u < to \/ u = to)
  <2>1. pc'[0] = "settle"
    BY <1>7, Mates DEF HwInv, HwTyped
  <2>2. Quiet'
    BY <1>0, <1>1, <1>2, <1>4, <1>7, <2>1 DEF Collecting, Quiet, Faster
  <2> QED BY <1>4, <1>5, <2>2 DEF HwInv, Protocol
<1> QED BY <1>0, <1>2, <1>6, <1>7, NextThread

(* The change of the speed. *)
LEMMA SpeedKept ==
  ASSUME HwInv, Settle \/ SetSpeed
  PROVE  HwInv'
<1>0. /\ pc[0] \in {"settle", "speed"}
      /\ UNCHANGED <<alive, task, stack, cur, r1, state, ipi, what, to>>
  BY DEF Settle, SetSpeed, At, mailVars, mainVars
<1>1. Quiet
  BY <1>0 DEF HwInv, Protocol, Outside, Ordinary, Posting, Collecting, Waking, AllUp
<1>2. PICK l \in {"speed", "wakeup"} : pc' = [pc EXCEPT ![0] = l]
  BY <1>1 DEF Settle, SetSpeed, Goto, Quiet, Faster
<1>3. call' = call /\ pc[1] = "off"
  BY <1>1, Mates DEF Settle, SetSpeed, MateOff, At, Quiet, Faster, mainVars
<1>4. to' \in Others \cup {0}
  BY <1>0 DEF HwInv, HwTyped
<1>5. /\ pc'[0] = l /\ \A u \in Others : pc'[u] = pc[u] /\ MailRight(u)'
      /\ HwTyped' /\ \A u \in Others : u \in alive' => pc'[u] \notin Booting
      /\ \A u \in Others : GoingDown(u) => GoingDown(u)'
  BY <1>0, <1>2, <1>4, MainAlone DEF Calls
<1>6. PostRight'
  BY <1>5 DEF PostRight
<1>7. Quiet'
  BY <1>0, <1>1, <1>3, <1>5, Mates DEF Quiet, Faster
<1> QED BY <1>5, <1>6, <1>7 DEF HwInv, Protocol

(* The interrupts find every primary thread asleep, its secondary off.     *)
LEMMA IpisKept ==
  ASSUME HwInv, SendIpis
  PROVE  HwInv'
<1>0. /\ pc[0] = "wakeup" /\ pc' = [pc EXCEPT ![0] = "wakemate"]
      /\ ipi' = ipi \cup {t \in Others : Primary(t)}
      /\ UNCHANGED <<alive, task, stack, cur, r1, state, call, what, to>>
  BY DEF SendIpis, At, Goto, mailVars, mainVars
<1>1. Quiet /\ pc[1] = "off"
  BY <1>0 DEF HwInv, Protocol, Outside, Ordinary, Posting, Collecting, Quiet, Waking, AllUp
<1>2. /\ pc' \in [Thread -> Places \cup Calls]
      /\ pc'[0] = "wakemate" /\ \A u \in Others : pc'[u] = pc[u]
  BY <1>0, Moved, Mates DEF HwInv, Places, Rising
<1>3. HwTyped'
  BY <1>0, <1>2 DEF HwInv, HwTyped
<1>4. \A u \in Others : MailRight(u)' /\ (u \in alive' => pc'[u] \notin Booting)
  BY <1>0, <1>2 DEF HwInv, MailRight
<1>5. PostRight'
  BY <1>2 DEF PostRight
<1>6. \A u \in Others : GoingDown(u) /\ state[u] /\ pc[u] \in Asleep /\ task[u] = None /\ u \notin ipi
  BY <1>1 DEF HwInv, Quiet, GoingDown, MailRight, Falling
<1>7. \A u \in Others : ComingBack(u)'
  <2> SUFFICES ASSUME NEW u \in Others PROVE ComingBack(u)'
    OBVIOUS
  <2>1. CASE Primary(u)
    <3>1. pc'[Mate(u)] = "off"
      BY <1>2, <1>6, <2>1, Mates DEF GoingDown, Asleep
    <3> QED BY <1>0, <1>2, <1>6, <2>1, <3>1 DEF ComingBack, Primary, Mate
  <2>2. CASE ~Primary(u)
    <3>1. pc[u] = "off"
      BY <1>1, <1>6, <2>2, Mates DEF GoingDown, Asleep
    <3> QED BY <1>0, <1>2, <1>6, <2>2, <3>1 DEF ComingBack, Primary
  <2> QED BY <2>1, <2>2
<1>8. Waking'
  BY <1>0, <1>1, <1>2, <1>7, Mates DEF Waking, Quiet, Faster
<1> QED BY <1>3, <1>4, <1>5, <1>8 DEF HwInv, Protocol

(* Thread 0 turns its own secondary on. *)
LEMMA OwnMateKept ==
  ASSUME HwInv, WakeOwnMate
  PROVE  HwInv'
<1>0. /\ pc[0] = "wakemate"
      /\ UNCHANGED <<alive, task, stack, cur, r1, state, ipi, call, what, to>>
  BY DEF WakeOwnMate, At, mailVars, mainVars
<1>1. Waking /\ pc[1] = "off" /\ 1 \in Others /\ to = 1
  BY <1>0, Mates DEF HwInv, Protocol, Outside, Ordinary, Posting, Collecting, Quiet, Waking, AllUp
<1>2. pc' = [pc EXCEPT ![0] = "back", ![1] = "woken"]
  BY <1>1, Mates DEF HwInv, HwTyped, WakeOwnMate, TurnOn
<1>3. /\ pc' \in [Thread -> Places \cup Calls]
      /\ pc'[0] = "back" /\ pc'[1] = "woken" /\ \A u \in Others : u # 1 => pc'[u] = pc[u]
  BY <1>2, Mates DEF HwInv, HwTyped, Places, Rising, Calls
<1>4. HwTyped'
  BY <1>0, <1>3 DEF HwInv, HwTyped, Places, Rising
<1>5. \A u \in Others : MailRight(u)' /\ (u \in alive' => pc'[u] \notin Booting)
  BY <1>0, <1>1, <1>3 DEF HwInv, MailRight, Waiting, Booting, Falling, Rising, Asleep
<1>6. PostRight'
  BY <1>3 DEF PostRight
<1>7. \A u \in Others : ComingBack(u)'
  <2> SUFFICES ASSUME NEW u \in Others PROVE ComingBack(u)'
    OBVIOUS
  <2>1. ComingBack(u)
    BY <1>1 DEF Waking
  <2>2. CASE u = 1
    BY <1>0, <1>1, <1>3, <2>1, <2>2, Mates DEF ComingBack
  <2>3. CASE u # 1
    <3>1. Primary(u) => pc'[Mate(u)] = pc[Mate(u)]
      BY <1>3, Mates
    <3> QED BY <1>0, <1>3, <2>1, <2>3, <3>1 DEF ComingBack, Primary, Mate
  <2> QED BY <2>2, <2>3
<1>8. Waking'
  BY <1>0, <1>1, <1>3, <1>7, Mates DEF Waking, Faster
<1> QED BY <1>4, <1>5, <1>6, <1>8 DEF HwInv, Protocol

(* A thread that is no longer marked has left the sleep for good.          *)
LEMMA LeftSleep ==
  ASSUME Waking, \A u \in Others : ~state[u], NEW t \in Others
  PROVE  Resting(t) /\ t \notin ipi
<1>1. ComingBack(t) /\ ~state[t]
  BY DEF Waking
<1>2. CASE Primary(t)
  <2>1. pc[Mate(t)] # "off"
    <3>1. Mate(t) \in Others /\ ~Primary(Mate(t))
      BY <1>2, Mates
    <3>2. ComingBack(Mate(t)) /\ ~state[Mate(t)]
      BY <3>1 DEF Waking
    <3> QED BY <3>1, <3>2 DEF ComingBack
  <2> QED BY <1>1, <1>2, <2>1 DEF ComingBack, Resting
<1>3. CASE ~Primary(t)
  BY <1>1, <1>3 DEF ComingBack, Resting
<1> QED BY <1>2, <1>3

LEMMA BackKept ==
  ASSUME HwInv, ComeBack
  PROVE  HwInv'
<1>0. /\ pc[0] = "back" /\ ~state[to] /\ ToNext("back", "fine")
      /\ UNCHANGED <<alive, task, stack, cur, r1, state, ipi, call, what>>
  BY DEF ComeBack, At, mailVars
<1>1. Waking
  BY <1>0 DEF HwInv, Protocol, Outside, Ordinary, Posting, Collecting, Quiet, AllUp
<1>2. to \in Others /\ to' \in Others
  BY <1>0, <1>1, NextThread DEF Waking, Faster
<1>3. PICK l \in {"back", "fine"} : pc' = [pc EXCEPT ![0] = l]
  BY <1>0, <1>2, NextThread
<1>4. /\ pc'[0] = l /\ \A u \in Others : pc'[u] = pc[u] /\ MailRight(u)'
      /\ HwTyped' /\ \A u \in Others : u \in alive' => pc'[u] \notin Booting
      /\ \A u \in Others : /\ Resting(u) => Resting(u)'
                           /\ ComingBack(u) => ComingBack(u)'
  BY <1>0, <1>2, <1>3, MainAlone DEF Calls
<1>5. PostRight'
  BY <1>4 DEF PostRight
<1>6. CASE /\ to' = to + 1 /\ pc' = [pc EXCEPT ![0] = "back"]
           /\ \A u \in Others : u < to' => u < to \/ u = to
  <2>1. pc'[0] = "back"
    BY <1>6, Mates DEF HwInv, HwTyped
  <2>2. Waking'
    BY <1>0, <1>1, <1>2, <1>4, <1>6, <2>1 DEF Waking, Faster
  <2> QED BY <1>4, <1>5, <2>2 DEF HwInv, Protocol
<1>7. CASE /\ to' = 1 /\ pc' = [pc EXCEPT ![0] = "fine"]
           /\ \A u \in Others : ~(u < to') /\ (u < to \/ u = to)
  <2>1. pc'[0] = "fine"
    BY <1>7, Mates DEF HwInv, HwTyped
  <2>2. \A u \in Others : ~state[u]
    BY <1>0, <1>1, <1>7 DEF Waking
  <2>3. \A u \in Others : Resting(u) /\ u \notin ipi
    BY <1>1, <2>2, LeftSleep
  <2>4. ipi' = {}
    BY <1>0, <2>3 DEF HwInv, HwTyped
  <2>5. AllUp'
    BY <1>0, <1>1, <1>2, <1>4, <2>1, <2>3, <2>4 DEF Waking, AllUp, Faster
  <2> QED BY <1>4, <1>5, <2>5 DEF HwInv, Protocol
<1> QED BY <1>0, <1>2, <1>6, <1>7, NextThread

LEMMA FineKept ==
  ASSUME HwInv, Fine
  PROVE  HwInv'
<1>0. /\ pc[0] = "fine" /\ pc' = [pc EXCEPT ![0] = "main"] /\ call' = "none"
      /\ UNCHANGED <<alive, task, stack, cur, r1, state, ipi, what, to>>
  BY DEF Fine, At, Goto, mailVars
<1>1. AllUp
  BY <1>0 DEF HwInv, Protocol, Outside, Ordinary, Posting, Collecting, Quiet, Waking
<1>2. to' \in Others \cup {0}
  BY <1>0 DEF HwInv, HwTyped
<1>3. /\ pc'[0] = "main" /\ \A u \in Others : pc'[u] = pc[u] /\ MailRight(u)'
      /\ HwTyped' /\ \A u \in Others : u \in alive' => pc'[u] \notin Booting
  BY <1>0, <1>2, MainAlone DEF Calls
<1>4. PostRight'
  BY <1>3 DEF PostRight
<1>5. \A u \in Others : task[u] = None /\ cur[u] = None /\ ~state[u]
  BY <1>1 DEF HwInv, AllUp, Resting, MailRight, Waiting
<1>6. Outside'
  BY <1>0, <1>1, <1>3, <1>5, NotWork DEF AllUp, Outside, Ordinary
<1> QED BY <1>3, <1>4, <1>6 DEF HwInv, Protocol
-----------------------------------------------------------------------------
LEMMA HwInit ==
  ASSUME Init
  PROVE  HwInv
<1>1. HwTyped
  BY Mates DEF Init, HwTyped, Places, Waiting, Booting
<1>2. \A t \in Others : MailRight(t)
  BY Mates DEF Init, MailRight, Waiting, Booting, Falling, Rising, Asleep
<1>3. PostRight
  BY Mates DEF Init, PostRight
<1>4. Outside
  BY Mates, NotWork DEF Init, Outside, Ordinary
<1> QED BY <1>1, <1>2, <1>3, <1>4 DEF HwInv, Protocol, Init

LEMMA HwStep ==
  ASSUME Patient, HwInv, [Next]_vars
  PROVE  HwInv'
<1>1. ASSUME NEW t \in Thread, Boot(t) PROVE HwInv'
  BY <1>1, Mates, BootKept, BootMainKept
<1>2. ASSUME NEW t \in Others, Loop(t) PROVE HwInv'
  BY <1>2, TakeKept, RunKept DEF Loop
<1>3. ASSUME NEW t \in Others, Nap(t) PROVE HwInv'
  BY <1>3, NapKept, WakeKept DEF Nap
<1>4. CASE \/ \E t \in Others, w \in Work : CallPost(t, w)
           \/ CallStartup
           \/ \E c \in {"single", "faster"} : CallSingle(c)
  BY <1>4, CallKept
<1>5. CASE Inside
  BY <1>5, StartupKept, StackPut, TaskPut, CollectKept, SpeedKept, IpisKept, OwnMateKept, BackKept,
     FineKept DEF Inside
<1>6. CASE UNCHANGED vars
  BY <1>6, Zenon DEF vars, mailVars, mainVars, HwInv, HwTyped, MailRight, PostRight, Protocol, Outside,
     Ordinary, Posting, Collecting, Quiet, Waking, AllUp, Faster, GoingDown, Resting, ComingBack
<1> QED BY <1>1, <1>2, <1>3, <1>4, <1>5, <1>6 DEF Next

LEMMA LateElse == [Next]_vars /\ ~PutStack => late' = late
  BY Zenon DEF Next, Boot, Unpark, WakeSecondary, ReportAlive, Loop, TakeTask, LoadStack, ClearTask,
     ClearStack, TaskEnds, Nap, Prepare, MarkAsleep, CpuSleep, IpiWakes, MarkAwake, WakeMate, CallPost,
     CallStartup, CallSingle, Inside, CheckAlive, Startup, AllAlive, TestBusy, PutTask, Collect,
     Settle, SetSpeed, SendIpis, WakeOwnMate, ComeBack, Fine, vars, ghosts

LEMMA SameProgram == [Next]_vars => program' = program
  BY Zenon DEF Next, Boot, Unpark, WakeSecondary, ReportAlive, Loop, TakeTask, LoadStack, ClearTask,
     ClearStack, TaskEnds, Nap, Prepare, MarkAsleep, CpuSleep, IpiWakes, MarkAwake, WakeMate, CallPost,
     CallStartup, CallSingle, Inside, CheckAlive, Startup, AllAlive, TestBusy, PutStack, PutTask, Collect,
     Settle, SetSpeed, SendIpis, WakeOwnMate, ComeBack, Fine, vars, ghosts

(* The invariant of a program that waits. *)
PatientInv == Patient => HwInv /\ late = {}

LEMMA HwAlways == Spec => []PatientInv
<1>1. Init => PatientInv
  BY HwInit DEF Init, PatientInv
<1>2. PatientInv /\ [Next]_vars => PatientInv'
  <2> SUFFICES ASSUME PatientInv, [Next]_vars, Patient' PROVE (HwInv /\ late = {})'
    BY DEF PatientInv
  <2>1. Patient /\ HwInv /\ late = {}
    BY SameProgram DEF Patient, PatientInv
  <2>2. HwInv'
    BY <2>1, HwStep
  <2>3. late' = {}
    <3>1. CASE PutStack
      <4>1. pc[to] \in Waiting
        BY <2>1, <3>1 DEF HwInv, PostRight, PutStack, At
      <4> QED BY <2>1, <3>1, <4>1 DEF PutStack, At, Waiting, Booting
    <3>2. CASE ~PutStack
      BY <2>1, <3>2, LateElse
    <3> QED BY <3>1, <3>2
  <2> QED BY <2>2, <2>3
<1> QED BY <1>1, <1>2, PTL DEF Spec
-----------------------------------------------------------------------------
(* The speed of the CPU changes (xenon_set_speed) only while every other   *)
(* thread is in the last instructions of cpusleep or off.                  *)
THEOREM QuietSpeed == Spec => [](Patient => QuietAtSpeed)
<1>1. PatientInv => (Patient => QuietAtSpeed)
  <2> SUFFICES ASSUME HwInv, pc[0] = "speed", NEW t \in Others
               PROVE  pc[t] \in {"cpusleep", "off"}
    BY DEF PatientInv, QuietAtSpeed, At
  <2>1. Quiet
    BY DEF HwInv, Protocol, Outside, Ordinary, Posting, Collecting, Waking, AllUp
  <2> QED BY <2>1 DEF Quiet, GoingDown, Asleep
<1> QED BY <1>1, HwAlways, PTL

(* When xenon_make_it_faster says that all came back, all did, primary     *)
(* threads too, which wait for nobody but still have to wake their         *)
(* secondary after their own mark is gone: the wait for the secondary's    *)
(* mark covers that.                                                       *)
THEOREM AllCameBack == Spec => []AllBack
<1>1. PatientInv => AllBack
  <2> SUFFICES ASSUME HwInv, pc[0] = "fine", NEW t \in Others
               PROVE  pc[t] \in {"loop", "wakemate"}
    BY DEF PatientInv, AllBack, At
  <2>1. AllUp
    BY DEF HwInv, Protocol, Outside, Ordinary, Posting, Collecting, Quiet, Waking
  <2> QED BY <2>1 DEF AllUp, Resting
<1> QED BY <1>1, HwAlways, PTL
-----------------------------------------------------------------------------
(* The mailbox, for every program.                                         *)
MailTyped ==
  /\ pc \in [Thread -> Places \cup Calls \cup {"fault"}]
  /\ \A t \in Others : pc[t] \in Places \cup {"fault"}
  /\ task \in [Others -> Work \cup {None}] /\ stack \in [Others -> Work \cup {None}]
  /\ cur \in [Others -> Work \cup {None}] /\ r1 \in [Others -> Work \cup {None}]
  /\ ipi \subseteq Others
  /\ to \in Others \cup {0}

(* Where thread 0 may be, and whom it posts to. *)
MainRight ==
  /\ call \in {"none", "startup", "post", "sleep", "single", "faster"}
  /\ call \notin {"none", "startup"} => to \in Others /\ what \in Work
  /\ pc[0] \in {"check", "try", "putstack", "puttask"} => call \notin {"none", "startup"}
  /\ pc[0] \in {"startup", "await"} => call # "none"
  /\ pc[0] \in {"putstack", "puttask"} => task[to] = None

(* A stack for task w, or none if it was stored too early. *)
StackFor(t, x, w) == x = w \/ (t \in late /\ x = None)

(* The two words and what the loop has read of them.  A thread about to    *)
(* clear its stack word has none of the next task's, unless that was       *)
(* stored too early.                                                       *)
BoxRight(t) ==
  /\ pc[t] \in {"load", "clear"} => cur[t] # None /\ task[t] = cur[t]
  /\ pc[t] \in {"clear", "wipe"} => StackFor(t, r1[t], cur[t])
  /\ pc[t] = "wipe" => cur[t] # None
  /\ task[t] # None => StackFor(t, stack[t], task[t])
  /\ pc[0] = "puttask" /\ to = t => StackFor(t, stack[t], what)
  /\ pc[t] = "wipe" /\ t \notin late => task[t] = None /\ ~(pc[0] = "puttask" /\ to = t)
  /\ pc[t] = "fault" => t \in late

MailInv == MailTyped /\ MainRight /\ \A t \in Others : BoxRight(t)
LEMMA MailMoved ==
  ASSUME MailTyped, NEW t \in Thread, NEW l, pc' = [pc EXCEPT ![t] = l]
  PROVE  /\ pc'[t] = l /\ \A u \in Thread : u # t => pc'[u] = pc[u]
         /\ l \in Places \cup {"fault"} => pc' \in [Thread -> Places \cup Calls \cup {"fault"}]
         /\ l \in Calls => pc' \in [Thread -> Places \cup Calls \cup {"fault"}]
  BY DEF MailTyped

(* A thread whose words nobody touches, and which is not on its way        *)
(* through the loop.                                                       *)
LEMMA BoxKept ==
  ASSUME NEW u \in Others, BoxRight(u), late' = late,
         task'[u] = task[u], stack'[u] = stack[u],
         \/ pc'[u] = pc[u] /\ cur'[u] = cur[u] /\ r1'[u] = r1[u]
         \/ pc'[u] \notin {"load", "clear", "wipe", "fault"},
         pc'[0] = "puttask" => pc[0] = "puttask" /\ to' = to /\ what' = what
  PROVE  BoxRight(u)'
  BY DEF BoxRight, StackFor

(* The steps of another thread than 0. *)
LEMMA BoxBoot ==
  ASSUME MailInv, NEW t \in Thread, Boot(t)
  PROVE  MailInv'
<1>0. t \in Thread /\ 0 \in Thread /\ MailTyped /\ \A u \in Others : u \in Thread /\ u # 0
  BY Mates DEF MailInv
<1>1. /\ UNCHANGED <<task, stack, cur, r1, ipi, call, what, to, late>> /\ pc[t] \in Booting
      /\ \E l \in {"start", "report", "main", "loop"} :
           /\ pc' = [pc EXCEPT ![t] = l] /\ (l = "main" <=> (t = 0 /\ pc[t] = "report"))
           /\ t = 0 => l # "loop"
  BY DEF Boot, Unpark, WakeSecondary, ReportAlive, At, Goto, Booting, mailVars, mainVars, ghosts
<1>2. PICK l \in {"start", "report", "main", "loop"} :
        pc' = [pc EXCEPT ![t] = l] /\ (l = "main" => t = 0)
  BY <1>1
<1>3. /\ pc'[t] = l /\ \A u \in Thread : u # t => pc'[u] = pc[u]
      /\ pc' \in [Thread -> Places \cup Calls \cup {"fault"}]
  BY <1>0, <1>2, MailMoved DEF Places, Waiting, Booting, Calls
<1>4. MailTyped'
  BY <1>0, <1>1, <1>2, <1>3 DEF MailTyped, Places, Waiting, Booting
<1>5. MainRight'
  BY <1>0, <1>1, <1>3 DEF MailInv, MainRight
<1>6. ASSUME NEW u \in Others PROVE BoxRight(u)'
  <2>1. pc'[u] = pc[u] \/ pc'[u] \notin {"load", "clear", "wipe", "fault"}
    BY <1>0, <1>3
  <2>2. pc'[0] = "puttask" => pc[0] = "puttask"
    BY <1>0, <1>3
  <2> QED BY <1>1, <2>1, <2>2, BoxKept DEF MailInv
<1> QED BY <1>4, <1>5, <1>6 DEF MailInv

(* A step of t that leaves thread 0 and the words of the others alone.     *)
LEMMA BoxOwn ==
  ASSUME MailInv, NEW t \in Others, UNCHANGED <<call, what, to, late>>,
         pc' \in [Thread -> Places \cup Calls \cup {"fault"}],
         pc'[0] = pc[0], \A u \in Others : pc'[u] \in Places \cup {"fault"},
         \A u \in Others : u # t => pc'[u] = pc[u] \/ pc'[u] \notin {"load", "clear", "wipe", "fault"},
         task' = task \/ task' = [task EXCEPT ![t] = None],
         stack' = stack \/ stack' = [stack EXCEPT ![t] = None],
         cur' \in [Others -> Work \cup {None}], \A u \in Others : u # t => cur'[u] = cur[u],
         r1' \in [Others -> Work \cup {None}], \A u \in Others : u # t => r1'[u] = r1[u],
         ipi' \subseteq Others, BoxRight(t)'
  PROVE  MailInv'
<1>0. MailTyped /\ MainRight /\ \A u \in Others : BoxRight(u)
  BY DEF MailInv
<1>1. /\ task' \in [Others -> Work \cup {None}] /\ stack' \in [Others -> Work \cup {None}]
      /\ \A u \in Others : u # t => task'[u] = task[u] /\ stack'[u] = stack[u]
      /\ \A u \in Others : task[u] = None => task'[u] = None
  BY <1>0 DEF MailTyped
<1>2. MailTyped'
  BY <1>0, <1>1 DEF MailTyped
<1>3. MainRight'
  BY <1>0, <1>1 DEF MainRight
<1>4. ASSUME NEW u \in Others PROVE BoxRight(u)'
  <2>1. CASE u # t
    BY <1>0, <1>1, <2>1, BoxKept
  <2> QED BY <2>1
<1> QED BY <1>2, <1>3, <1>4 DEF MailInv

LEMMA BoxLoop ==
  ASSUME MailInv, NEW t \in Others, Loop(t)
  PROVE  MailInv'
<1>0. /\ t \in Thread /\ 0 \in Thread /\ t # 0 /\ \A u \in Others : u \in Thread
      /\ MailTyped /\ MainRight /\ BoxRight(t)
  BY Mates DEF MailInv
<1>1. /\ UNCHANGED <<call, what, to, late, ipi>>
      /\ \/ /\ pc[t] = "loop" /\ task[t] # None /\ pc' = [pc EXCEPT ![t] = "load"]
            /\ cur' = [cur EXCEPT ![t] = task[t]] /\ UNCHANGED <<task, stack, r1>>
         \/ /\ pc[t] = "load" /\ pc' = [pc EXCEPT ![t] = "clear"]
            /\ r1' = [r1 EXCEPT ![t] = stack[t]] /\ UNCHANGED <<task, stack, cur>>
         \/ /\ pc[t] = "clear" /\ pc' = [pc EXCEPT ![t] = "wipe"]
            /\ task' = [task EXCEPT ![t] = None] /\ UNCHANGED <<stack, r1, cur>>
         \/ /\ pc[t] = "wipe" /\ stack' = [stack EXCEPT ![t] = None] /\ UNCHANGED <<task, cur, r1>>
            /\ pc' = [pc EXCEPT ![t] = IF r1[t] = None THEN "fault"
                                       ELSE IF cur[t] = Sleep THEN "prepare" ELSE "run"]
         \/ /\ pc[t] = "run" /\ pc' = [pc EXCEPT ![t] = "loop"]
            /\ cur' = [cur EXCEPT ![t] = None] /\ UNCHANGED <<task, stack, r1>>
  BY DEF Loop, TakeTask, LoadStack, ClearTask, ClearStack, TaskEnds, At, Goto, mailVars, mainVars, ghosts
<1>2. PICK l \in {"load", "clear", "wipe", "fault", "prepare", "run", "loop"} : pc' = [pc EXCEPT ![t] = l]
  BY <1>1
<1>3. /\ pc'[t] = l /\ \A u \in Thread : u # t => pc'[u] = pc[u]
      /\ l \in Places \cup {"fault"}
      /\ pc' \in [Thread -> Places \cup Calls \cup {"fault"}]
  BY <1>0, <1>2, MailMoved DEF Places, Waiting, Falling
<1>4. /\ cur' \in [Others -> Work \cup {None}] /\ r1' \in [Others -> Work \cup {None}]
      /\ \A u \in Others : u # t => cur'[u] = cur[u] /\ r1'[u] = r1[u]
  BY <1>0, <1>1 DEF MailTyped
<1>5. BoxRight(t)'
  <2>1. CASE pc[t] = "loop"
    <3>1. pc'[t] = "load" /\ cur'[t] = task[t] /\ task[t] # None /\ UNCHANGED <<task, stack, r1>>
      BY <1>0, <1>1, <1>3, <2>1 DEF MailTyped
    <3> QED BY <1>0, <1>1, <1>3, <3>1 DEF BoxRight, StackFor
  <2>2. CASE pc[t] = "load"
    <3>1. pc'[t] = "clear" /\ r1'[t] = stack[t] /\ UNCHANGED <<task, stack, cur>>
      BY <1>0, <1>1, <1>3, <2>2 DEF MailTyped
    <3> QED BY <1>0, <1>1, <1>3, <2>2, <3>1 DEF BoxRight, StackFor
  <2>3. CASE pc[t] = "clear"
    <3>1. pc'[t] = "wipe" /\ task'[t] = None /\ UNCHANGED <<stack, r1, cur>>
      BY <1>0, <1>1, <1>3, <2>3 DEF MailTyped
    <3>2. ~(pc[0] = "puttask" /\ to = t)
      BY <1>0, <2>3 DEF BoxRight, MainRight
    <3> QED BY <1>0, <1>1, <1>3, <2>3, <3>1, <3>2 DEF BoxRight, StackFor
  <2>4. CASE pc[t] = "wipe"
    <3>1. /\ pc'[t] = (IF r1[t] = None THEN "fault" ELSE IF cur[t] = Sleep THEN "prepare" ELSE "run")
          /\ stack'[t] = None /\ UNCHANGED <<task, r1, cur>>
      BY <1>0, <1>1, <1>3, <2>4 DEF MailTyped
    <3>2. pc'[t] = "fault" => t \in late
      BY <1>0, <2>4, <3>1 DEF BoxRight, StackFor
    <3> QED BY <1>0, <1>1, <1>3, <2>4, <3>1, <3>2 DEF BoxRight, StackFor
  <2>5. CASE pc[t] = "run"
    <3>1. pc'[t] = "loop" /\ UNCHANGED <<task, stack, r1>>
      BY <1>0, <1>1, <1>3, <2>5 DEF MailTyped
    <3> QED BY <1>0, <1>1, <1>3, <3>1, BoxKept
  <2> QED BY <1>1, <2>1, <2>2, <2>3, <2>4, <2>5
<1>6. /\ task' = task \/ task' = [task EXCEPT ![t] = None]
      /\ stack' = stack \/ stack' = [stack EXCEPT ![t] = None]
      /\ pc'[0] = pc[0] /\ ipi' \subseteq Others
      /\ \A u \in Others : pc'[u] \in Places \cup {"fault"}
      /\ \A u \in Others : u # t => pc'[u] = pc[u]
  BY <1>0, <1>1, <1>3 DEF MailTyped
<1> QED BY <1>1, <1>3, <1>4, <1>5, <1>6, BoxOwn

LEMMA BoxNap ==
  ASSUME MailInv, NEW t \in Others, Nap(t)
  PROVE  MailInv'
<1>0. /\ t \in Thread /\ 0 \in Thread /\ t # 0 /\ \A u \in Others : u \in Thread /\ u # 0
      /\ MailTyped /\ MainRight /\ BoxRight(t) /\ Mate(t) # 0
  BY Mates DEF MailInv, Mate
<1>1. UNCHANGED <<task, stack, r1, call, what, to, late>> /\ ipi' \subseteq Others
  BY <1>0 DEF Nap, Prepare, MarkAsleep, CpuSleep, IpiWakes, MarkAwake, WakeMate, mailVars, mainVars, ghosts,
              MailTyped
<1>2. /\ cur' \in [Others -> Work \cup {None}] /\ \A u \in Others : u # t => cur'[u] = cur[u]
  BY <1>0 DEF Nap, Prepare, MarkAsleep, CpuSleep, IpiWakes, MarkAwake, WakeMate, MailTyped
<1>3. /\ pc' \in [Thread -> Places \cup Calls \cup {"fault"}] /\ pc'[0] = pc[0]
      /\ pc'[t] \in Places /\ pc'[t] \notin {"load", "clear", "wipe", "fault"}
      /\ \A u \in Others : u # t => pc'[u] = pc[u] \/ pc'[u] = "woken"
  <2>1. CASE WakeMate(t)
    <3>1. pc' = [pc EXCEPT ![t] = "loop", ![Mate(t)] = IF @ = "off" THEN "woken" ELSE @]
      BY <2>1 DEF WakeMate, TurnOn
    <3>2. Mate(t) # t
      BY Mates DEF Mate
    <3> QED BY <1>0, <3>1, <3>2 DEF MailTyped, Places, Waiting, Rising
  <2>2. CASE ~WakeMate(t)
    <3>1. PICK l \in {"mark", "cpusleep", "off", "woken", "wakemate", "loop"} : pc' = [pc EXCEPT ![t] = l]
      BY <2>2 DEF Nap, Prepare, MarkAsleep, CpuSleep, IpiWakes, MarkAwake, Goto
    <3> QED BY <1>0, <3>1, MailMoved DEF Places, Waiting, Falling, Rising, Asleep
  <2> QED BY <2>1, <2>2
<1>4. BoxRight(t)'
  BY <1>0, <1>1, <1>3, BoxKept
<1>5. ASSUME NEW u \in Others
      PROVE  /\ pc'[u] \in Places \cup {"fault"}
             /\ u # t => pc'[u] = pc[u] \/ pc'[u] \notin {"load", "clear", "wipe", "fault"}
  <2>1. "woken" \in Places
    BY DEF Places, Rising
  <2>2. CASE u = t
    BY <1>3, <2>2
  <2>3. CASE u # t
    BY <1>0, <1>3, <2>1, <2>3 DEF MailTyped
  <2> QED BY <2>2, <2>3
<1>6. \A u \in Others : pc'[u] \in Places \cup {"fault"}
  BY <1>5
<1>7. \A u \in Others : u # t => pc'[u] = pc[u] \/ pc'[u] \notin {"load", "clear", "wipe", "fault"}
  BY <1>5
<1>8. r1' \in [Others -> Work \cup {None}] /\ UNCHANGED <<call, what, to, late, task, stack, r1>>
  BY <1>0, <1>1 DEF MailTyped
<1>9. pc' \in [Thread -> Places \cup Calls \cup {"fault"}] /\ pc'[0] = pc[0]
  BY <1>3
<1> QED BY <1>1, <1>2, <1>4, <1>6, <1>7, <1>8, <1>9, BoxOwn

(* The steps of thread 0. *)
LEMMA BoxMain ==
  ASSUME MailInv, NEW l \in Calls \ {"puttask"}, pc' = [pc EXCEPT ![0] = l],
         UNCHANGED <<task, stack, cur, r1, late>>, ipi' \subseteq Others, to' \in Others \cup {0},
         MainRight'
  PROVE  MailInv'
<1>0. 0 \in Thread /\ MailTyped /\ \A u \in Others : u \in Thread /\ u # 0 /\ BoxRight(u)
  BY Mates DEF MailInv
<1>1. /\ pc'[0] = l /\ \A u \in Others : pc'[u] = pc[u]
      /\ pc' \in [Thread -> Places \cup Calls \cup {"fault"}]
  BY <1>0, MailMoved
<1>2. MailTyped'
  BY <1>0, <1>1 DEF MailTyped
<1>3. \A u \in Others : BoxRight(u)'
  BY <1>0, <1>1, BoxKept
<1> QED BY <1>2, <1>3 DEF MailInv

LEMMA BoxCalls ==
  ASSUME MailInv,
         \/ \E t \in Others, w \in Work : CallPost(t, w)
         \/ CallStartup
         \/ \E c \in {"single", "faster"} : CallSingle(c)
  PROVE  MailInv'
<1>0. 0 \in Thread /\ 1 \in Others /\ MailTyped /\ Sleep \in Work
  BY Mates, NotWork DEF MailInv
<1>1. UNCHANGED <<task, stack, cur, r1, late, ipi>> /\ ipi' \subseteq Others
  BY <1>0 DEF CallPost, CallStartup, CallSingle, mailVars, ghosts, MailTyped
<1>2. CASE \E t \in Others, w \in Work : CallPost(t, w)
  <2>1. PICK t \in Others, w \in Work : CallPost(t, w)
    BY <1>2
  <2>2. pc' = [pc EXCEPT ![0] = "try"] /\ to' = t /\ what' = w /\ call' \in {"sleep", "post"}
    BY <2>1 DEF CallPost, MayCall, Goto
  <2>3. pc'[0] = "try"
    BY <1>0, <2>2, MailMoved
  <2> QED BY <1>1, <2>2, <2>3, BoxMain DEF MainRight, Calls
<1>3. CASE CallStartup
  <2>1. pc' = [pc EXCEPT ![0] = "startup"] /\ UNCHANGED <<to, what>> /\ call' = "startup"
    BY <1>3 DEF CallStartup, MayCall, Goto
  <2>2. pc'[0] = "startup" /\ to' \in Others \cup {0}
    BY <1>0, <2>1, MailMoved DEF MailTyped
  <2> QED BY <1>1, <2>1, <2>2, BoxMain DEF MainRight, Calls
<1>4. CASE \E c \in {"single", "faster"} : CallSingle(c)
  <2>1. pc' = [pc EXCEPT ![0] = "check"] /\ to' = 1 /\ what' = Sleep /\ call' \in {"single", "faster"}
    BY <1>4 DEF CallSingle, MayCall, Goto
  <2>2. pc'[0] = "check"
    BY <1>0, <2>1, MailMoved
  <2> QED BY <1>0, <1>1, <2>1, <2>2, BoxMain DEF MainRight, Calls
<1> QED BY <1>2, <1>3, <1>4

LEMMA BoxInside ==
  ASSUME MailInv, Inside, ~PutStack, ~PutTask, ~WakeOwnMate
  PROVE  MailInv'
<1>0. 0 \in Thread /\ 1 \in Others /\ MailTyped /\ MainRight
  BY Mates DEF MailInv
<1>1. UNCHANGED <<task, stack, cur, r1, late, what>> /\ ipi' \subseteq Others
  BY <1>0 DEF Inside, CheckAlive, Startup, AllAlive, TestBusy, Collect, Settle, SetSpeed, SendIpis, ComeBack,
     Fine, mailVars, mainVars, ghosts, MailTyped
<1>2. CASE Collect \/ ComeBack
  <2>1. PICK l \in {"collect", "settle", "back", "fine"} : pc' = [pc EXCEPT ![0] = l]
    BY <1>2 DEF Collect, ComeBack, ToNext, Goto
  <2>2. to' \in Others /\ call' = call
    <3>1. Last \in Int /\ Others = 1 .. Last
      BY HwAssumption DEF Last, Others, Thread, HwAssumption
    <3>2. to' = 1 \/ (to < Last /\ to' = to + 1)
      BY <1>2 DEF Collect, ComeBack, ToNext
    <3>3. call' = call
      BY <1>2 DEF Collect, ComeBack
    <3> QED BY <1>0, <3>1, <3>2, <3>3 DEF MailTyped
  <2>3. pc'[0] = l
    BY <1>0, <2>1, MailMoved
  <2>4. MainRight'
    BY <1>0, <1>1, <2>2, <2>3 DEF MainRight
  <2> QED BY <1>1, <2>1, <2>2, <2>4, BoxMain DEF Calls
<1>3. CASE CheckAlive \/ Startup \/ AllAlive \/ TestBusy
  <2>1. /\ to' = to
        /\ \/ /\ pc[0] = "check" /\ call' = call
              /\ \E l \in {"try", "startup"} : pc' = [pc EXCEPT ![0] = l]
           \/ pc[0] = "startup" /\ call' = call /\ pc' = [pc EXCEPT ![0] = "await"]
           \/ pc[0] = "await" /\ call = "startup" /\ call' = "none" /\ pc' = [pc EXCEPT ![0] = "main"]
           \/ pc[0] = "await" /\ call # "startup" /\ call' = call /\ pc' = [pc EXCEPT ![0] = "try"]
           \/ pc[0] = "try" /\ task[to] = None /\ call' = call /\ pc' = [pc EXCEPT ![0] = "putstack"]
           \/ pc[0] = "try" /\ call' = "none" /\ pc' = [pc EXCEPT ![0] = "main"]
    BY <1>3 DEF CheckAlive, Startup, AllAlive, TestBusy, At, Goto, mainVars
  <2>2. PICK l \in {"try", "startup", "await", "main", "putstack"} : pc' = [pc EXCEPT ![0] = l]
    BY <2>1
  <2>3. pc'[0] = l
    BY <1>0, <2>2, MailMoved
  <2>4. MainRight'
    BY <1>0, <1>1, <2>1, <2>3, MailMoved DEF MainRight
  <2>5. to' \in Others \cup {0}
    BY <1>0, <2>1 DEF MailTyped
  <2> QED BY <1>1, <2>2, <2>4, <2>5, BoxMain DEF Calls
<1>4. CASE Settle \/ SetSpeed \/ SendIpis \/ Fine
  <2>1. /\ to' = to /\ call' \in {call, "none"}
        /\ \E l \in {"speed", "main", "wakeup", "wakemate"} : pc' = [pc EXCEPT ![0] = l]
    BY <1>4 DEF Settle, SetSpeed, SendIpis, Fine, Goto, mainVars
  <2>2. PICK l \in {"speed", "main", "wakeup", "wakemate"} : pc' = [pc EXCEPT ![0] = l]
    BY <2>1
  <2>3. pc'[0] = l
    BY <1>0, <2>2, MailMoved
  <2>4. MainRight' /\ to' \in Others \cup {0}
    BY <1>0, <1>1, <2>1, <2>3 DEF MainRight, MailTyped
  <2>5. CASE l # "wakemate"
    BY <1>1, <2>2, <2>4, <2>5, BoxMain DEF Calls
  <2>6. CASE l = "wakemate"
    <3>1. /\ pc' \in [Thread -> Places \cup Calls \cup {"fault"}] /\ \A u \in Others : pc'[u] = pc[u]
      BY <1>0, <2>2, <2>6, MailMoved, Mates DEF Places, Rising
    <3>2. MailTyped'
      BY <1>0, <1>1, <2>4, <3>1 DEF MailTyped
    <3>3. \A u \in Others : BoxRight(u)'
      BY <1>1, <2>3, <2>6, <3>1, BoxKept DEF MailInv
    <3> QED BY <2>4, <3>2, <3>3 DEF MailInv
  <2> QED BY <2>5, <2>6
<1> QED BY <1>2, <1>3, <1>4 DEF Inside

LEMMA BoxPuts ==
  ASSUME MailInv, PutStack \/ PutTask \/ WakeOwnMate
  PROVE  MailInv'
<1>0. /\ 0 \in Thread /\ 1 \in Others /\ \A u \in Others : u \in Thread /\ u # 0
      /\ MailTyped /\ MainRight /\ \A u \in Others : BoxRight(u)
  BY Mates DEF MailInv
<1>1. CASE PutStack
  <2>1. /\ pc[0] = "putstack" /\ pc' = [pc EXCEPT ![0] = "puttask"]
        /\ stack' = [stack EXCEPT ![to] = what]
        /\ late' = (IF pc[to] = "wipe" THEN late \cup {to} ELSE late)
        /\ UNCHANGED <<task, cur, r1, ipi, call, what, to>>
    BY <1>1 DEF PutStack, At, Goto, mainVars
  <2>2. to \in Others /\ what \in Work /\ task[to] = None
    BY <1>0, <2>1 DEF MainRight
  <2>3. /\ pc'[0] = "puttask" /\ \A u \in Others : pc'[u] = pc[u]
        /\ pc' \in [Thread -> Places \cup Calls \cup {"fault"}]
    BY <1>0, <2>1, MailMoved DEF Calls
  <2>4. /\ stack' \in [Others -> Work \cup {None}] /\ stack'[to] = what
        /\ \A u \in Others : u # to => stack'[u] = stack[u]
    BY <1>0, <2>1, <2>2 DEF MailTyped
  <2>5. MailTyped' /\ MainRight'
    BY <1>0, <2>1, <2>2, <2>3, <2>4 DEF MailTyped, MainRight
  <2>6. ASSUME NEW u \in Others PROVE BoxRight(u)'
    <3>1. CASE u = to
      BY <1>0, <2>1, <2>2, <2>3, <2>4, <3>1 DEF BoxRight, StackFor
    <3>2. CASE u # to
      <4>1. (u \in late' <=> u \in late) /\ BoxRight(u)
        BY <1>0, <2>1, <3>2
      <4> QED BY <2>1, <2>3, <2>4, <3>2, <4>1 DEF BoxRight, StackFor
    <3> QED BY <3>1, <3>2
  <2> QED BY <2>5, <2>6 DEF MailInv
<1>2. CASE PutTask
  <2>1. /\ pc[0] = "puttask" /\ task' = [task EXCEPT ![to] = what]
        /\ UNCHANGED <<stack, cur, r1, ipi, what, late>>
    BY <1>2 DEF PutTask, At
  <2>2. to \in Others /\ what \in Work /\ what # None /\ task[to] = None /\ call \notin {"none", "startup"}
    BY <1>0, <2>1, NotWork DEF MainRight
  <2>3. PICK l \in {"try", "collect", "main"} :
          /\ pc' = [pc EXCEPT ![0] = l]
          /\ IF l = "main" THEN call' = "none" /\ to' = to ELSE call' = call /\ to' \in Others
    <3>1. CASE Looping
      <4>1. ToNext("try", "collect") /\ call' = call
        BY <1>2, <3>1 DEF PutTask
      <4> QED BY <2>2, <4>1, NextThread
    <3>2. CASE ~Looping
      BY <1>2, <3>2 DEF PutTask, Goto
    <3> QED BY <3>1, <3>2
  <2>4. /\ pc'[0] = l /\ \A u \in Others : pc'[u] = pc[u]
        /\ pc' \in [Thread -> Places \cup Calls \cup {"fault"}]
    BY <1>0, <2>3, MailMoved DEF Calls
  <2>5. /\ task' \in [Others -> Work \cup {None}] /\ task'[to] = what
        /\ \A u \in Others : u # to => task'[u] = task[u]
    BY <1>0, <2>1, <2>2 DEF MailTyped
  <2>6. MailTyped' /\ MainRight'
    BY <1>0, <2>1, <2>2, <2>3, <2>4, <2>5 DEF MailTyped, MainRight
  <2>7. ASSUME NEW u \in Others PROVE BoxRight(u)'
    <3>1. CASE u = to
      BY <1>0, <2>1, <2>2, <2>4, <2>5, <3>1 DEF BoxRight, StackFor
    <3>2. CASE u # to
      BY <1>0, <2>1, <2>4, <2>5, <3>2 DEF BoxRight, StackFor
    <3> QED BY <3>1, <3>2
  <2> QED BY <2>6, <2>7 DEF MailInv
<1>3. CASE WakeOwnMate
  <2>1. /\ pc' = [pc EXCEPT ![0] = "back", ![Mate(0)] = IF @ = "off" THEN "woken" ELSE @]
        /\ UNCHANGED <<task, stack, cur, r1, ipi, call, what, to, late>>
    BY <1>3 DEF WakeOwnMate, TurnOn, mailVars, mainVars, ghosts
  <2>2. /\ pc'[0] = "back" /\ pc' \in [Thread -> Places \cup Calls \cup {"fault"}]
        /\ \A u \in Others : pc'[u] = pc[u] \/ pc'[u] = "woken"
    <3>1. Mate(0) \in Others
      BY Mates
    <3> QED BY <1>0, <2>1, <3>1 DEF MailTyped, Calls, Places, Rising
  <2>3. MailTyped' /\ MainRight'
    BY <1>0, <2>1, <2>2 DEF MailTyped, MainRight, Places, Rising
  <2>4. \A u \in Others : BoxRight(u)'
    BY <1>0, <2>1, <2>2, BoxKept
  <2> QED BY <2>3, <2>4 DEF MailInv
<1> QED BY <1>1, <1>2, <1>3

LEMMA MailAlways == Spec => []MailInv
<1>1. Init => MailInv
  <2> SUFFICES ASSUME Init PROVE MailInv
    OBVIOUS
  <2>1. MailTyped
    BY Mates DEF Init, MailTyped, Places, Waiting, Booting
  <2>2. MainRight /\ \A t \in Others : BoxRight(t)
    BY Mates DEF Init, MainRight, BoxRight
  <2> QED BY <2>1, <2>2 DEF MailInv
<1>2. MailInv /\ [Next]_vars => MailInv'
  <2> SUFFICES ASSUME MailInv, [Next]_vars PROVE MailInv'
    OBVIOUS
  <2>1. CASE UNCHANGED vars
    BY <2>1, Zenon DEF vars, mailVars, mainVars, ghosts, MailInv, MailTyped, MainRight, BoxRight, StackFor
  <2>2. CASE Inside
    BY <2>2, BoxInside, BoxPuts
  <2> QED BY <2>1, <2>2, BoxBoot, BoxLoop, BoxNap, BoxCalls DEF Next
<1> QED BY <1>1, <1>2, PTL DEF Spec

(* A task is called on the stack it was posted with: the loop reads the    *)
(* stack word before it clears the task word, after which                  *)
(* xenon_run_thread_task may write both again.  Whoever does so before the *)
(* loop has cleared the stack word loses the new stack, never gets the     *)
(* wrong one.  No program that waits for its tasks does.                   *)
THEOREM StacksGiven == Spec => []StackGiven
<1>1. MailInv /\ PatientInv => StackGiven
  BY DEF MailInv, BoxRight, StackFor, PatientInv, StackGiven, At
<1> QED BY <1>1, MailAlways, HwAlways, PTL
-----------------------------------------------------------------------------
(* Every accepted post is one call. *)
Taken == {"load", "clear"}
Boxed(w) == {t \in Others : task[t] = w /\ pc[t] \notin Taken}
Held(w) == {t \in Others : cur[t] = w /\ pc[t] \in Taken \cup {"wipe"}}

PostsInv ==
  /\ owed \in [Work -> Int]
  /\ \A w \in Work : owed[w] = Cardinality(Boxed(w)) + Cardinality(Held(w))

LEMMA Counts ==
  ASSUME NEW S, S \subseteq Others, NEW t
  PROVE  /\ Cardinality(S) \in Nat
         /\ t \notin S => Cardinality(S \cup {t}) = Cardinality(S) + 1
         /\ t \in S => Cardinality(S \ {t}) = Cardinality(S) - 1
<1>1. IsFiniteSet(Others)
  <2>1. 2 * Cores - 1 \in Int
    BY HwAssumption DEF HwAssumption
  <2>2. IsFiniteSet(Thread)
    BY <2>1, FS_Interval DEF Thread
  <2> QED BY <2>2, FS_Subset DEF Others
<1>2. IsFiniteSet(S)
  BY <1>1, FS_Subset
<1> QED BY <1>2, FS_CardinalityType, FS_AddElement, FS_RemoveElement

(* Thread t neither gets a task nor calls one. *)
Idle(t) ==
  /\ task'[t] = task[t]
  /\ \/ pc'[t] = pc[t] /\ cur'[t] = cur[t]
     \/ pc[t] \notin Taken \cup {"wipe"} /\ pc'[t] \notin Taken \cup {"wipe"}
     \/ pc[t] = "load" /\ pc'[t] = "clear" /\ cur'[t] = cur[t]

LEMMA IdleCounts ==
  ASSUME PostsInv, UNCHANGED owed, \A t \in Others : Idle(t)
  PROVE  PostsInv'
<1>1. ASSUME NEW w \in Work PROVE Boxed(w)' = Boxed(w) /\ Held(w)' = Held(w)
  BY DEF Idle, Boxed, Held, Taken
<1> QED BY <1>1 DEF PostsInv

LEMMA BootCounts ==
  ASSUME MailInv, PostsInv, NEW t \in Thread, Boot(t)
  PROVE  PostsInv'
<1>1. /\ UNCHANGED <<task, cur, owed>> /\ pc[t] \in Booting
      /\ \E l \in {"start", "report", "main", "loop"} : pc' = [pc EXCEPT ![t] = l]
  BY DEF Boot, Unpark, WakeSecondary, ReportAlive, At, Goto, Booting, mailVars, mainVars, ghosts
<1>2. \A u \in Others : Idle(u)
  BY <1>1, Mates DEF MailInv, MailTyped, Idle, Taken, Booting
<1> QED BY <1>1, <1>2, IdleCounts

LEMMA NapCounts ==
  ASSUME MailInv, PostsInv, NEW t \in Others, Nap(t) \/ LoadStack(t) \/ TaskEnds(t)
  PROVE  PostsInv'
<1>0. pc \in [Thread -> Places \cup Calls \cup {"fault"}] /\ cur \in [Others -> Work \cup {None}]
  BY DEF MailInv, MailTyped
<1>1. UNCHANGED <<task, owed>> /\ \A u \in Others : u # t => cur'[u] = cur[u]
  BY <1>0 DEF Nap, Prepare, MarkAsleep, CpuSleep, IpiWakes, MarkAwake, WakeMate, LoadStack, TaskEnds,
              mailVars, mainVars, ghosts
<1>2. \A u \in Others : Idle(u)
  <2> SUFFICES ASSUME NEW u \in Others PROVE Idle(u)
    OBVIOUS
  <2>1. CASE LoadStack(t)
    BY <1>0, <1>1, <2>1, Mates DEF LoadStack, At, Goto, Idle
  <2>2. CASE WakeMate(t)
    <3>1. /\ pc[t] = "wakemate" /\ cur' = [cur EXCEPT ![t] = None]
          /\ pc' = [pc EXCEPT ![t] = "loop", ![Mate(t)] = IF @ = "off" THEN "woken" ELSE @]
      BY <2>2 DEF WakeMate, TurnOn, At
    <3>2. CASE u = t
      <4>1. pc'[t] \in {"loop", "woken"}
        BY <1>0, <3>1, Mates
      <4> QED BY <1>1, <3>1, <3>2, <4>1 DEF Idle, Taken
    <3>3. CASE u # t
      <4>1. pc'[u] = pc[u] \/ (pc[u] = "off" /\ pc'[u] = "woken")
        BY <1>0, <3>1, <3>3, Mates
      <4> QED BY <1>1, <3>3, <4>1 DEF Idle, Taken
    <3> QED BY <3>2, <3>3
  <2>3. CASE Prepare(t) \/ MarkAsleep(t) \/ CpuSleep(t) \/ IpiWakes(t) \/ MarkAwake(t) \/ TaskEnds(t)
    <3>1. /\ pc[t] \in {"prepare", "mark", "cpusleep", "off", "woken", "run"}
          /\ \E l \in {"mark", "cpusleep", "off", "woken", "wakemate", "loop"} : pc' = [pc EXCEPT ![t] = l]
      BY <2>3 DEF Prepare, MarkAsleep, CpuSleep, IpiWakes, MarkAwake, TaskEnds, At, Goto
    <3> QED BY <1>0, <1>1, <3>1, Mates DEF Idle, Taken
  <2> QED BY <2>1, <2>2, <2>3 DEF Nap
<1> QED BY <1>1, <1>2, IdleCounts

(* A task taken goes from the mailbox into the thread's hands, ...         *)
LEMMA TakeCounts ==
  ASSUME MailInv, PostsInv, NEW t \in Others, TakeTask(t)
  PROVE  PostsInv'
<1>1. /\ pc[t] = "loop" /\ task[t] \in Work /\ UNCHANGED <<task, owed>>
      /\ pc'[t] = "load" /\ cur'[t] = task[t]
      /\ \A u \in Others : u # t => pc'[u] = pc[u] /\ cur'[u] = cur[u]
  BY Mates DEF MailInv, MailTyped, TakeTask, At, Goto, mailVars, ghosts
<1>2. ASSUME NEW w \in Work PROVE Cardinality(Boxed(w)') + Cardinality(Held(w)')
                                  = Cardinality(Boxed(w)) + Cardinality(Held(w))
  <2>1. Boxed(w) \subseteq Others /\ Held(w) \subseteq Others
    BY DEF Boxed, Held
  <2>2. CASE w = task[t]
    <3>1. /\ Boxed(w)' = Boxed(w) \ {t} /\ t \in Boxed(w)
          /\ Held(w)' = Held(w) \cup {t} /\ t \notin Held(w)
      BY <1>1, <2>2 DEF Boxed, Held, Taken
    <3>2. Cardinality(Boxed(w)) \in Nat /\ Cardinality(Boxed(w) \ {t}) = Cardinality(Boxed(w)) - 1
      BY <2>1, <3>1, Counts
    <3>3. Cardinality(Held(w)) \in Nat /\ Cardinality(Held(w) \cup {t}) = Cardinality(Held(w)) + 1
      BY <2>1, <3>1, Counts
    <3> QED BY <3>1, <3>2, <3>3
  <2>3. CASE w # task[t]
    <3>1. Boxed(w)' = Boxed(w) /\ Held(w)' = Held(w)
      BY <1>1, <2>3 DEF Boxed, Held, Taken
    <3> QED BY <3>1
  <2> QED BY <2>2, <2>3
<1> QED BY <1>1, <1>2 DEF PostsInv

(* ... the word is cleared only after that, ...                            *)
LEMMA ClearCounts ==
  ASSUME MailInv, PostsInv, NEW t \in Others, ClearTask(t)
  PROVE  PostsInv'
<1>1. /\ pc[t] = "clear" /\ UNCHANGED <<cur, owed>> /\ pc'[t] = "wipe" /\ task'[t] = None
      /\ \A u \in Others : u # t => pc'[u] = pc[u] /\ task'[u] = task[u]
  BY Mates DEF MailInv, MailTyped, ClearTask, At, Goto, ghosts
<1>2. ASSUME NEW w \in Work PROVE Boxed(w)' = Boxed(w) /\ Held(w)' = Held(w)
  BY <1>1, NotWork DEF Boxed, Held, Taken
<1> QED BY <1>1, <1>2 DEF PostsInv

(* ... and calling the task is what was owed.                              *)
LEMMA BeginCounts ==
  ASSUME MailInv, PostsInv, NEW t \in Others, ClearStack(t)
  PROVE  PostsInv'
<1>0. pc[t] = "wipe" /\ cur[t] \in Work
  BY DEF ClearStack, At, MailInv, MailTyped, BoxRight
<1>1. /\ UNCHANGED <<task, cur>> /\ owed' = [owed EXCEPT ![cur[t]] = @ - 1]
      /\ \E l \in {"fault", "prepare", "run"} : pc' = [pc EXCEPT ![t] = l]
  BY <1>0 DEF ClearStack, Goto
<1>2. pc'[t] \in {"fault", "prepare", "run"} /\ \A u \in Others : u # t => pc'[u] = pc[u]
  BY <1>1, Mates DEF MailInv, MailTyped
<1>3. ASSUME NEW w \in Work
      PROVE  owed'[w] = Cardinality(Boxed(w)') + Cardinality(Held(w)')
  <2>1. Boxed(w)' = Boxed(w) /\ Boxed(w) \subseteq Others /\ Held(w) \subseteq Others
    BY <1>0, <1>1, <1>2 DEF Boxed, Held, Taken
  <2>2. CASE w = cur[t]
    <3>1. Held(w)' = Held(w) \ {t} /\ t \in Held(w)
      BY <1>0, <1>1, <1>2, <2>2 DEF Held, Taken
    <3>2. owed'[w] = owed[w] - 1
      BY <1>1, <2>2 DEF PostsInv
    <3>3. Cardinality(Boxed(w)) \in Nat /\ Cardinality(Held(w)) \in Nat
          /\ Cardinality(Held(w) \ {t}) = Cardinality(Held(w)) - 1
      BY <2>1, <3>1, Counts
    <3>4. owed[w] = Cardinality(Boxed(w)) + Cardinality(Held(w))
      BY DEF PostsInv
    <3> QED BY <2>1, <3>1, <3>2, <3>3, <3>4
  <2>3. CASE w # cur[t]
    <3>1. Held(w)' = Held(w)
      BY <1>0, <1>1, <1>2, <2>3 DEF Held, Taken
    <3>2. owed'[w] = owed[w]
      BY <1>1, <2>3 DEF PostsInv
    <3>3. owed[w] = Cardinality(Boxed(w)) + Cardinality(Held(w))
      BY DEF PostsInv
    <3> QED BY <2>1, <3>1, <3>2, <3>3
  <2> QED BY <2>2, <2>3
<1>4. owed' \in [Work -> Int]
  <2>1. owed \in [Work -> Int]
    BY DEF PostsInv
  <2>2. owed[cur[t]] - 1 \in Int
    BY <1>0, <2>1
  <2> QED BY <1>1, <2>1, <2>2
<1> QED BY <1>3, <1>4 DEF PostsInv

LEMMA MainCounts ==
  ASSUME MailInv, PostsInv,
         \/ \E t \in Others, w \in Work : CallPost(t, w)
         \/ CallStartup
         \/ \E c \in {"single", "faster"} : CallSingle(c)
         \/ Inside /\ ~PutTask
  PROVE  PostsInv'
<1>0. pc \in [Thread -> Places \cup Calls \cup {"fault"}]
  BY DEF MailInv, MailTyped
<1>1. UNCHANGED <<task, cur, owed>>
  BY DEF CallPost, CallStartup, CallSingle, Inside, CheckAlive, Startup, AllAlive, TestBusy, PutStack,
         Collect, Settle, SetSpeed, SendIpis, WakeOwnMate, ComeBack, Fine, mailVars, mainVars, ghosts
<1>2. \A u \in Others : pc'[u] = pc[u] \/ (pc[u] = "off" /\ pc'[u] = "woken")
  <2>1. CASE WakeOwnMate
    BY <1>0, <2>1, Mates DEF WakeOwnMate, TurnOn
  <2>2. ASSUME NEW l, pc' = [pc EXCEPT ![0] = l] PROVE \A u \in Others : pc'[u] = pc[u]
    BY <1>0, <2>2, Mates
  <2>3. CASE Collect \/ ComeBack
    <3>1. \E l : pc' = [pc EXCEPT ![0] = l]
      BY <2>3, Zenon DEF Collect, ComeBack, ToNext, Goto
    <3> QED BY <2>2, <3>1
  <2>4. CASE \/ \E t \in Others, w \in Work : CallPost(t, w)
             \/ CallStartup
             \/ \E c \in {"single", "faster"} : CallSingle(c)
    <3>1. \E l : pc' = [pc EXCEPT ![0] = l]
      BY <2>4, Zenon DEF CallPost, CallStartup, CallSingle, Goto
    <3> QED BY <2>2, <3>1
  <2>5. CASE \/ CheckAlive \/ Startup \/ AllAlive \/ TestBusy \/ PutStack \/ Settle \/ SetSpeed
             \/ SendIpis \/ Fine
    <3>1. \E l : pc' = [pc EXCEPT ![0] = l]
      BY <2>5, Zenon DEF CheckAlive, Startup, AllAlive, TestBusy, PutStack, Settle, SetSpeed, SendIpis,
                         Fine, Goto
    <3> QED BY <2>2, <3>1
  <2> QED BY <2>1, <2>3, <2>4, <2>5 DEF Inside
<1>3. \A u \in Others : Idle(u)
  BY <1>1, <1>2 DEF Idle, Taken
<1> QED BY <1>1, <1>3, IdleCounts

LEMMA PutCounts ==
  ASSUME MailInv, PostsInv, PutTask
  PROVE  PostsInv'
<1>0. /\ task' = [task EXCEPT ![to] = what] /\ owed' = [owed EXCEPT ![what] = @ + 1] /\ UNCHANGED cur
      /\ to \in Others /\ what \in Work /\ pc[to] \notin {"load", "clear"} /\ task[to] = None
  BY DEF PutTask, At, MailInv, MainRight, BoxRight
<1>1. task'[to] = what /\ \A u \in Others : u # to => task'[u] = task[u]
  BY <1>0 DEF MailInv, MailTyped
<1>2. \A u \in Others : pc'[u] = pc[u]
  <2>1. \E l \in {"try", "collect", "main"} : pc' = [pc EXCEPT ![0] = l]
    BY DEF PutTask, ToNext, Goto
  <2> QED BY <2>1, Mates DEF MailInv, MailTyped
<1>3. ASSUME NEW w \in Work
      PROVE  owed'[w] = Cardinality(Boxed(w)') + Cardinality(Held(w)')
  <2>1. Held(w)' = Held(w) /\ Boxed(w) \subseteq Others /\ Held(w) \subseteq Others
    BY <1>0, <1>2 DEF Boxed, Held
  <2>2. CASE w = what
    <3>1. Boxed(w)' = Boxed(w) \cup {to} /\ to \notin Boxed(w)
      BY <1>0, <1>1, <1>2, <2>2, NotWork DEF Boxed, Taken
    <3>2. owed'[w] = owed[w] + 1
      BY <1>0, <2>2 DEF PostsInv
    <3>3. Cardinality(Boxed(w)) \in Nat /\ Cardinality(Held(w)) \in Nat
          /\ Cardinality(Boxed(w) \cup {to}) = Cardinality(Boxed(w)) + 1
      BY <2>1, <3>1, Counts
    <3>4. owed[w] = Cardinality(Boxed(w)) + Cardinality(Held(w))
      BY DEF PostsInv
    <3> QED BY <2>1, <3>1, <3>2, <3>3, <3>4
  <2>3. CASE w # what
    <3>1. Boxed(w)' = Boxed(w)
      BY <1>0, <1>1, <1>2, <2>3, NotWork DEF Boxed
    <3>2. owed'[w] = owed[w]
      BY <1>0, <2>3 DEF PostsInv
    <3>3. owed[w] = Cardinality(Boxed(w)) + Cardinality(Held(w))
      BY DEF PostsInv
    <3> QED BY <2>1, <3>1, <3>2, <3>3
  <2> QED BY <2>2, <2>3
<1> QED BY <1>0, <1>3 DEF PostsInv

LEMMA PostsStep ==
  ASSUME MailInv, PostsInv, [Next]_vars
  PROVE  PostsInv'
<1>1. ASSUME NEW t \in Thread, Boot(t) PROVE PostsInv'
  BY <1>1, BootCounts
<1>2. ASSUME NEW t \in Others, Loop(t) \/ Nap(t) PROVE PostsInv'
  BY <1>2, NapCounts, TakeCounts, ClearCounts, BeginCounts DEF Loop
<1>3. CASE \/ \E t \in Others, w \in Work : CallPost(t, w)
           \/ CallStartup
           \/ \E c \in {"single", "faster"} : CallSingle(c)
  BY <1>3, MainCounts
<1>4. CASE Inside
  BY <1>4, MainCounts, PutCounts
<1>5. CASE UNCHANGED vars
  BY <1>5 DEF vars, mailVars, ghosts, PostsInv, Boxed, Held
<1> QED BY <1>1, <1>2, <1>3, <1>4, <1>5 DEF Next

(* Every post that xenon_run_thread_task accepts becomes one call of the   *)
(* task, none is lost and none repeated, whatever the program does while a *)
(* thread is busy.                                                         *)
THEOREM PostsCounted == Spec => []PostsExact
<1>1. Init => PostsInv
  <2> SUFFICES ASSUME Init, NEW w \in Work PROVE Boxed(w) = {} /\ Held(w) = {}
    BY FS_EmptySet DEF Init, PostsInv
  <2> QED BY Mates, NotWork DEF Init, Boxed, Held, Taken
<1>2. MailInv /\ PostsInv /\ [Next]_vars => PostsInv'
  BY PostsStep
<1>3. PostsInv => PostsExact
  BY DEF PostsInv, PostsExact, Boxed, Held, Taken
<1> QED BY <1>1, <1>2, <1>3, MailAlways, PTL DEF Spec
=============================================================================

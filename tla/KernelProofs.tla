---------------------------- MODULE KernelProofs ----------------------------
(***************************************************************************)
(* Proofs about the kernel, in two parts.                                  *)
(*                                                                         *)
(* Part one: Scheduler.tla for every size of the task table and of memory, *)
(* every boot script and every number of ELF pages, with ticks anywhere,   *)
(* for one supervisor at most (OneSupervisor).                             *)
(*                                                                         *)
(* Part two: Heap.tla for every layout of the page, every number of pages  *)
(* and every set of request sizes.                                         *)
(***************************************************************************)
EXTENDS Scheduler, Heap, FiniteSetTheorems, SequenceTheorems, NaturalsInduction,
        WellFoundedInduction, TLAPS

(***************************************************************************)
(* The inductive invariant.                                                *)
(***************************************************************************)

\* One task at most makes the calls that create and unblock others, as in
\* kernel.cpp, where taskBEntry does; ticks may fall anywhere into them.
OneSupervisor == \A p, q \in Supervisors : p = q

Callers == {BootPid} \cup Pid
Gathering == {"page", "space", "map"}
Steps == Gathering \cup {"reclaim", "publish", "frame"}
Space == {KernelSpace} \cup Page

Context == [pid : {-1} \cup Callers, ring : {0, 3}]
Task == [pid : 0..MaxPid, state : States, savedEsp : Context,
         isUser : BOOLEAN, pages : SUBSET Page, space : Space]

CreateJob == [call : {"create"}, kind : Kinds, slot : Slot, todo : Seq(Steps),
              pages : SUBSET Page, space : Space]
Job == {NoCall, [call |-> "halt"]}
       \cup [call : {"yield"}, then : {"none", "halt"}]
       \cup [call : {"unblock"}, slot : Slot]
       \cup CreateJob

TypeInv ==
    /\ tasks \in [Slot -> Task]
    /\ current \in {-1} \cup Slot
    /\ nextPid \in (IdlePid + 1)..(MaxPid + 1)
    /\ used \in SUBSET Page
    /\ tables \in [Page -> SUBSET Page]
    /\ cpu \in Context /\ (cpu.pid = -1 => cpu = Nowhere)
    /\ job \in [Callers -> Job]
    /\ script \in Seq(Kinds)
    /\ exited \in SUBSET Pid

Live == {"Ready", "Running", "Blocked"}

\* Who is in the middle of a call that works on another slot, if anybody, and
\* whether it is a creation.
busy == {p \in Callers : job[p].call \in {"create", "unblock"}}
maker == CHOOSE p \in busy : TRUE
creating == busy # {} /\ job[maker].call = "create"

\* The slot that is filled in and has no frame yet.
Unframed(s) == creating /\ Len(job[maker].todo) = 1 /\ s = job[maker].slot

\* A context without a slot: what a tick resumes in an unframed slot.
Ghost(x) == x = Nowhere \/ (x.pid \in Pid /\ x.pid < nextPid /\ \A s \in Slot : tasks[s].pid # x.pid)

\* Pids are given out once, and the idle task stays where scheduler_init put it.
PidInv ==
    /\ tasks[0].pid = IdlePid /\ tasks[0].state \in {"Ready", "Running"} /\ ~tasks[0].isUser
    /\ \A s \in Slot : /\ tasks[s].state = "Unused" => tasks[s].pid = 0 /\ ~tasks[s].isUser
                       /\ tasks[s].state # "Unused" => tasks[s].pid \in 1..(nextPid - 1)
                       /\ ~tasks[s].isUser => tasks[s].space = KernelSpace
    /\ \A r, s \in Slot : tasks[r].pid = tasks[s].pid /\ tasks[r].pid # 0 => r = s

\* A call that works on another slot is kernel_main's or the supervisor's, which
\* is a task that may be interrupted but not end; so there is one such call.
CallInv ==
    /\ \A p, q \in busy : p = q
    /\ \A p \in busy : /\ current = -1 => p = BootPid
                       /\ current # -1 => /\ p \in Supervisors
                                          /\ \E r \in Slot : /\ tasks[r].pid = p
                                                             /\ tasks[r].state \in {"Ready", "Running"}
                       /\ job[p].call = "unblock" => tasks[job[p].slot].state = "Blocked"
    /\ \A p \in Pid : p >= nextPid => job[p].call = "none"
    /\ \A s \in Slot : tasks[s].isUser => job[tasks[s].pid].call = "none"

\* The processor runs the current task, or kernel_main before the first tick, or
\* a ghost in the one slot that has no frame.
CurrentInv ==
    /\ \A s \in Slot : tasks[s].state = "Running" => s = current
    /\ current = -1 => cpu = Kernel(BootPid) /\ job[BootPid].call \in {"none", "create"}
    /\ current # -1 => /\ cr3 = tasks[current].space
                       /\ tasks[current].state \in {"Running", "Blocked", "Dead"}
                       /\ cpu # Nowhere /\ job[me].call # "yield" => tasks[current].state = "Running"
                       /\ IF Unframed(current) THEN Ghost(cpu) ELSE cpu = own(current)

\* What a slot that is not current resumes: nothing if it was never used, the
\* task's own context, of which a reclaimed slot keeps the pid, or a ghost.
ContextInv ==
    \A s \in Slot : s # current =>
        /\ tasks[s].state = "Unused" => tasks[s].savedEsp = Nowhere
        /\ tasks[s].state = "Dead" /\ ~Unframed(s) => tasks[s].savedEsp.pid = tasks[s].pid
        /\ tasks[s].state \in Live /\ ~Unframed(s) => tasks[s].savedEsp = own(s)
        /\ Unframed(s) => Ghost(tasks[s].savedEsp)

ExitInv ==
    \A p \in exited : p < nextPid /\ \A s \in Slot : tasks[s].pid = p => tasks[s].state = "Dead"

\* What is left of a creation: gather pages, with one directory before the first
\* mapping, then reclaim the slot, publish it and prepare its frame.
TodoOK(todo, kind, space) ==
    /\ Len(todo) >= 1
    /\ \A i \in 1..Len(todo) : /\ todo[i] = "frame" <=> i = Len(todo)
                               /\ todo[i] = "publish" <=> i = Len(todo) - 1
                               /\ todo[i] = "reclaim" <=> i = Len(todo) - 2
                               /\ todo[i] = "space" =>
                                     /\ space = KernelSpace
                                     /\ \A k \in 1..Len(todo) : todo[k] = "space" => k = i
                               /\ todo[i] = "map" =>
                                     \/ space # KernelSpace
                                     \/ \E k \in 1..(i - 1) : todo[k] = "space"
    /\ kind = "kernel" => Len(todo) <= 3

CreateInv ==
    creating =>
        LET j == job[maker]
            t == tasks[j.slot]
            left == Len(j.todo)
        IN /\ TodoOK(j.todo, j.kind, j.space)
           /\ j.kind = "kernel" => j.pages = {} /\ j.space = KernelSpace
           /\ left >= 2 => t.state \in {"Unused", "Dead"} /\ nextPid <= MaxPid
           /\ left = 2 => t.pages = {} /\ t.space = KernelSpace /\ ~t.isUser
           /\ left = 1 => /\ t.state # "Unused" /\ j.slot # 0 /\ t.pid # maker
                          /\ t.isUser <=> j.kind # "kernel"
                          /\ j.pages = {} /\ j.space = KernelSpace

\* The pages of a slot and of the creation under way.
held(s) == tasks[s].pages \cup spacePages(tasks[s].space)
gathered == IF creating THEN job[maker].pages \cup spacePages(job[maker].space) ELSE {}

PageInv ==
    /\ \A s \in Slot : tasks[s].pages \cap spacePages(tasks[s].space) = {}
    /\ \A r, s \in Slot : r # s => held(r) \cap held(s) = {}
    /\ creating => job[maker].pages \cap spacePages(job[maker].space) = {}
    /\ \A s \in Slot : gathered \cap held(s) = {}
    /\ used = gathered \cup UNION {held(s) : s \in Slot}

SchedInv ==
    /\ TypeInv
    /\ PidInv
    /\ CallInv
    /\ CurrentInv
    /\ ContextInv
    /\ ExitInv
    /\ CreateInv
    /\ PageInv

(***************************************************************************)
(* Least elements, slots and the initial state.                            *)
(***************************************************************************)

\* A nonempty set of numbers has a least element.
LEMMA LeastIs ==
    ASSUME NEW S \in SUBSET Nat, S # {}
    PROVE  least(S) \in S
<1>1. PICK x \in S : \A y \in S : ~(<<y, x>> \in OpToRel(<, Nat))
  BY NatLessThanWellFounded, WFMin
<1>2. \A y \in S : ~(y < x)
  <2> TAKE y \in S
  <2>1. <<y, x>> \in Nat \X Nat
    OBVIOUS
  <2>2. y < x => <<y, x>> \in OpToRel(<, Nat)
    BY <2>1, Zenon DEF OpToRel
  <2> QED
    BY <1>1, <2>2
<1>3. \A y \in S : x <= y
  BY <1>2
<1> QED
  BY <1>3 DEF least

LEMMA SlotZero == 0 \in Slot /\ Slot \subseteq Nat /\ -1 \notin Slot
  BY TableAssumption DEF Slot

\* pickNext finds a task that can be resumed, as long as the idle task can.
LEMMA PickNextIs ==
    ASSUME NEW t \in [Slot -> Task], NEW from \in Slot,
           t[0].state \in {"Ready", "Running"}
    PROVE  /\ pickNext(t, from) \in Slot /\ pickNext(t, from) # -1
           /\ t[pickNext(t, from)].state \in {"Ready", "Running"}
<1> DEFINE offsets == {k \in 1..MaxTasks :
                          t[(from + k) % MaxTasks].state \in {"Ready", "Running"}}
<1>1. from \in Nat /\ from < MaxTasks /\ MaxTasks \in Nat \ {0}
  BY TableAssumption DEF Slot
<1>2. (from + (MaxTasks - from)) % MaxTasks = 0
  BY <1>1
<1>3. MaxTasks - from \in offsets
  <2>1. MaxTasks - from \in 1..MaxTasks
    BY <1>1
  <2> QED
    BY <1>2, <2>1
<1>4. least(offsets) \in offsets
  <2>1. offsets \in SUBSET Nat
    BY <1>1
  <2> QED
    BY <1>3, <2>1, LeastIs
<1>5. (from + least(offsets)) % MaxTasks \in Slot
  <2>1. least(offsets) \in 1..MaxTasks
    BY <1>4
  <2>2. \A k \in 1..MaxTasks : (from + k) % MaxTasks \in 0..(MaxTasks - 1)
    BY <1>1
  <2> QED
    BY <2>1, <2>2 DEF Slot
<1>6. pickNext(t, from) = (from + least(offsets)) % MaxTasks
  BY <1>3 DEF pickNext
<1> QED
  BY <1>4, <1>5, <1>6, SlotZero

\* A free page is a page of the allocator that nobody holds.
LEMMA AllocIs == ASSUME free # {} PROVE memory_alloc_page \in Page /\ memory_alloc_page \notin used
<1>1. free \in SUBSET Nat
  BY TableAssumption DEF free, Page
<1> QED
  BY <1>1, LeastIs DEF memory_alloc_page, free

LEMMA CallersAre == 0 \in Callers /\ Pid \subseteq Callers /\ 1 \in Pid /\ Pid \subseteq Nat \ {0}
                    /\ 0 \notin Pid
  BY SchedulerBounds, ScriptAssumption DEF Callers, Pid, BootPid, IdlePid

LEMMA InitInv == Init => SchedInv
<1> SUFFICES ASSUME Init PROVE SchedInv
  OBVIOUS
<1>1. /\ Nowhere \in Context /\ Kernel(IdlePid) \in Context /\ Kernel(BootPid) \in Context
      /\ Kernel(BootPid).pid # -1
  BY CallersAre DEF Nowhere, Kernel, Context, IdlePid, BootPid
<1>2. \A s \in Slot : /\ tasks[s].pid = IF s = 0 THEN 1 ELSE 0
                      /\ tasks[s].state = IF s = 0 THEN "Ready" ELSE "Unused"
                      /\ tasks[s].savedEsp = IF s = 0 THEN Kernel(IdlePid) ELSE Nowhere
                      /\ tasks[s].isUser = FALSE /\ tasks[s].pages = {} /\ tasks[s].space = 0
  BY DEF Init, EmptySlot, IdlePid, KernelSpace
<1>3. TypeInv
  <2>1. tasks \in [Slot -> Task]
    <3>1. EmptySlot \in Task
      BY <1>1, SchedulerBounds DEF EmptySlot, Task, States, Space
    <3>2. [EmptySlot EXCEPT !.pid = IdlePid, !.state = "Ready", !.savedEsp = Kernel(IdlePid)] \in Task
      <4>1. IdlePid \in 0..MaxPid
        BY CallersAre, SchedulerBounds DEF Pid, IdlePid
      <4> QED
        BY <1>1, <3>1, <4>1 DEF Task, States
    <3> QED
      BY <3>1, <3>2 DEF Init
  <2>2. nextPid \in (IdlePid + 1)..(MaxPid + 1)
    BY SchedulerBounds, ScriptAssumption DEF Init, IdlePid
  <2>3. NoCall \in Job
    BY DEF Job
  <2> QED
    BY <1>1, <2>1, <2>2, <2>3, ScriptAssumption DEF Init, TypeInv, Callers
<1>4. /\ \A p \in Callers : job[p].call = "none"
      /\ busy = {} /\ ~creating
  <2>1. \A p \in Callers : job[p].call = "none"
    BY DEF Init, NoCall, Callers
  <2> QED
    BY <2>1 DEF busy, creating
<1>5. PidInv
  <2>1. nextPid = 2
    BY DEF Init, IdlePid
  <2>2. tasks[0].pid = IdlePid /\ tasks[0].state \in {"Ready", "Running"} /\ ~tasks[0].isUser
    BY <1>2, SlotZero DEF IdlePid
  <2>3. \A s \in Slot : /\ tasks[s].state = "Unused" => tasks[s].pid = 0 /\ ~tasks[s].isUser
                        /\ tasks[s].state # "Unused" => tasks[s].pid \in 1..(nextPid - 1)
                        /\ ~tasks[s].isUser => tasks[s].space = KernelSpace
    BY <1>2, <2>1 DEF KernelSpace
  <2>4. \A r, s \in Slot : tasks[r].pid = tasks[s].pid /\ tasks[r].pid # 0 => r = s
    BY <1>2
  <2> QED
    BY <2>2, <2>3, <2>4 DEF PidInv
<1>6. CallInv
  BY <1>2, <1>4, CallersAre DEF CallInv
<1>7. CurrentInv
  BY <1>2, <1>4, CallersAre DEF Init, CurrentInv, BootPid
<1>8. ContextInv /\ ExitInv /\ CreateInv
  BY <1>2, <1>4 DEF Init, ContextInv, own, Live, ExitInv, CreateInv, Unframed, Kernel, IdlePid
<1>9. PageInv
  BY <1>2, <1>4 DEF Init, PageInv, held, gathered, spacePages, KernelSpace
<1> QED
  BY <1>3, <1>5, <1>6, <1>7, <1>8, <1>9 DEF SchedInv

(***************************************************************************)
(* Who runs, and who is in the middle of a call.                           *)
(***************************************************************************)

\* The pid of a slot in use has been given out.
LEMMA SlotPid ==
    ASSUME SchedInv, NEW s \in Slot, tasks[s].state # "Unused"
    PROVE  /\ tasks[s].pid \in Pid /\ tasks[s].pid \in Nat /\ tasks[s].pid < nextPid
           /\ own(s) \in Context /\ own(s).pid = tasks[s].pid /\ own(s).pid # -1
<1>1. tasks[s].pid \in 1..(nextPid - 1) /\ nextPid \in 2..(MaxPid + 1)
  BY DEF SchedInv, PidInv, TypeInv, IdlePid
<1>2. tasks[s].pid \in Pid /\ tasks[s].pid \in Nat /\ tasks[s].pid < nextPid
  BY <1>1, SchedulerBounds DEF Pid, IdlePid
<1> QED
  BY <1>2, CallersAre DEF own, Kernel, User, Context

\* The context that runs is the current task's, kernel_main's or a ghost's.
LEMMA MeIs ==
    ASSUME SchedInv, cpu # Nowhere
    PROVE  /\ me \in Callers /\ job[me] \in Job
           /\ current = -1 => me = BootPid
           /\ current # -1 => /\ me \in Pid /\ current \in Slot /\ me < nextPid
                              /\ IF Unframed(current) THEN \A s \in Slot : tasks[s].pid # me
                                                      ELSE me = tasks[current].pid
<1>1. cpu \in Context /\ (cpu.pid = -1 => cpu = Nowhere) /\ job \in [Callers -> Job]
  BY DEF SchedInv, TypeInv
<1>2. me \in Callers
  BY <1>1 DEF me, Context
<1>3. current = -1 => me = BootPid
  BY DEF SchedInv, CurrentInv, me, Kernel
<1>4. ASSUME current # -1, Unframed(current)
      PROVE  me \in Pid /\ me < nextPid /\ \A s \in Slot : tasks[s].pid # me
  BY <1>4 DEF SchedInv, CurrentInv, Ghost, me
<1>5. ASSUME current # -1, ~Unframed(current)
      PROVE  me \in Pid /\ me < nextPid /\ me = tasks[current].pid
  <2>1. current \in Slot /\ cpu = own(current) /\ tasks[current].state # "Unused"
    BY <1>5 DEF SchedInv, TypeInv, CurrentInv
  <2> QED
    BY <2>1, SlotPid DEF me
<1>6. current # -1 => current \in Slot
  BY DEF SchedInv, TypeInv
<1> QED
  BY <1>1, <1>2, <1>3, <1>4, <1>5, <1>6

\* There is one call under way that works on another slot, if any.
LEMMA MakerIs ==
    ASSUME SchedInv
    PROVE  /\ \A p \in busy : maker = p
           /\ creating => maker \in busy
           /\ \A s : Unframed(s) => busy # {} /\ \A p \in busy : job[p].call = "create"
<1>1. busy # {} => maker \in busy
  BY DEF maker
<1>2. \A p \in busy : maker = p
  BY <1>1 DEF SchedInv, CallInv
<1> QED
  BY <1>1, <1>2 DEF creating, Unframed

\* A context in the middle of a call on another slot, or with nobody else in one,
\* goes from one point of its call to another.
LEMMA OwnCall ==
    ASSUME SchedInv, cpu # Nowhere, me \in busy \/ busy = {},
           NEW j \in Job, job' = [job EXCEPT ![me] = j], cpu' = cpu
    PROVE  /\ job' \in [Callers -> Job] /\ me' = me /\ job'[me] = j
           /\ \A p \in Callers : p # me => job'[p] = job[p]
           /\ busy' = IF j.call \in {"create", "unblock"} THEN {me} ELSE {}
           /\ j.call = "create" => creating' /\ maker' = me
           /\ j.call # "create" => ~creating'
<1>1. job \in [Callers -> Job] /\ me \in Callers
  BY MeIs DEF SchedInv, TypeInv
<1>2. /\ job' \in [Callers -> Job] /\ me' = me /\ job'[me] = j
      /\ \A p \in Callers : p # me => job'[p] = job[p]
  BY <1>1 DEF me
<1>3. \A p \in Callers : p # me => p \notin busy
  BY DEF SchedInv, CallInv
<1>4. \A p \in Callers : p \in busy' <=> job'[p].call \in {"create", "unblock"}
  BY DEF busy
<1>5. busy' = IF j.call \in {"create", "unblock"} THEN {me} ELSE {}
  <2>1. \A p \in Callers : p \in busy' <=> p = me /\ j.call \in {"create", "unblock"}
    BY <1>1, <1>2, <1>3, <1>4 DEF busy
  <2>2. busy' \subseteq Callers
    BY DEF busy
  <2> QED
    BY <1>1, <2>1, <2>2
<1>6. busy' # {} => maker' = me
  <2>1. busy' # {} => maker' \in busy'
    BY DEF maker
  <2> QED
    BY <1>5, <2>1
<1>7. creating' <=> busy' # {} /\ job'[maker'].call = "create"
  BY DEF creating
<1> QED
  BY <1>2, <1>5, <1>6, <1>7

\* A step beside the calls under way: the slots keep what they are filled with,
\* the maker stays alive and the target of its call stays as it is.
LEMMA Elsewhere ==
    ASSUME SchedInv, cpu # Nowhere,
           tasks' \in [Slot -> Task], job' \in [Callers -> Job],
           \A p \in Callers : p # me => job'[p] = job[p],
           \/ job' = job
           \/ /\ me \notin busy /\ job'[me].call \notin {"create", "unblock"}
              /\ \A s \in Slot : tasks[s].isUser => tasks[s].pid # me,
           UNCHANGED <<nextPid, memory>>,
           \A s \in Slot : /\ tasks'[s].pid = tasks[s].pid /\ tasks'[s].isUser = tasks[s].isUser
                           /\ tasks'[s].pages = tasks[s].pages /\ tasks'[s].space = tasks[s].space
                           /\ (tasks'[s].state = "Unused") <=> (tasks[s].state = "Unused")
                           /\ tasks[s].state = "Dead" => tasks'[s].state = "Dead",
           \A s \in Slot : tasks[s].state \in {"Ready", "Running"} /\ (s = 0 \/ tasks[s].pid \in busy)
                              => tasks'[s].state \in {"Ready", "Running"},
           \A p \in busy : job[p].call = "unblock" => tasks'[job[p].slot].state = "Blocked",
           current' = current \/ (current' # -1 /\ (current = -1 => busy = {}))
    PROVE  /\ PidInv' /\ CallInv' /\ CreateInv' /\ PageInv'
           /\ \A s : Unframed(s)' <=> Unframed(s)
           /\ \A s \in Slot : own(s)' = own(s)
           /\ \A x : Ghost(x)' <=> Ghost(x)
<1>1. me \in Callers /\ (me \in Pid => me < nextPid)
  BY MeIs, CallersAre DEF BootPid
<1>2. busy' = busy /\ \A p \in busy : job'[p] = job[p]
  <2>1. CASE job' = job
    BY <2>1 DEF busy
  <2>2. CASE me \notin busy /\ job'[me].call \notin {"create", "unblock"}
    <3>1. \A p \in Callers : p \in busy' <=> p \in busy
      BY <1>1, <2>2 DEF busy
    <3>2. busy \subseteq Callers /\ busy' \subseteq Callers
      BY DEF busy
    <3> QED
      BY <2>2, <3>1, <3>2
  <2> QED
    BY <2>1, <2>2
<1>3. maker' = maker /\ (busy # {} => maker \in busy)
  BY <1>2 DEF maker
<1>4. (creating' <=> creating) /\ (creating => job'[maker'] = job[maker])
  BY <1>2, <1>3 DEF creating
<1>5. \A s : Unframed(s)' <=> Unframed(s)
  BY <1>3, <1>4 DEF Unframed
<1>6. \A s \in Slot : own(s)' = own(s)
  BY DEF own
<1>7. \A x : Ghost(x)' <=> Ghost(x)
  BY DEF Ghost
<1>8. PidInv'
  <2>1. tasks'[0].pid = IdlePid /\ tasks'[0].state \in {"Ready", "Running"} /\ ~tasks'[0].isUser
    BY SlotZero DEF SchedInv, PidInv
  <2> QED
    BY <2>1 DEF SchedInv, PidInv
<1>9. CallInv'
  <2>1. \A p, q \in busy' : p = q
    BY <1>2 DEF SchedInv, CallInv
  <2>2. ASSUME NEW p \in busy'
        PROVE  /\ current' = -1 => p = BootPid
               /\ current' # -1 => /\ p \in Supervisors
                                   /\ \E r \in Slot : /\ tasks'[r].pid = p
                                                      /\ tasks'[r].state \in {"Ready", "Running"}
               /\ job'[p].call = "unblock" => tasks'[job'[p].slot].state = "Blocked"
    <3>1. p \in busy /\ job'[p] = job[p]
      BY <1>2, <2>2
    <3>2. ASSUME current' # -1
          PROVE  /\ p \in Supervisors
                 /\ \E r \in Slot : tasks'[r].pid = p /\ tasks'[r].state \in {"Ready", "Running"}
      <4>1. current # -1
        BY <3>1, <3>2
      <4>2. p \in Supervisors /\ \E r \in Slot : /\ tasks[r].pid = p
                                                 /\ tasks[r].state \in {"Ready", "Running"}
        BY <3>1, <4>1 DEF SchedInv, CallInv
      <4> QED
        BY <3>1, <4>2
    <3>3. current' = -1 => p = BootPid
      BY <3>1 DEF SchedInv, CallInv
    <3> QED
      BY <3>1, <3>2, <3>3
  <2>3. ASSUME NEW p \in Pid, p >= nextPid' PROVE job'[p].call = "none"
    <3>1. p \in Callers /\ p # me /\ nextPid' = nextPid /\ p \in Nat /\ nextPid \in Nat
      BY <1>1, <2>3, CallersAre, SchedulerBounds DEF SchedInv, TypeInv, IdlePid
    <3> QED
      BY <2>3, <3>1 DEF SchedInv, CallInv
  <2>4. ASSUME NEW s \in Slot, tasks'[s].isUser PROVE job'[tasks'[s].pid].call = "none"
    <3>1. tasks[s].isUser /\ tasks'[s].pid = tasks[s].pid /\ tasks[s].state # "Unused"
      BY <2>4 DEF SchedInv, PidInv
    <3>2. job[tasks[s].pid].call = "none" /\ tasks[s].pid \in Callers
      BY <3>1, SlotPid, CallersAre DEF SchedInv, CallInv
    <3> QED
      BY <3>1, <3>2
  <2> QED
    BY <2>1, <2>2, <2>3, <2>4 DEF CallInv
<1>10. CreateInv'
  <2> SUFFICES ASSUME creating PROVE CreateInv'
    BY <1>4 DEF CreateInv
  <2>1. job'[maker'] = job[maker] /\ maker' = maker /\ nextPid' = nextPid
    BY <1>3, <1>4
  <2>2. job[maker] \in CreateJob
    BY <1>3 DEF creating, busy, Callers, SchedInv, TypeInv, Job, NoCall
  <2>3. job[maker].slot \in Slot
    BY <2>2 DEF CreateJob
  <2> DEFINE w == job[maker].slot
  <2>4. /\ tasks[w].state \in {"Unused", "Dead"} => tasks'[w].state \in {"Unused", "Dead"}
        /\ tasks[w].state # "Unused" => tasks'[w].state # "Unused"
        /\ tasks'[w].pid = tasks[w].pid /\ tasks'[w].isUser = tasks[w].isUser
        /\ tasks'[w].pages = tasks[w].pages /\ tasks'[w].space = tasks[w].space
    BY <2>3
  <2> QED
    BY <2>1, <2>4 DEF SchedInv, CreateInv
<1>11. PageInv'
  <2>1. \A d : spacePages(d)' = spacePages(d)
    BY DEF spacePages, memory
  <2>2. \A s \in Slot : /\ spacePages(tasks[s].space)' = spacePages(tasks[s].space)
                        /\ held(s)' = held(s) /\ tasks'[s].pages = tasks[s].pages
    BY <2>1 DEF held, spacePages, memory
  <2>3. gathered' = gathered /\ used' = used
    BY <1>3, <1>4 DEF gathered, spacePages, memory
  <2>4. UNION {held(s)' : s \in Slot} = UNION {held(s) : s \in Slot}
    BY <2>2
  <2>5. creating' => (job[maker].pages \cap spacePages(job[maker].space))' = {}
    BY <1>3, <1>4 DEF SchedInv, PageInv, spacePages, memory
  <2> QED
    BY <2>2, <2>3, <2>4, <2>5 DEF SchedInv, PageInv
<1> QED
  BY <1>5, <1>6, <1>7, <1>8, <1>9, <1>10, <1>11

(***************************************************************************)
(* A tick.                                                                 *)
(***************************************************************************)

\* scheduler_on_timer_tick resumes a task that can be resumed, in its own directory
\* and with the context its slot holds, and puts away the context it interrupted.
LEMMA Tick ==
    ASSUME SchedInv, cpu # Nowhere, NEW t,
           t = tasks \/ (current # -1 /\ t = [tasks EXCEPT ![current].state = "Dead"]),
           t[0].state \in {"Ready", "Running"},
           scheduler_on_timer_tick(t)
    PROVE  \E n \in Slot :
              /\ current' = n
              /\ t[n].state \in {"Ready", "Running"}
              /\ tasks' \in [Slot -> Task]
              /\ \A s \in Slot : /\ tasks'[s].pid = tasks[s].pid
                                 /\ tasks'[s].isUser = tasks[s].isUser
                                 /\ tasks'[s].pages = tasks[s].pages
                                 /\ tasks'[s].space = tasks[s].space
                                 /\ tasks'[s].savedEsp = IF s = current THEN cpu
                                                         ELSE tasks[s].savedEsp
                                 /\ tasks'[s].state =
                                       IF s = n THEN "Running"
                                       ELSE IF t[s].state = "Running" THEN "Ready"
                                       ELSE t[s].state
              /\ cpu' = IF n = current THEN cpu ELSE tasks[n].savedEsp
              /\ cr3' = tasks[n].space
<1> DEFINE saved == [t EXCEPT ![current].savedEsp = cpu]
           next == pickNext(saved, current)
<1>1. t \in [Slot -> Task] /\ cpu \in Context
  <2>1. tasks \in [Slot -> Task] /\ cpu \in Context
    BY DEF SchedInv, TypeInv
  <2> QED
    BY <2>1 DEF Task, States
<1>2. \A s \in Slot : /\ t[s].pid = tasks[s].pid /\ t[s].isUser = tasks[s].isUser
                      /\ t[s].pages = tasks[s].pages /\ t[s].space = tasks[s].space
                      /\ t[s].savedEsp = tasks[s].savedEsp
                      /\ s # current => t[s].state = tasks[s].state
                      /\ t[s].state \in {tasks[s].state, "Dead"}
  <2>1. tasks \in [Slot -> Task]
    BY DEF SchedInv, TypeInv
  <2>2. CASE t = tasks
    BY <2>2
  <2>3. CASE current # -1 /\ t = [tasks EXCEPT ![current].state = "Dead"]
    BY <2>1, <2>3 DEF Task
  <2> QED
    BY <2>2, <2>3
<1>3. \A s \in Slot : t[s].state = "Running" => s = current
  BY <1>2 DEF SchedInv, CurrentInv
<1>4. CASE current = -1
  <2>1. switchTo(t, 0) /\ t = tasks
    BY <1>4 DEF scheduler_on_timer_tick
  <2>2. /\ tasks' = [s \in Slot |->
              IF s = 0 THEN [t[s] EXCEPT !.state = "Running"]
              ELSE IF s = current /\ t[s].state = "Running" THEN [t[s] EXCEPT !.state = "Ready"]
              ELSE t[s]]
        /\ current' = 0 /\ cpu' = t[0].savedEsp /\ cr3' = t[0].space
    BY <2>1 DEF switchTo
  <2>3. tasks' \in [Slot -> Task]
    BY <1>1, <2>2 DEF Task, States
  <2>4. \A s \in Slot : s # current /\ t[s].state # "Running"
    BY <1>3, <1>4, SlotZero
  <2>5. \A s \in Slot : tasks'[s] = IF s = 0 THEN [t[s] EXCEPT !.state = "Running"] ELSE t[s]
    BY <2>2, <2>4
  <2>6. \A s \in Slot : /\ tasks'[s].pid = tasks[s].pid
                        /\ tasks'[s].isUser = tasks[s].isUser
                        /\ tasks'[s].pages = tasks[s].pages
                        /\ tasks'[s].space = tasks[s].space
                        /\ tasks'[s].savedEsp = tasks[s].savedEsp
                        /\ tasks'[s].state = IF s = 0 THEN "Running" ELSE t[s].state
    <3>1. \A s \in Slot : /\ tasks'[s].pid = t[s].pid /\ tasks'[s].isUser = t[s].isUser
                          /\ tasks'[s].pages = t[s].pages /\ tasks'[s].space = t[s].space
                          /\ tasks'[s].savedEsp = t[s].savedEsp
                          /\ tasks'[s].state = IF s = 0 THEN "Running" ELSE t[s].state
      <4> SUFFICES ASSUME NEW s \in Slot
                   PROVE  /\ tasks'[s].pid = t[s].pid /\ tasks'[s].isUser = t[s].isUser
                          /\ tasks'[s].pages = t[s].pages /\ tasks'[s].space = t[s].space
                          /\ tasks'[s].savedEsp = t[s].savedEsp
                          /\ tasks'[s].state = IF s = 0 THEN "Running" ELSE t[s].state
        OBVIOUS
      <4>1. t[s] \in Task
        BY <1>1
      <4> QED
        BY <2>5, <4>1 DEF Task
    <3> QED
      BY <1>2, <3>1
  <2>7. cpu' = tasks[0].savedEsp /\ cr3' = tasks[0].space /\ current # 0
    BY <1>2, <2>2, <2>4, SlotZero
  <2> QED
    BY <2>2, <2>3, <2>4, <2>6, <2>7, SlotZero
<1>5. CASE current # -1
  <2>1. current \in Slot /\ cr3 = tasks[current].space
    BY <1>5 DEF SchedInv, TypeInv, CurrentInv
  <2>2. saved \in [Slot -> Task]
    BY <1>1, <2>1 DEF Task
  <2>3. \A s \in Slot : /\ saved[s].pid = tasks[s].pid /\ saved[s].isUser = tasks[s].isUser
                        /\ saved[s].pages = tasks[s].pages /\ saved[s].space = tasks[s].space
                        /\ saved[s].state = t[s].state
                        /\ saved[s].savedEsp = IF s = current THEN cpu ELSE tasks[s].savedEsp
    BY <1>1, <1>2, <2>1 DEF Task
  <2>4. next \in Slot /\ saved[next].state \in {"Ready", "Running"} /\ next # -1
    BY <2>1, <2>2, <2>3, PickNextIs, SlotZero
  <2> HIDE DEF next, saved
  <2>5. CASE next = current
    <3>1. tasks' = saved /\ current' = current /\ cpu' = cpu /\ cr3' = cr3
      BY <1>5, <2>4, <2>5 DEF scheduler_on_timer_tick, saved, next
    \* Whoever is current and can be resumed is Running.
    <3>2. t[current].state = "Running"
      <4>1. tasks[current].state \in {"Running", "Dead", "Blocked"}
        BY <1>5 DEF SchedInv, CurrentInv
      <4>2. t[current].state \in {"Ready", "Running"}
        BY <2>1, <2>3, <2>4, <2>5
      <4> QED
        BY <1>2, <2>1, <4>1, <4>2
    <3> QED
      BY <1>3, <2>1, <2>2, <2>3, <3>1, <3>2
  <2>6. CASE next # current
    <3>1. switchTo(saved, next)
      BY <1>5, <2>4, <2>6 DEF scheduler_on_timer_tick, saved, next
    <3>2. /\ tasks' = [s \in Slot |->
                IF s = next THEN [saved[s] EXCEPT !.state = "Running"]
                ELSE IF s = current /\ saved[s].state = "Running"
                     THEN [saved[s] EXCEPT !.state = "Ready"]
                ELSE saved[s]]
          /\ current' = next /\ cpu' = saved[next].savedEsp /\ cr3' = saved[next].space
      BY <3>1 DEF switchTo
    <3>3. tasks' \in [Slot -> Task]
      BY <2>2, <3>2 DEF Task, States
    <3>4. \A s \in Slot : /\ tasks'[s].pid = saved[s].pid
                          /\ tasks'[s].isUser = saved[s].isUser
                          /\ tasks'[s].pages = saved[s].pages
                          /\ tasks'[s].space = saved[s].space
                          /\ tasks'[s].savedEsp = saved[s].savedEsp
                          /\ tasks'[s].state =
                                IF s = next THEN "Running"
                                ELSE IF s = current /\ saved[s].state = "Running" THEN "Ready"
                                ELSE saved[s].state
      BY <2>2, <3>2 DEF Task
    <3>5. cpu' = tasks[next].savedEsp
      BY <2>3, <2>4, <2>6, <3>2
    <3>6. t[next].state \in {"Ready", "Running"} /\ cr3' = tasks[next].space
      BY <2>3, <2>4, <3>2
    <3>7. \A s \in Slot : tasks'[s].state = IF s = next THEN "Running"
                                            ELSE IF t[s].state = "Running" THEN "Ready"
                                            ELSE t[s].state
      BY <1>3, <2>3, <3>4
    <3> QED
      BY <2>3, <2>4, <2>6, <3>2, <3>3, <3>4, <3>5, <3>6, <3>7
  <2> QED
    BY <2>5, <2>6
<1> QED
  BY <1>4, <1>5

\* A tick keeps the invariant, whatever call it falls into and whatever becomes of
\* the interrupted task, as long as that is not the one whose call is under way; and
\* a context that has ended is resumed only in the slot that has no frame yet.
LEMMA TickInv ==
    ASSUME SchedInv, cpu # Nowhere, NEW t,
           \/ t = tasks
           \/ /\ current # -1 /\ t = [tasks EXCEPT ![current].state = "Dead"]
              /\ current # 0 /\ tasks[current].pid \notin busy
              /\ \A p \in busy : job[p].call = "unblock" => job[p].slot # current,
           scheduler_on_timer_tick(t),
           current = -1 => busy = {},
           job' \in [Callers -> Job],
           \A p \in Callers : p # me => job'[p] = job[p],
           \/ job' = job
           \/ /\ me \notin busy /\ job'[me].call \notin {"create", "unblock"}
              /\ \A s \in Slot : tasks[s].isUser => tasks[s].pid # me,
           exited' = exited \/ (exited' = exited \cup {me} /\ current # -1 /\ t[current].state = "Dead"),
           UNCHANGED <<nextPid, memory, script>>
    PROVE  SchedInv' /\ (cpu' # cpu /\ cpu'.pid \in exited' => Unframed(current)')
<1>0. tasks \in [Slot -> Task] /\ current \in {-1} \cup Slot
  BY DEF SchedInv, TypeInv
<1>1. \A s \in Slot : /\ s # current => t[s].state = tasks[s].state
                      /\ t[s].state \in {tasks[s].state, "Dead"}
                      /\ tasks[s].state = "Unused" => t[s].state = "Unused"
                      /\ t[s].state = tasks[s].state
                            \/ (s # 0 /\ tasks[s].pid \notin busy
                                /\ \A p \in busy : job[p].call = "unblock" => job[p].slot # s)
  <2>1. CASE t = tasks
    BY <2>1
  <2>2. CASE t # tasks
    <3>1. tasks[current].state # "Unused" /\ current \in Slot
      BY <1>0, <2>2 DEF SchedInv, CurrentInv
    <3> QED
      BY <1>0, <2>2, <3>1 DEF Task
  <2> QED
    BY <2>1, <2>2
<1>2. t[0].state \in {"Ready", "Running"}
  BY <1>1, SlotZero DEF SchedInv, PidInv
<1>3. PICK n \in Slot :
              /\ current' = n
              /\ t[n].state \in {"Ready", "Running"}
              /\ tasks' \in [Slot -> Task]
              /\ \A s \in Slot : /\ tasks'[s].pid = tasks[s].pid
                                 /\ tasks'[s].isUser = tasks[s].isUser
                                 /\ tasks'[s].pages = tasks[s].pages
                                 /\ tasks'[s].space = tasks[s].space
                                 /\ tasks'[s].savedEsp = IF s = current THEN cpu
                                                         ELSE tasks[s].savedEsp
                                 /\ tasks'[s].state =
                                       IF s = n THEN "Running"
                                       ELSE IF t[s].state = "Running" THEN "Ready"
                                       ELSE t[s].state
              /\ cpu' = IF n = current THEN cpu ELSE tasks[n].savedEsp
              /\ cr3' = tasks[n].space
  BY <1>2, Tick
<1>4. \A s \in Slot : /\ (tasks'[s].state = "Unused") <=> (tasks[s].state = "Unused")
                      /\ tasks[s].state = "Dead" => tasks'[s].state = "Dead"
                      /\ tasks[s].state \in {"Ready", "Running"} /\ (s = 0 \/ tasks[s].pid \in busy)
                              => tasks'[s].state \in {"Ready", "Running"}
  BY <1>1, <1>3
<1>5. \A p \in busy : job[p].call = "unblock" => tasks'[job[p].slot].state = "Blocked"
  <2> SUFFICES ASSUME NEW p \in busy, job[p].call = "unblock"
               PROVE  tasks'[job[p].slot].state = "Blocked"
    OBVIOUS
  <2>1. job[p].slot \in Slot
    BY DEF busy, SchedInv, TypeInv, Job, NoCall, CreateJob
  <2>2. tasks[job[p].slot].state = "Blocked"
    BY DEF SchedInv, CallInv
  <2>3. t[job[p].slot].state = "Blocked"
    BY <1>1, <2>1, <2>2
  <2> QED
    BY <1>3, <2>1, <2>3
<1>6. current' # -1
  BY <1>3, SlotZero
<1>7. /\ PidInv' /\ CallInv' /\ CreateInv' /\ PageInv'
      /\ \A s : Unframed(s)' <=> Unframed(s)
      /\ \A s \in Slot : own(s)' = own(s)
      /\ \A x : Ghost(x)' <=> Ghost(x)
  BY <1>3, <1>4, <1>5, <1>6, Elsewhere
<1>8. IF Unframed(n) THEN Ghost(cpu') ELSE cpu' = own(n)
  <2>1. CASE n = current
    BY <1>3, <1>6, <2>1 DEF SchedInv, CurrentInv
  <2>2. CASE n # current
    <3>1. tasks[n].state \in Live
      BY <1>1, <1>3, <2>2 DEF Live
    <3> QED
      BY <1>3, <2>2, <3>1 DEF SchedInv, ContextInv
  <2> QED
    BY <2>1, <2>2
<1>9. TypeInv'
  <2>1. cpu' \in Context
    BY <1>0, <1>3 DEF SchedInv, TypeInv, Task
  <2>2. cpu'.pid = -1 => cpu' = Nowhere
    <3>1. CASE Unframed(n)
      <4>1. -1 \notin Pid
        BY CallersAre
      <4> QED
        BY <1>8, <3>1, <4>1 DEF Ghost
    <3>2. CASE ~Unframed(n)
      <4>1. tasks[n].state # "Unused"
        BY <1>3, <1>4
      <4> QED
        BY <1>8, <3>2, <4>1, SlotPid
    <3> QED
      BY <3>1, <3>2
  <2>3. exited' \in SUBSET Pid
    BY MeIs DEF SchedInv, TypeInv
  <2> QED
    BY <1>3, <2>1, <2>2, <2>3 DEF SchedInv, TypeInv, memory
<1>10. CurrentInv'
  <2>1. ASSUME NEW s \in Slot, tasks'[s].state = "Running" PROVE s = current'
    BY <1>3, <2>1
  <2>2. cr3' = tasks'[current'].space /\ tasks'[current'].state = "Running"
    BY <1>3
  <2>3. IF Unframed(current)' THEN Ghost(cpu)' ELSE cpu' = own(current)'
    <3>1. Unframed(current)' <=> Unframed(n)
      BY <1>3, <1>7 DEF Unframed
    <3>2. own(current)' = own(n)
      BY <1>3 DEF own
    <3>3. Ghost(cpu)' <=> Ghost(cpu')
      BY <1>3 DEF Ghost
    <3> QED
      BY <1>8, <3>1, <3>2, <3>3
  <2> QED
    BY <1>6, <2>1, <2>2, <2>3 DEF CurrentInv
<1>11. ContextInv'
  <2> SUFFICES ASSUME NEW s \in Slot, s # current'
               PROVE  /\ tasks'[s].state = "Unused" => tasks'[s].savedEsp = Nowhere
                      /\ tasks'[s].state = "Dead" /\ ~Unframed(s) => tasks'[s].savedEsp.pid = tasks'[s].pid
                      /\ tasks'[s].state \in Live /\ ~Unframed(s) => tasks'[s].savedEsp = own(s)
                      /\ Unframed(s) => Ghost(tasks'[s].savedEsp)
    <3>1. \A s \in Slot : /\ Unframed(s)' <=> Unframed(s)
                          /\ Ghost(tasks[s].savedEsp)' <=> Ghost(tasks'[s].savedEsp)
                          /\ own(s)' = own(s)
      BY <1>3, <1>7 DEF Ghost
    <3> QED
      BY <3>1 DEF ContextInv
  <2>1. CASE s = current
    <3>1. IF Unframed(s) THEN Ghost(cpu) ELSE cpu = own(s)
      BY <2>1, SlotZero DEF SchedInv, CurrentInv
    <3>2. tasks[s].state # "Unused"
      BY <2>1, SlotZero DEF SchedInv, CurrentInv
    <3> QED
      BY <1>3, <1>4, <2>1, <3>1, <3>2, SlotPid
  <2>2. CASE s # current
    <3>1. tasks'[s].savedEsp = tasks[s].savedEsp /\ tasks'[s].pid = tasks[s].pid
          /\ tasks'[s].state = tasks[s].state
      BY <1>1, <1>3, <2>2 DEF SchedInv, CurrentInv
    <3> QED
      BY <2>2, <3>1 DEF SchedInv, ContextInv
  <2> QED
    BY <2>1, <2>2
<1>12. ExitInv'
  <2> SUFFICES ASSUME NEW p \in exited'
               PROVE  /\ p < nextPid
                      /\ \A s \in Slot : tasks'[s].pid = p => tasks'[s].state = "Dead"
    BY DEF ExitInv
  <2>1. CASE p \in exited
    <3>1. p < nextPid /\ \A s \in Slot : tasks[s].pid = p => tasks[s].state = "Dead"
      BY <2>1 DEF SchedInv, ExitInv
    <3> QED
      BY <1>3, <1>4, <3>1
  <2>2. CASE p = me /\ current # -1 /\ t[current].state = "Dead"
    <3>1. me < nextPid /\ current \in Slot /\ me # 0
      BY <2>2, MeIs, CallersAre
    <3>2. \A s \in Slot : tasks[s].pid = me => s = current
      <4>1. CASE Unframed(current)
        BY <2>2, <4>1, MeIs
      <4>2. CASE ~Unframed(current)
        <5>1. me = tasks[current].pid
          BY <2>2, <4>2, MeIs
        <5> QED
          BY <3>1, <5>1 DEF SchedInv, PidInv
      <4> QED
        BY <4>1, <4>2
    <3> QED
      BY <1>3, <2>2, <3>1, <3>2
  <2> QED
    BY <2>1, <2>2
<1>13. cpu' # cpu /\ cpu'.pid \in exited' => Unframed(current)'
  <2> SUFFICES ASSUME ~Unframed(n), cpu'.pid \in exited' PROVE FALSE
    BY <1>3, <1>7 DEF Unframed
  <2>1. tasks[n].state # "Unused"
    BY <1>3, <1>4
  <2>2. tasks'[n].pid = cpu'.pid /\ tasks'[n].state = "Running"
    BY <1>3, <1>8, <2>1, SlotPid
  <2> QED
    BY <1>12, <2>2 DEF ExitInv
<1> QED
  BY <1>7, <1>9, <1>10, <1>11, <1>12, <1>13 DEF SchedInv

LEMMA TimerInv ==
    ASSUME SchedInv, timer
    PROVE  SchedInv' /\ (cpu' # cpu /\ cpu'.pid \in exited' => Unframed(current)')
<1>1. cpu # Nowhere /\ scheduler_on_timer_tick(tasks) /\ job' = job /\ exited' = exited
  BY DEF timer
<1>2. current = -1 => busy = {}
  <2> SUFFICES ASSUME current = -1, NEW p \in busy PROVE FALSE
    OBVIOUS
  <2>1. p = BootPid /\ me = BootPid
    BY <1>1, MeIs DEF SchedInv, CallInv
  <2>2. job[BootPid].call = "none"
    BY <2>1 DEF timer, inCall
  <2> QED
    BY <2>1, <2>2 DEF busy
<1>3. job' \in [Callers -> Job] /\ \A p \in Callers : p # me => job'[p] = job[p]
  BY <1>1 DEF SchedInv, TypeInv
<1>4. UNCHANGED <<nextPid, memory, script>>
  BY DEF timer
<1> QED
  BY <1>1, <1>2, <1>3, <1>4, TickInv

LEMMA TerminateInv ==
    ASSUME SchedInv, terminate
    PROVE  SchedInv' /\ (cpu' # cpu /\ cpu'.pid \in exited' => Unframed(current)')
<1> DEFINE t == [tasks EXCEPT ![current].state = "Dead"]
<1>1. cpu # Nowhere /\ current # -1 /\ current \in Slot
  BY DEF terminate, Nowhere, SchedInv, TypeInv, CurrentInv, Kernel
<1>2. /\ current # 0 /\ tasks[current].pid \notin busy
      /\ \A p \in busy : job[p].call = "unblock" => job[p].slot # current
  <2>1. CASE Unframed(current)
    <3>1. /\ creating /\ Len(job[maker].todo) = 1 /\ current = job[maker].slot
          /\ \A p \in busy : p = maker /\ job[p].call = "create"
      BY <2>1, MakerIs DEF Unframed
    <3>2. current # 0 /\ tasks[current].pid # maker
      BY <3>1 DEF SchedInv, CreateInv
    <3> QED
      BY <3>1, <3>2
  <2>2. CASE ~Unframed(current)
    <3>1. cpu = own(current) /\ tasks[current].isUser
      BY <1>1, <2>2 DEF SchedInv, CurrentInv, own, Kernel, terminate
    <3>2. me = tasks[current].pid /\ job[me].call = "none"
      BY <1>1, <2>2, <3>1, MeIs DEF SchedInv, CallInv
    <3>3. tasks[current].state = "Running"
      BY <1>1, <3>2 DEF SchedInv, CurrentInv
    <3>4. current # 0
      BY <3>1 DEF SchedInv, PidInv
    <3> QED
      BY <3>2, <3>3, <3>4 DEF busy, SchedInv, CallInv
  <2> QED
    BY <2>1, <2>2
<1>3. t[current].state = "Dead"
  BY <1>1 DEF SchedInv, TypeInv, Task
<1>4. job' = job /\ job' \in [Callers -> Job] /\ exited' = exited \cup {me}
  BY DEF terminate, SchedInv, TypeInv
<1>5. UNCHANGED <<nextPid, memory, script>> /\ scheduler_on_timer_tick(t)
  BY DEF terminate
<1>6. t = [tasks EXCEPT ![current].state = "Dead"]
  OBVIOUS
<1> HIDE DEF t
<1> QED
  BY <1>1, <1>2, <1>3, <1>4, <1>5, <1>6, TickInv

LEMMA YieldInv ==
    ASSUME SchedInv, yield
    PROVE  SchedInv' /\ (cpu' # cpu /\ cpu'.pid \in exited' => Unframed(current)')
<1>1. /\ cpu # Nowhere /\ job[me].call = "yield" /\ scheduler_on_timer_tick(tasks)
      /\ me \in Callers /\ job[me] \in Job
  BY MeIs DEF yield, inCall
<1>2. job[me].then \in {"none", "halt"}
  BY <1>1 DEF Job, NoCall, CreateJob
<1>3. /\ job' = [job EXCEPT ![me] = [call |-> job[me].then]] /\ job \in [Callers -> Job]
      /\ exited' = exited
  BY <1>1 DEF yield, returns, SchedInv, TypeInv
<1>4. [call |-> job[me].then] \in Job
  BY <1>2 DEF Job, NoCall
<1>5. /\ job' \in [Callers -> Job] /\ \A p \in Callers : p # me => job'[p] = job[p]
      /\ job'[me].call \notin {"create", "unblock"}
  BY <1>1, <1>2, <1>3, <1>4
<1>6. me \notin busy /\ \A s \in Slot : tasks[s].isUser => tasks[s].pid # me
  BY <1>1 DEF busy, SchedInv, CallInv
<1>7. current # -1
  BY <1>1, MeIs DEF SchedInv, CurrentInv
<1>8. UNCHANGED <<nextPid, memory, script>>
  BY DEF yield
<1> QED
  BY <1>1, <1>3, <1>5, <1>6, <1>7, <1>8, TickInv

\* kernelTask: a task, or a ghost, at the top of its loop.
LEMMA KernelTaskIs ==
    ASSUME SchedInv, kernelTask
    PROVE  /\ cpu # Nowhere /\ job[me].call = "none" /\ me \notin busy
           /\ current # -1 /\ current \in Slot /\ current # 0 /\ tasks[current].pid \notin busy
           /\ tasks[current].state = "Running"
           /\ \A s \in Slot : tasks[s].isUser => tasks[s].pid # me
<1>1. /\ cpu # Nowhere /\ job[me].call = "none" /\ me \notin busy
      /\ me # BootPid /\ me # IdlePid /\ cpu.ring = 0
  BY DEF kernelTask, inCall, busy
<1>2. current # -1 /\ current \in Slot
  BY <1>1, MeIs
<1>3. tasks[current].state = "Running"
  BY <1>1, <1>2 DEF SchedInv, CurrentInv
<1>4. CASE Unframed(current)
  <2>1. /\ creating /\ Len(job[maker].todo) = 1 /\ current = job[maker].slot
        /\ \A p \in busy : p = maker
    BY <1>4, MakerIs DEF Unframed
  <2>2. current # 0 /\ tasks[current].pid # maker
    BY <2>1 DEF SchedInv, CreateInv
  <2>3. \A s \in Slot : tasks[s].pid # me
    BY <1>1, <1>2, <1>4, MeIs
  <2> QED
    BY <1>1, <1>2, <1>3, <2>1, <2>2, <2>3
<1>5. CASE ~Unframed(current)
  <2>1. me = tasks[current].pid /\ cpu = own(current)
    BY <1>1, <1>2, <1>5, MeIs DEF SchedInv, CurrentInv
  <2>2. ~tasks[current].isUser
    BY <1>1, <2>1 DEF own, User
  <2>3. current # 0
    BY <1>1, <2>1 DEF SchedInv, PidInv
  <2>4. tasks[current].pid # 0
    BY <1>2, <1>3, SlotPid, CallersAre
  <2>5. \A s \in Slot : tasks[s].pid = me => s = current
    BY <1>2, <2>1, <2>4 DEF SchedInv, PidInv
  <2> QED
    BY <1>1, <1>2, <1>3, <2>1, <2>2, <2>3, <2>5
<1> QED
  BY <1>4, <1>5

\* scheduler_exit and scheduler_block_self: the current task is put to sleep for
\* good or until it is woken, and the yield is still to come.
LEMMA LeaveInv ==
    ASSUME SchedInv, kernelTask, NEW st \in {"Dead", "Blocked"},
           tasks' = [tasks EXCEPT ![current].state = st],
           job' = [job EXCEPT ![me] = [call |-> "yield",
                                       then |-> IF st = "Dead" THEN "halt" ELSE "none"]],
           exited' = IF st = "Dead" THEN exited \cup {me} ELSE exited,
           UNCHANGED <<current, nextPid, memory, cpu, cr3, script>>
    PROVE  SchedInv'
<1> DEFINE j == [call |-> "yield", then |-> IF st = "Dead" THEN "halt" ELSE "none"]
<1>1. /\ cpu # Nowhere /\ job[me].call = "none" /\ me \notin busy
      /\ current # -1 /\ current \in Slot /\ current # 0 /\ tasks[current].pid \notin busy
      /\ tasks[current].state = "Running"
      /\ \A s \in Slot : tasks[s].isUser => tasks[s].pid # me
  BY KernelTaskIs
<1>2. tasks \in [Slot -> Task] /\ job \in [Callers -> Job] /\ me \in Pid /\ me \in Callers
  BY <1>1, MeIs DEF SchedInv, TypeInv
<1>3. j \in Job /\ j.call = "yield"
  BY DEF Job
<1>4. /\ job' \in [Callers -> Job] /\ me' = me /\ job'[me] = j
      /\ \A p \in Callers : p # me => job'[p] = job[p]
  BY <1>2, <1>3 DEF me
<1> HIDE DEF j
<1>5. /\ tasks' \in [Slot -> Task]
      /\ \A s \in Slot : /\ tasks'[s].pid = tasks[s].pid /\ tasks'[s].isUser = tasks[s].isUser
                         /\ tasks'[s].pages = tasks[s].pages /\ tasks'[s].space = tasks[s].space
                         /\ tasks'[s].savedEsp = tasks[s].savedEsp
                         /\ tasks'[s].state = IF s = current THEN st ELSE tasks[s].state
  BY <1>1, <1>2 DEF Task, States
<1>6. /\ \A s \in Slot : /\ (tasks'[s].state = "Unused") <=> (tasks[s].state = "Unused")
                         /\ tasks[s].state = "Dead" => tasks'[s].state = "Dead"
                         /\ tasks[s].state \in {"Ready", "Running"} /\ (s = 0 \/ tasks[s].pid \in busy)
                              => tasks'[s].state \in {"Ready", "Running"}
  BY <1>1, <1>5
<1>7. \A p \in busy : job[p].call = "unblock" => tasks'[job[p].slot].state = "Blocked"
  <2> SUFFICES ASSUME NEW p \in busy, job[p].call = "unblock"
               PROVE  tasks'[job[p].slot].state = "Blocked"
    OBVIOUS
  <2>1. job[p].slot \in Slot
    BY DEF busy, SchedInv, TypeInv, Job, NoCall, CreateJob
  <2>2. tasks[job[p].slot].state = "Blocked"
    BY DEF SchedInv, CallInv
  <2> QED
    BY <1>1, <1>5, <2>1, <2>2
<1>8. /\ PidInv' /\ CallInv' /\ CreateInv' /\ PageInv'
      /\ \A s : Unframed(s)' <=> Unframed(s)
      /\ \A s \in Slot : own(s)' = own(s)
      /\ \A x : Ghost(x)' <=> Ghost(x)
  BY <1>1, <1>3, <1>4, <1>5, <1>6, <1>7, Elsewhere
<1>9. TypeInv'
  BY <1>2, <1>4, <1>5 DEF SchedInv, TypeInv, memory
<1>10. CurrentInv'
  <2>1. \A s \in Slot : tasks'[s].state = "Running" => s = current'
    BY <1>5 DEF SchedInv, CurrentInv
  <2>2. current' # -1 /\ cr3' = tasks'[current'].space /\ tasks'[current'].state = st
    BY <1>1, <1>5 DEF SchedInv, CurrentInv
  <2>3. job'[me'].call = "yield"
    BY <1>3, <1>4
  <2>4. IF Unframed(current)' THEN Ghost(cpu)' ELSE cpu' = own(current)'
    <3>1. Unframed(current)' <=> Unframed(current)
      BY <1>8 DEF Unframed
    <3>2. own(current)' = own(current)
      BY <1>1, <1>5 DEF own
    <3>3. Ghost(cpu)' <=> Ghost(cpu)
      BY <1>5 DEF Ghost
    <3> QED
      BY <1>1, <3>1, <3>2, <3>3 DEF SchedInv, CurrentInv
  <2> QED
    BY <2>1, <2>2, <2>3, <2>4 DEF CurrentInv
<1>11. ContextInv'
  <2>1. ASSUME NEW s \in Slot, s # current
        PROVE  /\ tasks'[s].state = "Unused" => tasks'[s].savedEsp = Nowhere
               /\ tasks'[s].state = "Dead" /\ ~Unframed(s) => tasks'[s].savedEsp.pid = tasks'[s].pid
               /\ tasks'[s].state \in Live /\ ~Unframed(s) => tasks'[s].savedEsp = own(s)
               /\ Unframed(s) => Ghost(tasks'[s].savedEsp)
    BY <1>5, <2>1 DEF SchedInv, ContextInv
  <2>2. \A s \in Slot : /\ Unframed(s)' <=> Unframed(s)
                        /\ Ghost(tasks[s].savedEsp)' <=> Ghost(tasks'[s].savedEsp)
                        /\ own(s)' = own(s)
    BY <1>5, <1>8 DEF Ghost
  <2> QED
    BY <2>1, <2>2 DEF ContextInv
<1>12. ExitInv'
  <2> SUFFICES ASSUME NEW p \in exited'
               PROVE  /\ p < nextPid'
                      /\ \A s \in Slot : tasks'[s].pid = p => tasks'[s].state = "Dead"
    BY DEF ExitInv
  <2>1. CASE p \in exited
    <3>1. p < nextPid /\ \A s \in Slot : tasks[s].pid = p => tasks[s].state = "Dead"
      BY <2>1 DEF SchedInv, ExitInv
    <3>2. \A s \in Slot : tasks[s].pid = p => s # current
      BY <1>1, <3>1
    <3> QED
      BY <1>5, <3>1, <3>2
  <2>2. CASE p = me /\ st = "Dead"
    <3>1. me < nextPid /\ me # 0
      BY <1>1, MeIs, CallersAre
    <3>2. \A s \in Slot : tasks[s].pid = me => s = current
      <4>1. CASE Unframed(current)
        BY <1>1, <4>1, MeIs
      <4>2. CASE ~Unframed(current)
        <5>1. me = tasks[current].pid
          BY <1>1, <4>2, MeIs
        <5> QED
          BY <1>1, <3>1, <5>1 DEF SchedInv, PidInv
      <4> QED
        BY <4>1, <4>2
    <3> QED
      BY <1>5, <2>2, <3>1, <3>2
  <2> QED
    BY <2>1, <2>2
<1> QED
  BY <1>8, <1>9, <1>10, <1>11, <1>12 DEF SchedInv

LEMMA ExitsInv == ASSUME SchedInv, scheduler_exit PROVE SchedInv'
<1>1. /\ kernelTask /\ tasks' = [tasks EXCEPT ![current].state = "Dead"]
      /\ job' = [job EXCEPT ![me] = [call |-> "yield", then |-> "halt"]]
      /\ exited' = exited \cup {me} /\ UNCHANGED <<current, nextPid, memory, cpu, cr3, script>>
  BY DEF scheduler_exit, returns
<1> QED
  BY <1>1, LeaveInv

LEMMA BlockInv == ASSUME SchedInv, scheduler_block_self PROVE SchedInv'
<1>1. /\ kernelTask /\ tasks' = [tasks EXCEPT ![current].state = "Blocked"]
      /\ job' = [job EXCEPT ![me] = [call |-> "yield", then |-> "none"]]
      /\ exited' = exited /\ UNCHANGED <<current, nextPid, memory, cpu, cr3, script>>
  BY DEF scheduler_block_self, returns
<1> QED
  BY <1>1, LeaveInv

(***************************************************************************)
(* Steps of a call that leave the task table alone.                        *)
(***************************************************************************)

\* The context that runs is in the one call on another slot, or may begin it:
\* it is kernel_main or the supervisor, on its own stack.
Calling ==
    /\ cpu # Nowhere /\ job[me].call # "yield"
    /\ me \in busy \/ busy = {}
    /\ \A s \in Slot : tasks[s].isUser => tasks[s].pid # me
    /\ current # -1 => /\ me \in Supervisors /\ current \in Slot /\ ~Unframed(current)
                       /\ me = tasks[current].pid /\ cpu = own(current)
                       /\ tasks[current].state = "Running"

LEMMA BusyCalls == ASSUME SchedInv, cpu # Nowhere, me \in busy PROVE Calling
<1>1. job[me].call # "yield" /\ job[me].call # "none"
  BY DEF busy
<1>2. \A s \in Slot : tasks[s].isUser => tasks[s].pid # me
  BY <1>1 DEF SchedInv, CallInv
<1>3. ASSUME current # -1
      PROVE  /\ me \in Supervisors /\ current \in Slot /\ ~Unframed(current)
             /\ me = tasks[current].pid /\ cpu = own(current)
             /\ tasks[current].state = "Running"
  <2>1. me \in Supervisors /\ \E r \in Slot : tasks[r].pid = me
    BY <1>3 DEF SchedInv, CallInv
  <2>2. ~Unframed(current) /\ me = tasks[current].pid /\ current \in Slot
    BY <1>3, <2>1, MeIs
  <2> QED
    BY <1>1, <1>3, <2>1, <2>2 DEF SchedInv, CurrentInv
<1> QED
  BY <1>1, <1>2, <1>3 DEF Calling

LEMMA BootCalls == ASSUME SchedInv, boot PROVE Calling /\ busy = {} /\ current = -1
<1>1. cpu # Nowhere /\ me = BootPid /\ job[me].call = "none"
  BY DEF boot, inCall
<1>2. current = -1
  BY <1>1, MeIs, CallersAre DEF BootPid
<1>3. busy = {}
  <2> SUFFICES ASSUME NEW p \in busy PROVE FALSE
    OBVIOUS
  <2>1. p = BootPid
    BY <1>2 DEF SchedInv, CallInv
  <2> QED
    BY <1>1, <2>1 DEF busy
<1>4. ASSUME NEW s \in Slot, tasks[s].isUser PROVE tasks[s].pid # me
  <2>1. tasks[s].state # "Unused"
    BY <1>4 DEF SchedInv, PidInv
  <2> QED
    BY <1>1, <2>1, SlotPid, CallersAre DEF BootPid
<1> QED
  BY <1>1, <1>2, <1>3, <1>4 DEF Calling

\* A supervisor at the top of its loop finds no call under way: it would be its own.
LEMMA SupervisorCalls ==
    ASSUME OneSupervisor, SchedInv, supervisor
    PROVE  Calling /\ busy = {} /\ current # -1
<1>1. /\ cpu # Nowhere /\ job[me].call = "none" /\ me \notin busy
      /\ current # -1 /\ current \in Slot /\ tasks[current].state = "Running"
      /\ \A s \in Slot : tasks[s].isUser => tasks[s].pid # me
      /\ me \in Supervisors
  BY KernelTaskIs DEF supervisor
<1>2. busy = {}
  <2> SUFFICES ASSUME NEW p \in busy PROVE FALSE
    OBVIOUS
  <2>1. p \in Supervisors
    BY <1>1 DEF SchedInv, CallInv
  <2>2. p = me
    BY <1>1, <2>1 DEF OneSupervisor
  <2> QED
    BY <1>1, <2>2
<1>3. ~Unframed(current)
  BY <1>2, MakerIs
<1>4. me = tasks[current].pid /\ cpu = own(current)
  BY <1>1, <1>3, MeIs DEF SchedInv, CurrentInv
<1> QED
  BY <1>1, <1>2, <1>3, <1>4 DEF Calling

\* What is left to show of such a step is about the call itself and about memory.
LEMMA CallStep ==
    ASSUME SchedInv, Calling, NEW j \in Job, job' = [job EXCEPT ![me] = j],
           UNCHANGED <<tasks, current, nextPid, cpu, cr3, exited>>,
           j.call \in {"none", "create", "unblock"},
           current = -1 => j.call # "unblock",
           j.call = "unblock" => tasks[j.slot].state = "Blocked",
           \A s : ~Unframed(s), j.call = "create" => Len(j.todo) # 1
    PROVE  /\ PidInv' /\ CallInv' /\ CurrentInv' /\ ContextInv' /\ ExitInv'
           /\ job' \in [Callers -> Job] /\ me' = me /\ job'[me] = j
           /\ j.call = "create" => creating' /\ maker' = me
           /\ j.call # "create" => ~creating'
<1>1. /\ job' \in [Callers -> Job] /\ me' = me /\ job'[me] = j
      /\ \A p \in Callers : p # me => job'[p] = job[p]
      /\ busy' = IF j.call \in {"create", "unblock"} THEN {me} ELSE {}
      /\ j.call = "create" => creating' /\ maker' = me
      /\ j.call # "create" => ~creating'
  BY OwnCall DEF Calling
<1>2. \A s : ~Unframed(s)'
  BY <1>1 DEF Unframed
<1>3. PidInv' /\ ExitInv'
  BY DEF SchedInv, PidInv, ExitInv
<1>4. me \in Callers /\ (current = -1 => me = BootPid) /\ (me \in Pid => me < nextPid)
  BY MeIs, CallersAre DEF Calling, BootPid
<1>5. CallInv'
  <2>1. \A p, q \in busy' : p = q
    BY <1>1
  <2>2. ASSUME NEW p \in busy'
        PROVE  /\ current' = -1 => p = BootPid
               /\ current' # -1 => /\ p \in Supervisors
                                   /\ \E r \in Slot : /\ tasks'[r].pid = p
                                                      /\ tasks'[r].state \in {"Ready", "Running"}
               /\ job'[p].call = "unblock" => tasks'[job'[p].slot].state = "Blocked"
    BY <1>1, <1>4, <2>2 DEF Calling
  <2>3. ASSUME NEW p \in Pid, p >= nextPid' PROVE job'[p].call = "none"
    <3>1. p \in Callers /\ p # me /\ nextPid' = nextPid /\ p \in Nat /\ nextPid \in Nat
      BY <1>4, <2>3, CallersAre, SchedulerBounds DEF SchedInv, TypeInv, IdlePid
    <3> QED
      BY <1>1, <2>3, <3>1 DEF SchedInv, CallInv
  <2>4. ASSUME NEW s \in Slot, tasks'[s].isUser PROVE job'[tasks'[s].pid].call = "none"
    <3>1. tasks[s].isUser /\ tasks'[s] = tasks[s] /\ tasks[s].state # "Unused"
      BY <2>4 DEF SchedInv, PidInv
    <3>2. job[tasks[s].pid].call = "none" /\ tasks[s].pid \in Callers /\ tasks[s].pid # me
      BY <3>1, SlotPid, CallersAre DEF SchedInv, CallInv, Calling
    <3> QED
      BY <1>1, <3>1, <3>2
  <2> QED
    BY <2>1, <2>2, <2>3, <2>4 DEF CallInv
<1>6. CurrentInv'
  <2>1. \A s \in Slot : tasks'[s].state = "Running" => s = current'
    BY DEF SchedInv, CurrentInv
  <2>2. current' = -1 => cpu' = Kernel(BootPid) /\ job'[BootPid].call \in {"none", "create"}
    BY <1>1, <1>4 DEF SchedInv, CurrentInv
  <2>3. ASSUME current' # -1
        PROVE  /\ cpu' = own(current)' /\ cr3' = tasks'[current'].space
               /\ tasks'[current'].state = "Running" /\ ~Unframed(current)'
    <3>1. own(current)' = own(current) /\ ~Unframed(current)'
      BY <1>1 DEF own, Unframed
    <3> QED
      BY <2>3, <3>1 DEF SchedInv, CurrentInv, Calling
  <2> QED
    BY <2>1, <2>2, <2>3 DEF CurrentInv
<1>7. ContextInv'
  <2>1. \A s \in Slot : own(s)' = own(s)
    BY DEF own
  <2> QED
    BY <1>2, <2>1 DEF SchedInv, ContextInv
<1> QED
  BY <1>1, <1>3, <1>5, <1>6, <1>7

\* No creation under way before or after, and memory untouched: no page moves.
LEMMA PagesStay ==
    ASSUME PageInv, gathered' = {}, gathered = {}, ~creating', UNCHANGED memory,
           \A s \in Slot : tasks'[s].pages = tasks[s].pages /\ tasks'[s].space = tasks[s].space
    PROVE  PageInv'
<1>1. \A s \in Slot : /\ spacePages(tasks[s].space)' = spacePages(tasks[s].space)
                      /\ held(s)' = held(s)
  BY DEF spacePages, held, memory
<1>2. UNION {held(s)' : s \in Slot} = UNION {held(s) : s \in Slot}
  BY <1>1
<1>3. used' = used
  BY DEF memory
<1> QED
  BY <1>1, <1>2, <1>3 DEF PageInv

LEMMA NobodyBusy == ASSUME SchedInv, busy = {} PROVE ~creating /\ gathered = {} /\ \A s : ~Unframed(s)
  BY DEF creating, gathered, Unframed

LEMMA UnblockInv ==
    ASSUME OneSupervisor, SchedInv, NEW p \in Pid, scheduler_unblock(p)
    PROVE  SchedInv'
<1>1. PICK s \in Slot : tasks[s].state = "Blocked" /\ returns([call |-> "unblock", slot |-> s])
  BY DEF scheduler_unblock
<1> DEFINE j == [call |-> "unblock", slot |-> s]
<1>2. j \in Job /\ j.call = "unblock" /\ j.slot = s
  BY DEF Job
<1>3. job' = [job EXCEPT ![me] = j]
  BY <1>1 DEF returns
<1>4. UNCHANGED <<tasks, current, nextPid, cpu, cr3, exited>> /\ UNCHANGED <<memory, script>>
  BY DEF scheduler_unblock
<1>5. Calling /\ current # -1 /\ gathered = {} /\ \A r : ~Unframed(r)
  BY SupervisorCalls, NobodyBusy DEF scheduler_unblock
<1> HIDE DEF j
<1>6. /\ PidInv' /\ CallInv' /\ CurrentInv' /\ ContextInv' /\ ExitInv'
      /\ job' \in [Callers -> Job] /\ ~creating'
  BY <1>1, <1>2, <1>3, <1>4, <1>5, CallStep
<1>7. TypeInv'
  BY <1>4, <1>6 DEF SchedInv, TypeInv, memory
<1>8. CreateInv'
  BY <1>6 DEF CreateInv
<1>9. gathered' = {}
  BY <1>6 DEF gathered
<1>10. PageInv'
  BY <1>4, <1>5, <1>6, <1>9, PagesStay DEF SchedInv
<1> QED
  BY <1>6, <1>7, <1>8, <1>10 DEF SchedInv

(***************************************************************************)
(* The list of steps of a creation.                                        *)
(***************************************************************************)

LEMMA TodoTail ==
    ASSUME NEW todo \in Seq(Steps), NEW kind, NEW space, NEW space2,
           TodoOK(todo, kind, space), Len(todo) >= 2,
           \/ Head(todo) # "space" /\ space2 = space
           \/ Head(todo) = "space" /\ space2 # KernelSpace
           \/ Len(todo) = 2
    PROVE  /\ Tail(todo) \in Seq(Steps) /\ Len(Tail(todo)) = Len(todo) - 1
           /\ TodoOK(Tail(todo), kind, space2)
<1> DEFINE rest == Tail(todo)
<1>1. /\ rest \in Seq(Steps) /\ Len(rest) = Len(todo) - 1 /\ Len(todo) \in Nat
      /\ \A i \in 1..Len(rest) : rest[i] = todo[i + 1] /\ i + 1 \in 1..Len(todo)
      /\ Head(todo) = todo[1]
  OBVIOUS
<1> HIDE DEF rest
<1>2. ASSUME NEW i \in 1..Len(rest)
      PROVE  /\ rest[i] = "frame" <=> i = Len(rest)
             /\ rest[i] = "publish" <=> i = Len(rest) - 1
             /\ rest[i] = "reclaim" <=> i = Len(rest) - 2
  BY <1>1 DEF TodoOK
<1>3. ASSUME NEW i \in 1..Len(rest), rest[i] = "space"
      PROVE  space2 = KernelSpace /\ \A k \in 1..Len(rest) : rest[k] = "space" => k = i
  <2>1. i + 1 \in 1..Len(todo) /\ todo[i + 1] = "space" /\ 1 \in 1..Len(todo)
    BY <1>1, <1>3
  <2>2. space = KernelSpace /\ \A k \in 1..Len(todo) : todo[k] = "space" => k = i + 1
    BY <2>1 DEF TodoOK
  <2>3. todo[1] # "space"
    BY <1>1, <2>1, <2>2
  <2>4. Len(todo) # 2
    <3>1. Len(todo) = 2 => i = Len(rest)
      BY <1>1
    <3> QED
      BY <1>2, <1>3, <3>1
  <2> QED
    BY <1>1, <2>2, <2>3, <2>4, SMTT(40)
<1>4. ASSUME NEW i \in 1..Len(rest), rest[i] = "map"
      PROVE  space2 # KernelSpace \/ \E k \in 1..(i - 1) : rest[k] = "space"
  <2>1. i + 1 \in 1..Len(todo) /\ todo[i + 1] = "map"
    BY <1>1, <1>4
  <2>2. Len(todo) # 2
    <3>1. Len(todo) = 2 => i = Len(rest)
      BY <1>1
    <3> QED
      BY <1>2, <1>4, <3>1
  <2>3. space # KernelSpace \/ \E k \in 1..i : todo[k] = "space"
    <3>1. space # KernelSpace \/ \E k \in 1..((i + 1) - 1) : todo[k] = "space"
      BY <2>1 DEF TodoOK
    <3>2. (i + 1) - 1 = i
      BY <1>1
    <3> QED
      BY <3>1, <3>2
  <2>4. CASE Head(todo) = "space" /\ space2 # KernelSpace
    BY <2>4
  <2>5. CASE Head(todo) # "space" /\ space2 = space
    <3> SUFFICES ASSUME NEW k \in 1..i, todo[k] = "space"
                 PROVE  \E m \in 1..(i - 1) : rest[m] = "space"
      BY <2>3, <2>5
    <3>1. k # 1
      BY <1>1, <2>5
    <3>2. k - 1 \in 1..(i - 1) /\ k - 1 \in 1..Len(rest)
      BY <1>1, <3>1
    <3>3. rest[k - 1] = todo[(k - 1) + 1] /\ (k - 1) + 1 = k
      BY <1>1, <3>2
    <3> QED
      BY <3>2, <3>3
  <2> QED
    BY <2>2, <2>4, <2>5
<1>5. kind = "kernel" => Len(rest) <= 3
  BY <1>1 DEF TodoOK
<1>6. TodoOK(rest, kind, space2)
  BY <1>1, <1>2, <1>3, <1>4, <1>5 DEF TodoOK
<1> QED
  BY <1>1, <1>6 DEF rest

\* Where a creation is, from the first step it has left.
LEMMA TodoHead ==
    ASSUME NEW todo \in Seq(Steps), NEW kind, NEW space, TodoOK(todo, kind, space)
    PROVE  /\ Head(todo) \in Gathering => Len(todo) >= 4 /\ kind # "kernel"
           /\ Head(todo) = "space" => space = KernelSpace
           /\ Head(todo) = "map" => space # KernelSpace
           /\ Head(todo) = "reclaim" => Len(todo) = 3
           /\ Head(todo) = "publish" => Len(todo) = 2
           /\ Head(todo) = "frame" => Len(todo) = 1
<1>1. Len(todo) \in Nat /\ Len(todo) >= 1 /\ 1 \in 1..Len(todo) /\ Head(todo) = todo[1]
  BY DEF TodoOK
<1>2. /\ todo[1] = "frame" <=> 1 = Len(todo)
      /\ todo[1] = "publish" <=> 1 = Len(todo) - 1
      /\ todo[1] = "reclaim" <=> 1 = Len(todo) - 2
  BY <1>1 DEF TodoOK
<1>3. Head(todo) \in Gathering => Len(todo) >= 4
  <2>1. Len(todo) \in {1, 2, 3} \/ Len(todo) >= 4
    <3>1. \A l \in Nat : l = 0 \/ l = 1 \/ l = 2 \/ l = 3 \/ l >= 4
      OBVIOUS
    <3>2. Len(todo) # 0
      BY <1>1
    <3> QED
      BY <1>1, <3>1, <3>2, Zenon
  <2>2. Len(todo) \in {1, 2, 3} => todo[1] \in {"frame", "publish", "reclaim"}
    BY <1>2
  <2> QED
    BY <1>1, <2>1, <2>2 DEF Gathering
<1>4. Head(todo) \in Gathering => kind # "kernel"
  BY <1>1, <1>3 DEF TodoOK
<1>5. Head(todo) = "space" => space = KernelSpace
  BY <1>1 DEF TodoOK
<1>6. Head(todo) = "map" => space # KernelSpace
  BY <1>1 DEF TodoOK
<1> QED
  BY <1>1, <1>2, <1>3, <1>4, <1>5, <1>6

\* Gathering steps, with one directory before the first mapping, make a creation.
LEMMA GatherOK ==
    ASSUME NEW g \in Seq(Gathering), NEW kind, kind # "kernel",
           NEW d \in 1..Len(g), \A i \in 1..Len(g) : g[i] = "space" <=> i = d,
           \A i \in 1..Len(g) : g[i] = "map" => d < i
    PROVE  /\ g \o RECLAIM \in Seq(Steps) /\ Len(g \o RECLAIM) >= 3
           /\ TodoOK(g \o RECLAIM, kind, KernelSpace)
<1> DEFINE todo == g \o RECLAIM
           n == Len(g)
<1>1. /\ RECLAIM \in Seq(Steps) /\ Len(RECLAIM) = 3
      /\ RECLAIM[1] = "reclaim" /\ RECLAIM[2] = "publish" /\ RECLAIM[3] = "frame"
  BY DEF RECLAIM, Steps
<1>2. g \in Seq(Steps) /\ n \in Nat
  BY DEF Steps
<1>3. /\ todo \in Seq(Steps) /\ Len(todo) = n + 3
      /\ \A i \in 1..n : todo[i] = g[i]
      /\ todo[n + 1] = RECLAIM[1] /\ todo[n + 2] = RECLAIM[2] /\ todo[n + 3] = RECLAIM[3]
  <2>1. /\ todo \in Seq(Steps) /\ Len(todo) = n + Len(RECLAIM)
        /\ \A i \in 1..n : todo[i] = g[i]
        /\ \A i \in 1..Len(RECLAIM) : todo[n + i] = RECLAIM[i]
    <3>1. g \in Seq(Steps) /\ RECLAIM \in Seq(Steps)
      BY <1>1, <1>2
    <3> QED
      BY <3>1
  <2> HIDE DEF todo, n
  <2> QED
    BY <1>1, <2>1
<1>4. \A i \in 1..n : todo[i] \in Gathering /\ todo[i] \notin {"reclaim", "publish", "frame"}
  BY <1>3 DEF Gathering
<1> HIDE DEF todo, n
<1>5. \A i \in 1..Len(todo) : i \in 1..n \/ i = n + 1 \/ i = n + 2 \/ i = n + 3
  BY <1>2, <1>3
<1>6. \A i \in 1..Len(todo) : /\ todo[i] = "frame" <=> i = Len(todo)
                              /\ todo[i] = "publish" <=> i = Len(todo) - 1
                              /\ todo[i] = "reclaim" <=> i = Len(todo) - 2
  BY <1>1, <1>2, <1>3, <1>4, <1>5
<1>7. \A i \in 1..Len(todo) : todo[i] = "space" <=> i = d
  BY <1>1, <1>2, <1>3, <1>5 DEF n
<1>8. \A i \in 1..Len(todo) : todo[i] = "map" => d \in 1..(i - 1) /\ d \in 1..Len(todo)
  BY <1>1, <1>2, <1>3, <1>5 DEF n
<1>9. TodoOK(todo, kind, KernelSpace)
  BY <1>2, <1>3, <1>6, <1>7, <1>8 DEF TodoOK
<1> QED
  BY <1>2, <1>3, <1>9 DEF todo

LEMMA StepsOK ==
    ASSUME NEW kind \in Kinds
    PROVE  /\ steps(kind) \in Seq(Steps) /\ Len(steps(kind)) >= 3
           /\ TodoOK(steps(kind), kind, KernelSpace)
<1>1. CASE kind = "kernel"
  <2> DEFINE todo == <<"reclaim", "publish", "frame">>
  <2>1. steps(kind) = todo
    BY <1>1 DEF steps, RECLAIM
  <2>2. /\ todo \in Seq(Steps) /\ Len(todo) = 3
        /\ todo[1] = "reclaim" /\ todo[2] = "publish" /\ todo[3] = "frame"
    BY DEF Steps
  <2> HIDE DEF todo
  <2>3. \A i \in 1..Len(todo) : i \in {1, 2, 3}
    BY <2>2
  <2>4. TodoOK(todo, kind, KernelSpace)
    BY <2>2, <2>3 DEF TodoOK
  <2> QED
    BY <2>1, <2>2, <2>4
<1>2. CASE kind = "user"
  <2> DEFINE g == <<"page", "page", "space", "map", "map">>
  <2>1. steps(kind) = g \o RECLAIM
    BY <1>2 DEF steps
  <2>2. g \in Seq(Gathering) /\ Len(g) = 5 /\ 3 \in 1..5
    BY DEF Gathering
  <2>3. \A i \in 1..5 : (g[i] = "space" <=> i = 3) /\ (g[i] = "map" => 3 < i)
    OBVIOUS
  <2> HIDE DEF g
  <2> QED
    BY <1>2, <2>1, <2>2, <2>3, GatherOK
<1>3. CASE kind = "elf"
  <2> DEFINE n == 2 * ElfPages
             first == <<"space">> \o segmentSteps
             last == <<"page", "map">>
             g == first \o last
  <2>1. /\ n \in Nat /\ segmentSteps \in Seq(Gathering) /\ Len(segmentSteps) = n
        /\ \A i \in 1..n : segmentSteps[i] \in {"page", "map"}
    BY SchedulerBounds DEF segmentSteps, Gathering
  <2>2. steps(kind) = g \o RECLAIM
    BY <1>3 DEF steps
  <2> HIDE DEF n
  <2>3. /\ first \in Seq(Gathering) /\ Len(first) = n + 1 /\ first[1] = "space"
        /\ \A i \in 2..(n + 1) : first[i] \in {"page", "map"}
    <3>1. <<"space">> \in Seq(Gathering) /\ Len(<<"space">>) = 1
      BY DEF Gathering
    <3> QED
      BY <2>1, <3>1
  <2>4. last \in Seq(Gathering) /\ Len(last) = 2 /\ \A i \in 1..2 : last[i] \in {"page", "map"}
    BY DEF Gathering
  <2> HIDE DEF first, last
  <2>5. /\ g \in Seq(Gathering) /\ Len(g) = n + 3
        /\ g[1] = "space" /\ \A i \in 2..(n + 3) : g[i] \in {"page", "map"}
    <3>1. /\ g \in Seq(Gathering) /\ Len(g) = Len(first) + Len(last)
          /\ \A i \in 1..Len(first) : g[i] = first[i]
          /\ \A i \in 1..Len(last) : g[Len(first) + i] = last[i]
      <4>1. first \in Seq(Gathering) /\ last \in Seq(Gathering)
        BY <2>3, <2>4
      <4> QED
        BY <4>1
    <3> HIDE DEF g
    <3>2. \A i \in 2..(n + 3) : i \in 2..(n + 1) \/ (i - (n + 1) \in 1..2 /\ i = (n + 1) + (i - (n + 1)))
      BY <2>1
    <3> QED
      BY <2>1, <2>3, <2>4, <3>1, <3>2
  <2> HIDE DEF g
  <2>6. 1 \in 1..Len(g)
    BY <2>1, <2>5
  <2>7. \A i \in 1..Len(g) : (g[i] = "space" <=> i = 1) /\ (g[i] = "map" => 1 < i)
    BY <2>1, <2>5
  <2> QED
    BY <1>3, <2>2, <2>5, <2>6, <2>7, GatherOK
<1> QED
  BY <1>1, <1>2, <1>3 DEF Kinds
(***************************************************************************)
(* The beginning of a creation, and the pages it gathers.                  *)
(***************************************************************************)

LEMMA ThreeOrMore == \A l \in Nat : l >= 3 \/ l >= 4 => l >= 2 /\ l # 2 /\ l # 1
  OBVIOUS

LEMMA FindSlotIs ==
    ASSUME someSlot
    PROVE  findSlot \in Slot /\ tasks[findSlot].state \in {"Unused", "Dead"}
<1>1. \A st : inState(tasks, {st}) \in SUBSET Nat
  BY SlotZero DEF inState
<1>2. \A st : inState(tasks, {st}) # {} => least(inState(tasks, {st})) \in inState(tasks, {st})
  BY <1>1, LeastIs
<1>3. inState(tasks, {"Unused"}) # {} \/ inState(tasks, {"Dead"}) # {}
  BY DEF someSlot, inState
<1>4. findSlot \in inState(tasks, {"Unused"}) \/ findSlot \in inState(tasks, {"Dead"})
  BY <1>2, <1>3 DEF findSlot
<1> QED
  BY <1>4 DEF inState

LEMMA CreateInvStart ==
    ASSUME SchedInv, NEW kind \in Kinds, scheduler_create(kind), Calling, busy = {},
           job[me].call = "none", script' \in Seq(Kinds)
    PROVE  SchedInv'
<1>0. ~creating /\ gathered = {} /\ \A s : ~Unframed(s)
  BY NobodyBusy
<1>1. nextPid <= MaxPid
  <2>1. creators = {}
    BY DEF creators, busy, Callers
  <2>2. Cardinality(creators) = 0
    BY <2>1, FS_EmptySet
  <2> QED
    BY <2>2 DEF scheduler_create, SchedInv, TypeInv
<1>2. UNCHANGED <<tasks, current, nextPid, cpu, cr3, exited>> /\ UNCHANGED memory
  BY DEF scheduler_create
<1>3. CASE ~someSlot
  <2>1. job \in [Callers -> Job] /\ me \in Callers /\ job' = job
    BY <1>3, MeIs DEF SchedInv, TypeInv, scheduler_create, Calling
  <2>2. job[me] \in Job /\ job' = [job EXCEPT ![me] = job[me]]
    BY <2>1
  <2>3. /\ PidInv' /\ CallInv' /\ CurrentInv' /\ ContextInv' /\ ExitInv'
        /\ job' \in [Callers -> Job] /\ ~creating'
    BY <1>0, <1>2, <2>2, CallStep
  <2>4. TypeInv'
    BY <1>2, <2>3 DEF SchedInv, TypeInv, memory
  <2>5. CreateInv' /\ gathered' = {}
    BY <2>3 DEF CreateInv, gathered
  <2>6. PageInv'
    BY <1>0, <1>2, <2>3, <2>5, PagesStay DEF SchedInv
  <2> QED
    BY <2>3, <2>4, <2>5, <2>6 DEF SchedInv
<1>4. CASE someSlot
  <2> DEFINE j == [call |-> "create", kind |-> kind, slot |-> findSlot,
                   todo |-> steps(kind), pages |-> {}, space |-> KernelSpace]
  <2>1. job' = [job EXCEPT ![me] = j]
    BY <1>4 DEF scheduler_create, returns
  <2>2. /\ j.call = "create" /\ j.kind = kind /\ j.slot = findSlot /\ j.todo = steps(kind)
        /\ j.pages = {} /\ j.space = KernelSpace
    OBVIOUS
  <2>3. j \in Job
    <3>1. j \in CreateJob
      BY <1>4, FindSlotIs, StepsOK DEF CreateJob, Space
    <3> QED
      BY <3>1 DEF Job
  <2> HIDE DEF j
  <2>4. Len(j.todo) >= 2 /\ Len(j.todo) # 2 /\ Len(j.todo) # 1
    <3>1. Len(steps(kind)) \in Nat /\ Len(steps(kind)) >= 3
      BY StepsOK
    <3> QED
      BY <2>2, <3>1, ThreeOrMore, Zenon
  <2>5. /\ PidInv' /\ CallInv' /\ CurrentInv' /\ ContextInv' /\ ExitInv'
        /\ job' \in [Callers -> Job] /\ job'[me] = j /\ creating' /\ maker' = me
    BY <1>0, <1>2, <2>1, <2>2, <2>3, <2>4, CallStep
  <2>6. TypeInv'
    BY <1>2, <2>5 DEF SchedInv, TypeInv, memory
  <2>7. CreateInv'
    <3>1. tasks'[j.slot].state \in {"Unused", "Dead"} /\ nextPid' <= MaxPid
      BY <1>1, <1>2, <1>4, <2>2, FindSlotIs
    <3>2. job'[maker'] = j /\ TodoOK(j.todo, j.kind, j.space)
      BY <2>2, <2>5, StepsOK
    <3> QED
      BY <2>2, <2>4, <3>1, <3>2 DEF CreateInv
  <2>8. PageInv'
    <3>1. gathered' = {}
      BY <2>2, <2>5 DEF gathered, spacePages, KernelSpace
    <3>2. \A s \in Slot : spacePages(tasks[s].space)' = spacePages(tasks[s].space)
                          /\ held(s)' = held(s)
      BY <1>2 DEF spacePages, held, memory
    <3>3. UNION {held(s)' : s \in Slot} = UNION {held(s) : s \in Slot} /\ used' = used
      BY <1>2, <3>2 DEF memory
    <3>4. (job[maker].pages \cap spacePages(job[maker].space))' = {}
      BY <2>2, <2>5 DEF spacePages
    <3> QED
      BY <1>0, <1>2, <3>1, <3>2, <3>3, <3>4 DEF SchedInv, PageInv
  <2> QED
    BY <2>5, <2>6, <2>7, <2>8 DEF SchedInv
<1> QED
  BY <1>3, <1>4

LEMMA BootInv == ASSUME SchedInv, boot PROVE SchedInv'
<1>1. script \in Seq(Kinds) /\ script # <<>> /\ script' = Tail(script)
  BY DEF boot, SchedInv, TypeInv
<1>2. Head(script) \in Kinds /\ script' \in Seq(Kinds)
  BY <1>1
<1>3. job[me].call = "none" /\ scheduler_create(Head(script))
  BY DEF boot, inCall
<1> QED
  BY <1>2, <1>3, BootCalls, CreateInvStart

LEMMA SpawnInv ==
    ASSUME OneSupervisor, SchedInv, NEW kind \in Kinds, spawn(kind)
    PROVE  SchedInv'
<1>1. job[me].call = "none" /\ script' \in Seq(Kinds) /\ scheduler_create(kind)
  BY DEF spawn, supervisor, kernelTask, inCall, SchedInv, TypeInv
<1>2. Calling /\ busy = {}
  BY SupervisorCalls DEF spawn
<1> QED
  BY <1>1, <1>2, CreateInvStart

\* A context in the middle of a creation.
LEMMA CreatorIs ==
    ASSUME SchedInv, NEW step, at(step)
    PROVE  /\ creating /\ Calling /\ maker = me /\ me \in busy
           /\ job[me] \in CreateJob /\ job[me].call = "create"
           /\ job[me].todo \in Seq(Steps) /\ Head(job[me].todo) = step
           /\ TodoOK(job[me].todo, job[me].kind, job[me].space)
           /\ job[me].pages \in SUBSET Page /\ job[me].space \in Space
           /\ job[me].slot \in Slot /\ job[me].kind \in Kinds
           /\ gathered = job[me].pages \cup spacePages(job[me].space)
           /\ job[me].pages \cap spacePages(job[me].space) = {}
<1>1. cpu # Nowhere /\ job[me].call = "create" /\ Head(job[me].todo) = step
  BY DEF at, inCall
<1>2. me \in busy
  BY <1>1, MeIs DEF busy
<1>3. maker = me /\ creating /\ Calling
  BY <1>1, <1>2, MakerIs, BusyCalls DEF creating
<1>4. job[me] \in CreateJob
  BY <1>1, MeIs DEF Job, NoCall
<1>5. TodoOK(job[me].todo, job[me].kind, job[me].space)
  BY <1>3 DEF SchedInv, CreateInv
<1>6. /\ gathered = job[me].pages \cup spacePages(job[me].space)
      /\ job[me].pages \cap spacePages(job[me].space) = {}
  BY <1>3 DEF gathered, SchedInv, PageInv
<1> QED
  BY <1>1, <1>2, <1>3, <1>4, <1>5, <1>6 DEF CreateJob

\* A gathering step: the page it takes is nobody's.
LEMMA GatherInv ==
    ASSUME SchedInv, NEW step \in Gathering, at(step), NEW j \in CreateJob,
           job' = [job EXCEPT ![me] = j],
           j.slot = job[me].slot, j.kind = job[me].kind, j.todo = Tail(job[me].todo),
           \/ step # "space" /\ j.space = job[me].space
           \/ step = "space" /\ j.space # KernelSpace,
           UNCHANGED <<tasks, current, nextPid, cpu, cr3, exited, script>>,
           used' \in SUBSET Page, tables' \in [Page -> SUBSET Page], PageInv'
    PROVE  SchedInv'
<1> DEFINE i == job[me]
<1>1. /\ creating /\ Calling /\ maker = me /\ i \in CreateJob /\ i.todo \in Seq(Steps)
      /\ Head(i.todo) = step /\ TodoOK(i.todo, i.kind, i.space)
  BY CreatorIs
<1>2. Len(i.todo) >= 4 /\ i.kind # "kernel" /\ Len(i.todo) \in Nat
  BY <1>1, TodoHead
<1>3. /\ tasks[i.slot].state \in {"Unused", "Dead"} /\ nextPid <= MaxPid
      /\ \A s : ~Unframed(s)
  <2>1. Len(i.todo) >= 2 /\ Len(i.todo) # 1
    BY <1>2, ThreeOrMore, Zenon
  <2> HIDE DEF i
  <2>2. job[maker] = i
    BY <1>1 DEF i
  <2> QED
    BY <1>1, <2>1, <2>2 DEF SchedInv, CreateInv, Unframed
<1>4. /\ j.todo \in Seq(Steps) /\ Len(j.todo) = Len(i.todo) - 1
      /\ TodoOK(j.todo, j.kind, j.space)
  <2>1. Len(i.todo) >= 2
    BY <1>2
  <2>2. \/ Head(i.todo) # "space" /\ j.space = i.space
        \/ Head(i.todo) = "space" /\ j.space # KernelSpace
    BY <1>1
  <2> HIDE DEF i
  <2> QED
    BY <1>1, <2>1, <2>2, TodoTail DEF i
<1>5. Len(j.todo) >= 2 /\ Len(j.todo) # 2 /\ Len(j.todo) # 1
  <2>1. Len(j.todo) >= 3 /\ Len(j.todo) \in Nat
    BY <1>2, <1>4
  <2> QED
    BY <2>1, ThreeOrMore, Zenon
<1>6. j \in Job /\ j.call = "create"
  BY DEF Job, CreateJob
<1>7. /\ PidInv' /\ CallInv' /\ CurrentInv' /\ ContextInv' /\ ExitInv'
      /\ job' \in [Callers -> Job] /\ job'[me] = j /\ maker' = me
  BY <1>1, <1>3, <1>5, <1>6, CallStep
<1>8. TypeInv'
  BY <1>7 DEF SchedInv, TypeInv
<1>9. CreateInv'
  <2>1. tasks'[j.slot].state \in {"Unused", "Dead"} /\ nextPid' <= MaxPid
    BY <1>3
  <2>2. job'[maker'] = j /\ j.kind # "kernel"
    BY <1>2, <1>7
  <2> HIDE DEF i
  <2> QED
    BY <1>4, <1>5, <2>1, <2>2 DEF CreateInv
<1> QED
  BY <1>7, <1>8, <1>9 DEF SchedInv

\* Everything a slot or the creation under way holds is marked, directories too.
LEMMA HeldIsUsed ==
    ASSUME SchedInv
    PROVE  /\ gathered \subseteq used /\ \A s \in Slot : held(s) \subseteq used
           /\ \A s \in Slot : tasks[s].space # KernelSpace => tasks[s].space \in held(s)
           /\ creating /\ job[maker].space # KernelSpace => job[maker].space \in gathered
<1>1. used = gathered \cup UNION {held(s) : s \in Slot}
  BY DEF SchedInv, PageInv
<1>2. gathered \subseteq used /\ \A s \in Slot : held(s) \subseteq used
  BY <1>1
<1> QED
  BY <1>2 DEF held, gathered, spacePages

\* The creation takes page q; the slots keep what they hold.
LEMMA TakeInv ==
    ASSUME SchedInv, creating, NEW q \in Page, q \notin used, used' = used \cup {q},
           creating', gathered' = gathered \cup {q},
           (job[maker].pages \cap spacePages(job[maker].space))' = {},
           \A s \in Slot : /\ tasks'[s].pages = tasks[s].pages
                           /\ spacePages(tasks[s].space)' = spacePages(tasks[s].space)
    PROVE  PageInv'
<1>1. \A s \in Slot : held(s)' = held(s) /\ held(s) \subseteq used /\ q \notin held(s)
  BY HeldIsUsed DEF held
<1>2. UNION {held(s)' : s \in Slot} = UNION {held(s) : s \in Slot}
  BY <1>1
<1>3. used' = gathered' \cup UNION {held(s)' : s \in Slot}
  BY <1>2 DEF SchedInv, PageInv
<1>4. \A s \in Slot : gathered' \cap held(s)' = {}
  BY <1>1 DEF SchedInv, PageInv
<1> QED
  BY <1>1, <1>3, <1>4 DEF SchedInv, PageInv

LEMMA PageIsNotZero == 0 \notin Page
  BY TableAssumption DEF Page

\* The creator's call after a step that is not its last.
LEMMA CreatorStays ==
    ASSUME SchedInv, creating, Calling, maker = me, NEW j \in CreateJob,
           job' = [job EXCEPT ![me] = j], cpu' = cpu
    PROVE  me' = me /\ maker' = me /\ job'[me] = j /\ creating'
<1>1. j \in Job /\ j.call = "create"
  BY DEF Job, CreateJob
<1> QED
  BY <1>1, OwnCall DEF Calling

LEMMA AllocPageInv == ASSUME SchedInv, allocPage PROVE SchedInv'
<1> DEFINE i == job[me]
           q == memory_alloc_page
           j == [[i EXCEPT !.pages = @ \cup {q}] EXCEPT !.todo = Tail(@)]
<1>1. /\ at("page") /\ job' = [job EXCEPT ![me] = j]
      /\ used' = used \cup {q} /\ tables' = tables
      /\ UNCHANGED <<tasks, current, nextPid, cpu, cr3, exited, script>>
  BY DEF allocPage, proceed, returns
<1>2. /\ creating /\ Calling /\ maker = me /\ i \in CreateJob /\ i.todo \in Seq(Steps)
      /\ TodoOK(i.todo, i.kind, i.space) /\ i.pages \in SUBSET Page
      /\ gathered = i.pages \cup spacePages(i.space) /\ i.pages \cap spacePages(i.space) = {}
  BY <1>1, CreatorIs
<1>3. q \in Page /\ q \notin used
  BY AllocIs DEF allocPage
<1> HIDE DEF q
<1>4. /\ j \in CreateJob /\ j.pages = i.pages \cup {q} /\ j.todo = Tail(i.todo)
      /\ j.slot = i.slot /\ j.kind = i.kind /\ j.space = i.space
  <2>1. Tail(i.todo) \in Seq(Steps)
    <3>1. i.todo # <<>>
      BY <1>2 DEF TodoOK
    <3> QED
      BY <1>2, <3>1
  <2> QED
    BY <1>2, <1>3, <2>1 DEF CreateJob
<1> HIDE DEF j
<1>5. me' = me /\ maker' = me /\ job'[me] = j /\ creating'
  BY <1>1, <1>2, <1>4, CreatorStays
<1>6. PageInv'
  <2>1. \A d : spacePages(d)' = spacePages(d)
    BY <1>1 DEF spacePages
  <2>2. gathered' = gathered \cup {q}
    BY <1>2, <1>4, <1>5, <2>1 DEF gathered
  <2>3. (job[maker].pages \cap spacePages(job[maker].space))' = {}
    <3>1. q \notin spacePages(i.space)
      BY <1>2, <1>3, HeldIsUsed
    <3> QED
      BY <1>2, <1>4, <1>5, <2>1, <3>1
  <2> QED
    BY <1>1, <1>2, <1>3, <1>5, <2>1, <2>2, <2>3, TakeInv
<1>7. used' \in SUBSET Page /\ tables' \in [Page -> SUBSET Page]
  BY <1>1, <1>3 DEF SchedInv, TypeInv
<1> QED
  BY <1>1, <1>4, <1>6, <1>7, GatherInv DEF Gathering

LEMMA SpaceInv == ASSUME SchedInv, paging_create_address_space PROVE SchedInv'
<1> DEFINE i == job[me]
           q == memory_alloc_page
           j == [[i EXCEPT !.space = q] EXCEPT !.todo = Tail(@)]
<1>1. /\ at("space") /\ job' = [job EXCEPT ![me] = j]
      /\ used' = used \cup {q} /\ tables' = [tables EXCEPT ![q] = {}]
      /\ UNCHANGED <<tasks, current, nextPid, cpu, cr3, exited, script>>
  BY DEF paging_create_address_space, proceed, returns
<1>2. /\ creating /\ Calling /\ maker = me /\ i \in CreateJob /\ i.todo \in Seq(Steps)
      /\ Head(i.todo) = "space" /\ TodoOK(i.todo, i.kind, i.space)
      /\ i.pages \in SUBSET Page /\ gathered = i.pages \cup spacePages(i.space)
  BY <1>1, CreatorIs
<1>3. q \in Page /\ q \notin used /\ q # KernelSpace
  BY AllocIs, PageIsNotZero DEF paging_create_address_space, KernelSpace
<1> HIDE DEF q
<1>4. i.space = KernelSpace
  BY <1>2, TodoHead
<1>5. /\ j \in CreateJob /\ j.pages = i.pages /\ j.todo = Tail(i.todo)
      /\ j.slot = i.slot /\ j.kind = i.kind /\ j.space = q
  <2>1. Tail(i.todo) \in Seq(Steps)
    <3>1. i.todo # <<>>
      BY <1>2 DEF TodoOK
    <3> QED
      BY <1>2, <3>1
  <2> QED
    BY <1>2, <1>3, <2>1 DEF CreateJob, Space
<1> HIDE DEF j
<1>6. me' = me /\ maker' = me /\ job'[me] = j /\ creating'
  BY <1>1, <1>2, <1>5, CreatorStays
<1>7. tables \in [Page -> SUBSET Page]
  BY DEF SchedInv, TypeInv
<1>8. PageInv'
  <2>1. spacePages(job[maker].space)' = {q}
    <3>1. tables'[q] = {}
      BY <1>1, <1>3, <1>7
    <3> QED
      BY <1>3, <1>5, <1>6, <3>1 DEF spacePages
  <2>2. ASSUME NEW s \in Slot
        PROVE  spacePages(tasks[s].space)' = spacePages(tasks[s].space)
    <3>1. tasks[s].space # q
      BY <1>3, HeldIsUsed
    <3> QED
      BY <1>1, <1>7, <3>1 DEF spacePages
  <2>3. gathered' = gathered \cup {q} /\ i.pages \subseteq gathered
    BY <1>2, <1>4, <1>5, <1>6, <2>1 DEF gathered, spacePages
  <2>4. (job[maker].pages \cap spacePages(job[maker].space))' = {}
    BY <1>3, <1>5, <1>6, <2>1, <2>3, HeldIsUsed
  <2> QED
    BY <1>1, <1>2, <1>3, <1>6, <2>2, <2>3, <2>4, TakeInv
<1>9. used' \in SUBSET Page /\ tables' \in [Page -> SUBSET Page]
  BY <1>1, <1>3, <1>7 DEF SchedInv, TypeInv
<1> QED
  BY <1>1, <1>3, <1>5, <1>8, <1>9, GatherInv DEF Gathering

LEMMA MapInv == ASSUME SchedInv, paging_map_user_page PROVE SchedInv'
<1> DEFINE i == job[me]
           j == [i EXCEPT !.todo = Tail(@)]
           d == i.space
<1>1. /\ at("map") /\ job' = [job EXCEPT ![me] = j]
      /\ UNCHANGED <<tasks, current, nextPid, cpu, cr3, exited, script>>
  BY DEF paging_map_user_page, proceed, returns
<1>2. /\ creating /\ Calling /\ maker = me /\ i \in CreateJob /\ i.todo \in Seq(Steps)
      /\ Head(i.todo) = "map" /\ TodoOK(i.todo, i.kind, i.space)
      /\ i.pages \in SUBSET Page
      /\ gathered = i.pages \cup spacePages(d) /\ i.pages \cap spacePages(d) = {}
  BY <1>1, CreatorIs
<1>3. d # KernelSpace /\ d \in Page
  <2>1. d # KernelSpace
    BY <1>2, TodoHead
  <2> QED
    BY <1>2, <2>1 DEF CreateJob, Space
<1>4. /\ j \in CreateJob /\ j.pages = i.pages /\ j.todo = Tail(i.todo)
      /\ j.slot = i.slot /\ j.kind = i.kind /\ j.space = i.space
  <2>1. Tail(i.todo) \in Seq(Steps)
    <3>1. i.todo # <<>>
      BY <1>2 DEF TodoOK
    <3> QED
      BY <1>2, <3>1
  <2> QED
    BY <1>2, <2>1 DEF CreateJob
<1> HIDE DEF j
<1>5. me' = me /\ maker' = me /\ job'[me] = j /\ creating'
  BY <1>1, <1>2, <1>4, CreatorStays
<1>6. tables \in [Page -> SUBSET Page] /\ used \in SUBSET Page
  BY DEF SchedInv, TypeInv
<1>7. CASE UNCHANGED memory
  <2>1. \A x : spacePages(x)' = spacePages(x)
    BY <1>7 DEF spacePages, memory
  <2>2. gathered' = gathered /\ (job[maker].pages \cap spacePages(job[maker].space))' = {}
    BY <1>2, <1>4, <1>5, <2>1 DEF gathered
  <2>3. \A s \in Slot : held(s)' = held(s) /\ tasks'[s].pages = tasks[s].pages
                        /\ spacePages(tasks[s].space)' = spacePages(tasks[s].space)
    BY <1>1, <2>1 DEF held
  <2>4. UNION {held(s)' : s \in Slot} = UNION {held(s) : s \in Slot} /\ used' = used
    BY <1>7, <2>3 DEF memory
  <2>5. PageInv'
    BY <2>2, <2>3, <2>4 DEF SchedInv, PageInv
  <2>6. used' \in SUBSET Page /\ tables' \in [Page -> SUBSET Page]
    BY <1>6, <1>7 DEF memory
  <2> QED
    BY <1>1, <1>4, <2>5, <2>6, GatherInv DEF Gathering
<1>8. CASE /\ tables[d] = {}
           /\ free # {}
           /\ used' = used \cup {memory_alloc_page}
           /\ tables' = [tables EXCEPT ![d] = {memory_alloc_page}]
  <2> DEFINE q == memory_alloc_page
  <2>1. q \in Page /\ q \notin used
    BY <1>8, AllocIs
  <2> HIDE DEF q
  <2>2. used' = used \cup {q} /\ tables' = [tables EXCEPT ![d] = {q}] /\ tables[d] = {}
    BY <1>8 DEF q
  <2>3. spacePages(d) = {d} /\ {d} \cup tables'[d] = {d, q}
    BY <1>3, <1>6, <2>2 DEF spacePages
  <2>4. ASSUME NEW s \in Slot
        PROVE  spacePages(tasks[s].space)' = spacePages(tasks[s].space)
    <3>1. tasks[s].space # d
      <4>1. d \in gathered /\ gathered \cap held(s) = {}
        BY <1>2, <2>3 DEF SchedInv, PageInv
      <4> QED
        BY <1>3, <4>1, HeldIsUsed
    <3> QED
      BY <1>1, <1>6, <2>2, <3>1 DEF spacePages
  <2>5. gathered = i.pages \cup {d} /\ i.pages \cap {d} = {}
    BY <1>2, <2>3
  <2>6. spacePages(job[maker].space)' = {d, q}
    BY <1>3, <1>4, <1>5, <2>3 DEF spacePages
  <2>7. gathered' = gathered \cup {q}
    BY <1>4, <1>5, <2>5, <2>6 DEF gathered
  <2>8. (job[maker].pages \cap spacePages(job[maker].space))' = {}
    <3>1. q \notin i.pages
      BY <2>1, <2>5, HeldIsUsed
    <3> QED
      BY <1>4, <1>5, <2>5, <2>6, <3>1
  <2>9. PageInv'
    BY <1>1, <1>2, <1>5, <2>1, <2>2, <2>4, <2>7, <2>8, TakeInv
  <2>10. used' \in SUBSET Page /\ tables' \in [Page -> SUBSET Page]
    BY <1>3, <1>6, <2>1, <2>2
  <2> QED
    BY <1>1, <1>4, <2>9, <2>10, GatherInv DEF Gathering
<1> QED
  BY <1>7, <1>8 DEF paging_map_user_page

\* What was gathered goes back to the allocator, and nothing else does.
LEMMA RollbackInv == ASSUME SchedInv, rollback PROVE SchedInv'
<1> DEFINE i == job[me]
           d == i.space
<1>1. PICK step \in Gathering : at(step)
  BY DEF rollback, Gathering
<1>2. /\ creating /\ Calling /\ maker = me /\ i \in CreateJob /\ i.todo \in Seq(Steps)
      /\ Head(i.todo) = step /\ TodoOK(i.todo, i.kind, i.space)
      /\ gathered = i.pages \cup spacePages(d)
  BY <1>1, CreatorIs
<1>3. /\ UNCHANGED <<tasks, current, nextPid, cpu, cr3, exited>> /\ script' = script
      /\ job' = [job EXCEPT ![me] = NoCall]
      /\ used' = used \ (i.pages \cup spacePages(d))
      /\ tables' = IF d = KernelSpace THEN tables ELSE [tables EXCEPT ![d] = {}]
  BY DEF rollback, returns, destroy
<1>4. \A s : ~Unframed(s)
  <2>1. Len(i.todo) >= 4 /\ Len(i.todo) \in Nat
    BY <1>1, <1>2, TodoHead
  <2>2. Len(i.todo) # 1
    BY <2>1, ThreeOrMore, Zenon
  <2> HIDE DEF i
  <2> QED
    BY <1>2, <2>2 DEF Unframed, i
<1>5. NoCall \in Job /\ NoCall.call = "none"
  BY DEF Job, NoCall
<1>6. /\ PidInv' /\ CallInv' /\ CurrentInv' /\ ContextInv' /\ ExitInv'
      /\ job' \in [Callers -> Job] /\ ~creating'
  BY <1>2, <1>3, <1>4, <1>5, CallStep
<1>7. tables \in [Page -> SUBSET Page] /\ used \in SUBSET Page /\ d \in Space
  BY <1>2 DEF SchedInv, TypeInv, CreateJob
<1>8. TypeInv'
  <2>1. used' \in SUBSET Page /\ tables' \in [Page -> SUBSET Page]
    BY <1>3, <1>7
  <2> QED
    BY <1>3, <1>6, <2>1 DEF SchedInv, TypeInv
<1>9. CreateInv'
  BY <1>6 DEF CreateInv
<1>10. PageInv'
  <2>1. gathered' = {}
    BY <1>6 DEF gathered
  <2>2. ASSUME NEW s \in Slot
        PROVE  /\ spacePages(tasks[s].space)' = spacePages(tasks[s].space)
               /\ held(s)' = held(s) /\ gathered \cap held(s) = {}
    <3>1. gathered \cap held(s) = {}
      BY DEF SchedInv, PageInv
    <3>2. tasks[s].space # KernelSpace => tasks[s].space # d
      BY <1>2, <3>1, HeldIsUsed
    <3>3. spacePages(tasks[s].space)' = spacePages(tasks[s].space)
      <4>1. tasks'[s].space = tasks[s].space /\ tasks[s].space \in Space
        BY <1>3 DEF SchedInv, TypeInv, Task
      <4>2. tasks[s].space # KernelSpace => tables'[tasks[s].space] = tables[tasks[s].space]
        BY <1>3, <1>7, <3>2, <4>1 DEF Space
      <4> QED
        BY <4>1, <4>2 DEF spacePages
    <3> QED
      BY <1>3, <3>1, <3>3 DEF held
  <2>3. UNION {held(s)' : s \in Slot} = UNION {held(s) : s \in Slot}
    BY <2>2
  <2>4. (UNION {held(s) : s \in Slot}) \cap gathered = {}
    BY <2>2
  <2>5. used' = UNION {held(s)' : s \in Slot}
    BY <1>2, <1>3, <2>3, <2>4 DEF SchedInv, PageInv
  <2> QED
    BY <1>3, <1>6, <2>1, <2>2, <2>5 DEF SchedInv, PageInv
<1> QED
  BY <1>6, <1>8, <1>9, <1>10 DEF SchedInv

(***************************************************************************)
(* Steps of a call that write the slot it works on.                        *)
(***************************************************************************)

\* The slot is not the current one, and the call stays with it or is over.
LEMMA WriteSlot ==
    ASSUME SchedInv, Calling, me \in busy,
           NEW w \in Slot, w # current, NEW u \in Task,
           tasks' = [tasks EXCEPT ![w] = u], u.state # "Running",
           NEW j \in Job, job' = [job EXCEPT ![me] = j], j.call \in {"none", "create"},
           job[me].call = "create" => job[me].slot = w, j.call = "create" => j.slot = w,
           UNCHANGED <<current, cpu, cr3>>, nextPid' \in Nat, nextPid' >= nextPid,
           u.isUser => u.pid \in Callers /\ u.pid # me /\ job[u.pid].call = "none"
    PROVE  /\ tasks' \in [Slot -> Task] /\ tasks'[w] = u
           /\ \A s \in Slot : s # w => tasks'[s] = tasks[s]
           /\ job' \in [Callers -> Job] /\ job'[me] = j
           /\ j.call = "create" => creating' /\ maker' = me
           /\ j.call # "create" => ~creating'
           /\ CallInv' /\ CurrentInv'
           /\ \A s \in Slot : s # current /\ s # w =>
                 /\ tasks[s].state = "Unused" => tasks[s].savedEsp = Nowhere
                 /\ tasks[s].state = "Dead" => tasks[s].savedEsp.pid = tasks[s].pid
                 /\ tasks[s].state \in Live => tasks'[s].savedEsp = own(s)'
           /\ \A s : s # w => ~Unframed(s)'
<1>1. /\ tasks' \in [Slot -> Task] /\ tasks'[w] = u
      /\ \A s \in Slot : s # w => tasks'[s] = tasks[s]
  BY DEF SchedInv, TypeInv
<1>2. /\ job' \in [Callers -> Job] /\ me' = me /\ job'[me] = j
      /\ \A p \in Callers : p # me => job'[p] = job[p]
      /\ busy' = IF j.call \in {"create", "unblock"} THEN {me} ELSE {}
      /\ j.call = "create" => creating' /\ maker' = me
      /\ j.call # "create" => ~creating'
  BY OwnCall DEF Calling
<1>3. me \in Callers /\ (current = -1 => me = BootPid) /\ (me \in Pid => me < nextPid)
  BY MeIs, CallersAre DEF Calling, BootPid
<1>4. (\A s : s # w => ~Unframed(s)) /\ (\A s : s # w => ~Unframed(s)')
  <2>1. maker = me
    BY MakerIs
  <2> QED
    BY <1>2, <2>1 DEF Unframed, creating
<1>5. CallInv'
  <2>1. \A p, q \in busy' : p = q
    BY <1>2
  <2>2. ASSUME NEW p \in busy'
        PROVE  /\ current' = -1 => p = BootPid
               /\ current' # -1 => /\ p \in Supervisors
                                   /\ \E r \in Slot : /\ tasks'[r].pid = p
                                                      /\ tasks'[r].state \in {"Ready", "Running"}
               /\ job'[p].call = "unblock" => tasks'[job'[p].slot].state = "Blocked"
    <3>1. p = me /\ job'[p] = j
      BY <1>2, <2>2
    <3>2. current # -1 => tasks'[current] = tasks[current]
      BY <1>1 DEF Calling
    <3> QED
      BY <1>3, <3>1, <3>2 DEF Calling
  <2>3. ASSUME NEW p \in Pid, p >= nextPid' PROVE job'[p].call = "none"
    <3>1. nextPid \in Nat
      BY SchedulerBounds DEF SchedInv, TypeInv, IdlePid
    <3>2. p \in Callers /\ p \in Nat /\ p >= nextPid
      BY <2>3, <3>1, CallersAre
    <3>3. p # me
      BY <1>3, <3>1, <3>2
    <3> QED
      BY <1>2, <3>2, <3>3 DEF SchedInv, CallInv
  <2>4. ASSUME NEW s \in Slot, tasks'[s].isUser PROVE job'[tasks'[s].pid].call = "none"
    <3>1. CASE s = w
      BY <1>1, <1>2, <2>4, <3>1
    <3>2. CASE s # w
      <4>1. tasks[s].isUser /\ tasks'[s] = tasks[s] /\ tasks[s].state # "Unused"
        BY <1>1, <2>4, <3>2 DEF SchedInv, PidInv
      <4>2. job[tasks[s].pid].call = "none" /\ tasks[s].pid \in Callers /\ tasks[s].pid # me
        BY <4>1, SlotPid, CallersAre DEF SchedInv, CallInv, Calling
      <4> QED
        BY <1>2, <4>1, <4>2
    <3> QED
      BY <3>1, <3>2
  <2> QED
    BY <2>1, <2>2, <2>3, <2>4 DEF CallInv
<1>6. CurrentInv'
  <2>1. ASSUME NEW s \in Slot, tasks'[s].state = "Running" PROVE s = current'
    <3>1. s # w
      BY <1>1, <2>1
    <3> QED
      BY <1>1, <2>1, <3>1 DEF SchedInv, CurrentInv
  <2>2. current' = -1 => cpu' = Kernel(BootPid) /\ job'[BootPid].call \in {"none", "create"}
    BY <1>2, <1>3 DEF SchedInv, CurrentInv
  <2>3. ASSUME current' # -1
        PROVE  /\ cpu' = own(current)' /\ cr3' = tasks'[current'].space
               /\ tasks'[current'].state = "Running" /\ ~Unframed(current)'
    <3>1. current \in Slot /\ tasks'[current] = tasks[current] /\ current # -1
      BY <1>1, <2>3 DEF Calling
    <3>2. own(current)' = own(current)
      BY <3>1 DEF own
    <3>3. ~Unframed(current)'
      BY <1>4 DEF Unframed
    <3> QED
      BY <3>1, <3>2, <3>3 DEF SchedInv, CurrentInv, Calling
  <2> QED
    BY <2>1, <2>2, <2>3 DEF CurrentInv
<1>7. ASSUME NEW s \in Slot, s # current, s # w
      PROVE  /\ tasks[s].state = "Unused" => tasks[s].savedEsp = Nowhere
             /\ tasks[s].state = "Dead" => tasks[s].savedEsp.pid = tasks[s].pid
             /\ tasks[s].state \in Live => tasks'[s].savedEsp = own(s)'
  <2>1. tasks'[s] = tasks[s] /\ own(s)' = own(s) /\ ~Unframed(s)
    BY <1>1, <1>4, <1>7 DEF own
  <2> QED
    BY <1>7, <2>1 DEF SchedInv, ContextInv
<1> QED
  BY <1>1, <1>2, <1>4, <1>5, <1>6, <1>7

LEMMA WakeInv == ASSUME SchedInv, wake PROVE SchedInv'
<1>1. cpu # Nowhere /\ job[me].call = "unblock"
  BY DEF wake, inCall
<1>2. me \in busy
  BY <1>1, MeIs DEF busy
<1>3. Calling /\ ~creating /\ maker = me
  BY <1>1, <1>2, BusyCalls, MakerIs DEF creating
<1>4. PICK w \in Slot : w = job[me].slot /\ tasks[w].state = "Blocked"
  <2>1. job[me].slot \in Slot
    BY <1>1, MeIs DEF Job, NoCall, CreateJob
  <2> QED
    BY <1>1, <1>2, <2>1 DEF SchedInv, CallInv
<1> DEFINE u == [tasks[w] EXCEPT !.state = "Ready"]
<1>5. w # current /\ w # 0 /\ tasks[w] \in Task
  BY <1>3, <1>4, SlotZero DEF Calling, SchedInv, PidInv, TypeInv
<1>6. /\ u \in Task /\ u.state = "Ready" /\ u.pid = tasks[w].pid /\ u.isUser = tasks[w].isUser
      /\ u.pages = tasks[w].pages /\ u.space = tasks[w].space
      /\ u.savedEsp = tasks[w].savedEsp
  BY <1>5 DEF Task, States
<1>7. /\ tasks' = [tasks EXCEPT ![w] = u] /\ job' = [job EXCEPT ![me] = NoCall]
      /\ UNCHANGED <<current, cpu, cr3>> /\ UNCHANGED <<nextPid, memory, script, exited>>
  BY <1>4 DEF wake, returns
<1>8. NoCall \in Job /\ NoCall.call = "none"
  BY DEF Job, NoCall
<1>9. u.isUser => u.pid \in Callers /\ u.pid # me /\ job[u.pid].call = "none"
  BY <1>3, <1>4, <1>6, SlotPid, CallersAre DEF Calling, SchedInv, CallInv
<1>10. nextPid' \in Nat /\ nextPid' >= nextPid
  BY <1>7, SchedulerBounds DEF SchedInv, TypeInv, IdlePid
<1> HIDE DEF u
<1>11. /\ tasks' \in [Slot -> Task] /\ tasks'[w] = u
       /\ \A s \in Slot : s # w => tasks'[s] = tasks[s]
       /\ job' \in [Callers -> Job] /\ ~creating' /\ CallInv' /\ CurrentInv'
       /\ \A s \in Slot : s # current /\ s # w =>
             /\ tasks[s].state = "Unused" => tasks[s].savedEsp = Nowhere
             /\ tasks[s].state = "Dead" => tasks[s].savedEsp.pid = tasks[s].pid
             /\ tasks[s].state \in Live => tasks'[s].savedEsp = own(s)'
       /\ \A s : s # w => ~Unframed(s)'
  BY <1>1, <1>2, <1>3, <1>4, <1>5, <1>6, <1>7, <1>8, <1>9, <1>10, WriteSlot
<1>12. \A s \in Slot : /\ tasks'[s].pid = tasks[s].pid /\ tasks'[s].isUser = tasks[s].isUser
                       /\ tasks'[s].pages = tasks[s].pages /\ tasks'[s].space = tasks[s].space
                       /\ tasks'[s].savedEsp = tasks[s].savedEsp
                       /\ tasks'[s].state = IF s = w THEN "Ready" ELSE tasks[s].state
  BY <1>6, <1>11
<1>13. TypeInv'
  BY <1>7, <1>11 DEF SchedInv, TypeInv, memory
<1>14. PidInv'
  <2>1. tasks'[0].pid = IdlePid /\ tasks'[0].state \in {"Ready", "Running"} /\ ~tasks'[0].isUser
    BY <1>12, SlotZero DEF SchedInv, PidInv
  <2>2. \A s \in Slot : (tasks'[s].state = "Unused") <=> (tasks[s].state = "Unused")
    BY <1>4, <1>12
  <2> QED
    BY <1>7, <1>12, <2>1, <2>2 DEF SchedInv, PidInv
<1>15. ContextInv'
  <2>1. \A s : ~Unframed(s)'
    BY <1>11 DEF Unframed
  <2>2. tasks'[w].savedEsp = own(w)'
    <3>1. tasks[w].savedEsp = own(w)
      BY <1>3, <1>4, <1>5 DEF SchedInv, ContextInv, Live, Unframed
    <3>2. own(w)' = own(w)
      BY <1>4, <1>12 DEF own
    <3> QED
      BY <1>4, <1>12, <3>1, <3>2
  <2>3. ASSUME NEW s \in Slot, s # current, s # w
        PROVE  /\ tasks'[s].state = "Unused" => tasks'[s].savedEsp = Nowhere
               /\ tasks'[s].state = "Dead" => tasks'[s].savedEsp.pid = tasks'[s].pid
               /\ tasks'[s].state \in Live => tasks'[s].savedEsp = own(s)'
    BY <1>11, <2>3
  <2>4. tasks'[w].state = "Ready" /\ current' = current
    BY <1>4, <1>7, <1>12
  <2> QED
    BY <2>1, <2>2, <2>3, <2>4 DEF ContextInv
<1>16. ExitInv'
  BY <1>4, <1>7, <1>12 DEF SchedInv, ExitInv
<1>17. CreateInv'
  BY <1>11 DEF CreateInv
<1>18. PageInv'
  <2>1. gathered = {} /\ gathered' = {}
    BY <1>3, <1>11 DEF gathered
  <2> QED
    BY <1>7, <1>11, <1>12, <2>1, PagesStay DEF SchedInv
<1> QED
  BY <1>11, <1>13, <1>14, <1>15, <1>16, <1>17, <1>18 DEF SchedInv

\* reclaimSlot: what the dead task of the slot held goes back to the allocator.
LEMMA ReclaimInv == ASSUME SchedInv, reclaimSlot PROVE SchedInv'
<1>0. PICK w \in Slot : w = job[me].slot
  <2>1. at("reclaim")
    BY DEF reclaimSlot
  <2> QED
    BY <2>1, CreatorIs
<1> DEFINE i == job[me]
           u == [tasks[w] EXCEPT !.pages = {}, !.isUser = FALSE, !.space = KernelSpace]
           j == [i EXCEPT !.todo = Tail(@)]
           d == IF tasks[w].isUser THEN tasks[w].space ELSE KernelSpace
<1>1. /\ at("reclaim") /\ tasks' = [tasks EXCEPT ![w] = u] /\ job' = [job EXCEPT ![me] = j]
      /\ UNCHANGED <<current, cpu, cr3>> /\ UNCHANGED <<nextPid, script, exited>>
      /\ used' = used \ (tasks[w].pages \cup spacePages(d))
      /\ tables' = IF d = KernelSpace THEN tables ELSE [tables EXCEPT ![d] = {}]
  BY <1>0 DEF reclaimSlot, proceed, returns, destroy
<1>2. /\ creating /\ Calling /\ maker = me /\ me \in busy /\ i \in CreateJob
      /\ i.call = "create" /\ i.todo \in Seq(Steps)
      /\ Head(i.todo) = "reclaim" /\ TodoOK(i.todo, i.kind, i.space) /\ i.slot = w
      /\ gathered = i.pages \cup spacePages(i.space) /\ i.pages \cap spacePages(i.space) = {}
  BY <1>0, <1>1, CreatorIs
<1>3. Len(i.todo) = 3
  BY <1>2, TodoHead
<1>4. /\ tasks[w].state \in {"Unused", "Dead"} /\ nextPid <= MaxPid
      /\ i.kind = "kernel" => i.pages = {} /\ i.space = KernelSpace
      /\ ~Unframed(w)
  BY <1>2, <1>3 DEF SchedInv, CreateInv, Unframed
<1>5. w # current /\ w # 0 /\ tasks[w] \in Task
  BY <1>2, <1>4, SlotZero DEF Calling, SchedInv, PidInv, TypeInv
<1>6. /\ u \in Task /\ u.state = tasks[w].state /\ u.pid = tasks[w].pid /\ u.isUser = FALSE
      /\ u.pages = {} /\ u.space = KernelSpace /\ u.savedEsp = tasks[w].savedEsp
  BY <1>5 DEF Task, Space
<1>7. /\ Tail(i.todo) \in Seq(Steps) /\ Len(Tail(i.todo)) = 2
      /\ TodoOK(Tail(i.todo), i.kind, i.space)
  <2>1. Len(i.todo) >= 2 /\ Head(i.todo) # "space"
    BY <1>2, <1>3
  <2>2. /\ Tail(i.todo) \in Seq(Steps) /\ Len(Tail(i.todo)) = Len(i.todo) - 1
        /\ TodoOK(Tail(i.todo), i.kind, i.space)
    <3> HIDE DEF i
    <3> QED
      BY <1>2, <2>1, TodoTail
  <2> QED
    BY <1>3, <2>2
<1>8. /\ j \in Job /\ j.call = "create" /\ j.pages = i.pages
      /\ j.todo = Tail(i.todo) /\ j.slot = w /\ j.kind = i.kind /\ j.space = i.space
  <2>1. j \in CreateJob
    BY <1>2, <1>7 DEF CreateJob
  <2>2. /\ j.call = "create" /\ j.pages = i.pages
        /\ j.todo = Tail(i.todo) /\ j.slot = w /\ j.kind = i.kind /\ j.space = i.space
    BY <1>2 DEF CreateJob
  <2> QED
    BY <2>1, <2>2 DEF Job
<1>9. d = tasks[w].space /\ d \in Space /\ i.space \in Space
  BY <1>2, <1>5 DEF SchedInv, PidInv, Task, CreateJob
<1>10. nextPid' \in Nat /\ nextPid' >= nextPid
  BY <1>1, SchedulerBounds DEF SchedInv, TypeInv, IdlePid
<1> HIDE DEF u, j, d
<1>11. /\ tasks' \in [Slot -> Task] /\ tasks'[w] = u
       /\ \A s \in Slot : s # w => tasks'[s] = tasks[s]
       /\ job' \in [Callers -> Job] /\ job'[me] = j /\ creating' /\ maker' = me
       /\ CallInv' /\ CurrentInv'
       /\ \A s \in Slot : s # current /\ s # w =>
             /\ tasks[s].state = "Unused" => tasks[s].savedEsp = Nowhere
             /\ tasks[s].state = "Dead" => tasks[s].savedEsp.pid = tasks[s].pid
             /\ tasks[s].state \in Live => tasks'[s].savedEsp = own(s)'
       /\ \A s : s # w => ~Unframed(s)'
  <2>1. u.state # "Running"
    BY <1>4, <1>6
  <2> QED
    BY <1>1, <1>2, <1>5, <1>6, <1>8, <1>10, <2>1, WriteSlot
<1>12. \A s \in Slot : /\ tasks'[s].pid = tasks[s].pid
                       /\ tasks'[s].state = tasks[s].state
                       /\ tasks'[s].savedEsp = tasks[s].savedEsp
                       /\ tasks'[s].isUser => tasks[s].isUser /\ s # w
  BY <1>6, <1>11
<1>13. tables \in [Page -> SUBSET Page] /\ used \in SUBSET Page
  BY DEF SchedInv, TypeInv
<1>14. TypeInv'
  <2>1. used' \in SUBSET Page /\ tables' \in [Page -> SUBSET Page]
    BY <1>1, <1>13
  <2> QED
    BY <1>1, <1>11, <2>1 DEF SchedInv, TypeInv
<1>15. PidInv'
  <2>1. tasks'[0].pid = IdlePid /\ tasks'[0].state \in {"Ready", "Running"} /\ ~tasks'[0].isUser
    BY <1>5, <1>12, SlotZero DEF SchedInv, PidInv
  <2>2. ASSUME NEW s \in Slot
        PROVE  /\ tasks'[s].state = "Unused" => tasks'[s].pid = 0 /\ ~tasks'[s].isUser
               /\ tasks'[s].state # "Unused" => tasks'[s].pid \in 1..(nextPid' - 1)
               /\ ~tasks'[s].isUser => tasks'[s].space = KernelSpace
    <3>1. CASE s = w
      BY <1>1, <1>6, <1>11, <1>12, <3>1 DEF SchedInv, PidInv
    <3>2. CASE s # w
      BY <1>1, <1>11, <3>2 DEF SchedInv, PidInv
    <3> QED
      BY <3>1, <3>2
  <2>3. \A r, s \in Slot : tasks'[r].pid = tasks'[s].pid /\ tasks'[r].pid # 0 => r = s
    BY <1>12 DEF SchedInv, PidInv
  <2> QED
    BY <2>1, <2>2, <2>3 DEF PidInv
<1>16. ContextInv'
  <2>1. \A s : ~Unframed(s)'
    <3>1. job'[maker'] = j
      BY <1>11
    <3>2. Len(j.todo) = 2
      BY <1>7, <1>8
    <3>3. Len(job'[maker'].todo) # 1
      BY <3>1, <3>2
    <3> QED
      BY <3>3 DEF Unframed
  <2>2. /\ tasks'[w].state = "Unused" => tasks'[w].savedEsp = Nowhere
        /\ tasks'[w].state = "Dead" => tasks'[w].savedEsp.pid = tasks'[w].pid
        /\ tasks'[w].state \notin Live
    BY <1>4, <1>5, <1>12 DEF SchedInv, ContextInv, Live
  <2>3. ASSUME NEW s \in Slot, s # current, s # w
        PROVE  /\ tasks'[s].state = "Unused" => tasks'[s].savedEsp = Nowhere
               /\ tasks'[s].state = "Dead" => tasks'[s].savedEsp.pid = tasks'[s].pid
               /\ tasks'[s].state \in Live => tasks'[s].savedEsp = own(s)'
    BY <1>11, <2>3
  <2>4. current' = current
    BY <1>1
  <2> QED
    BY <2>1, <2>2, <2>3, <2>4 DEF ContextInv
<1>17. ExitInv'
  BY <1>1, <1>12 DEF SchedInv, ExitInv
<1>18. CreateInv'
  <2>1. /\ tasks'[j.slot].state \in {"Unused", "Dead"} /\ nextPid' <= MaxPid
        /\ tasks'[j.slot].pages = {} /\ tasks'[j.slot].space = KernelSpace
        /\ ~tasks'[j.slot].isUser
    BY <1>1, <1>4, <1>6, <1>8, <1>11
  <2>2. job'[maker'] = j /\ TodoOK(j.todo, j.kind, j.space) /\ Len(j.todo) = 2
    BY <1>7, <1>8, <1>11
  <2>3. j.kind = "kernel" => j.pages = {} /\ j.space = KernelSpace
    BY <1>4, <1>8
  <2> QED
    BY <2>1, <2>2, <2>3 DEF CreateInv
<1>19. PageInv'
  <2>1. held(w) = tasks[w].pages \cup spacePages(d) /\ held(w)' = {}
        /\ tasks'[w].pages = {} /\ spacePages(tasks[w].space)' = {}
    BY <1>6, <1>9, <1>11 DEF held, spacePages
  <2>2. \A s \in Slot : s # w => held(w) \cap held(s) = {}
    BY DEF SchedInv, PageInv
  <2>3. gathered \cap held(w) = {}
    BY DEF SchedInv, PageInv
  <2>4. ASSUME NEW e \in Space, e # KernelSpace => e # d
        PROVE  e # KernelSpace => tables'[e] = tables[e]
    BY <1>1, <1>9, <1>13, <2>4 DEF Space
  <2>5. ASSUME NEW s \in Slot, s # w
        PROVE  /\ spacePages(tasks[s].space)' = spacePages(tasks[s].space)
               /\ held(s)' = held(s) /\ tasks'[s].pages = tasks[s].pages
    <3>1. tasks[s].space \in Space /\ tasks'[s] = tasks[s]
      BY <1>11, <2>5 DEF SchedInv, TypeInv, Task
    <3>2. tasks[s].space # KernelSpace => tasks[s].space # d
      <4>1. SUFFICES ASSUME tasks[s].space # KernelSpace, tasks[s].space = d PROVE FALSE
        OBVIOUS
      <4>2. d \in held(s) /\ d \in held(w)
        BY <1>9, <4>1, HeldIsUsed
      <4> QED
        BY <2>2, <2>5, <4>2
    <3>3. tasks[s].space # KernelSpace => tables'[tasks[s].space] = tables[tasks[s].space]
      BY <2>4, <3>1, <3>2
    <3> QED
      BY <3>1, <3>3 DEF spacePages, held
  <2>6. gathered' = gathered /\ (job[maker].pages \cap spacePages(job[maker].space))' = {}
    <3>1. i.space # KernelSpace => i.space # d
      <4>1. SUFFICES ASSUME i.space # KernelSpace, i.space = d PROVE FALSE
        OBVIOUS
      <4>2. d \in gathered /\ d \in held(w)
        BY <1>2, <1>9, <4>1, HeldIsUsed
      <4> QED
        BY <2>3, <4>2
    <3>2. i.space # KernelSpace => tables'[i.space] = tables[i.space]
      BY <1>9, <2>4, <3>1
    <3>3. spacePages(job[maker].space)' = spacePages(i.space) /\ job'[maker'].pages = i.pages
      BY <1>8, <1>11, <3>2 DEF spacePages
    <3> QED
      BY <1>2, <1>11, <3>3 DEF gathered
  <2>7. UNION {held(s)' : s \in Slot} = (UNION {held(s) : s \in Slot}) \ held(w)
    <3>1. ASSUME NEW q, NEW s \in Slot, q \in held(s)' PROVE q \in held(s) /\ q \notin held(w)
      BY <2>1, <2>2, <2>5, <3>1
    <3>2. ASSUME NEW q, NEW s \in Slot, q \in held(s), q \notin held(w) PROVE q \in held(s)'
      BY <2>5, <3>2
    <3> QED
      BY <3>1, <3>2
  <2>8. used' = gathered' \cup UNION {held(s)' : s \in Slot}
    BY <1>1, <2>1, <2>3, <2>6, <2>7 DEF SchedInv, PageInv
  <2>9. \A s \in Slot : tasks'[s].pages \cap spacePages(tasks[s].space)' = {}
    BY <2>1, <2>5 DEF SchedInv, PageInv
  <2>10. \A r, s \in Slot : r # s => held(r)' \cap held(s)' = {}
    BY <2>1, <2>5 DEF SchedInv, PageInv
  <2>11. \A s \in Slot : gathered' \cap held(s)' = {}
    BY <2>1, <2>5, <2>6 DEF SchedInv, PageInv
  <2> QED
    BY <2>6, <2>8, <2>9, <2>10, <2>11 DEF PageInv
<1> QED
  BY <1>11, <1>14, <1>15, <1>16, <1>17, <1>18, <1>19 DEF SchedInv

\* publish: what was gathered becomes the new task's, under a pid nobody has had;
\* the context the slot held, if any, no longer belongs to a slot.
LEMMA PublishInv == ASSUME SchedInv, publish PROVE SchedInv'
<1>0. PICK w \in Slot : w = job[me].slot
  <2>1. at("publish")
    BY DEF publish
  <2> QED
    BY <2>1, CreatorIs
<1> DEFINE i == job[me]
           u == [tasks[w] EXCEPT !.pid = nextPid, !.state = "Ready",
                                 !.isUser = i.kind # "kernel",
                                 !.pages = i.pages, !.space = i.space]
           j == [[i EXCEPT !.pages = {}, !.space = KernelSpace] EXCEPT !.todo = Tail(@)]
<1>1. /\ at("publish") /\ tasks' = [tasks EXCEPT ![w] = u] /\ job' = [job EXCEPT ![me] = j]
      /\ UNCHANGED <<current, cpu, cr3>> /\ UNCHANGED <<memory, script, exited>>
      /\ nextPid' = nextPid + 1
  BY <1>0 DEF publish, proceed, returns
<1>2. /\ creating /\ Calling /\ maker = me /\ me \in busy /\ i \in CreateJob
      /\ i.call = "create" /\ i.todo \in Seq(Steps)
      /\ Head(i.todo) = "publish" /\ TodoOK(i.todo, i.kind, i.space)
      /\ i.slot = w /\ i.pages \in SUBSET Page /\ i.space \in Space
      /\ gathered = i.pages \cup spacePages(i.space) /\ i.pages \cap spacePages(i.space) = {}
  BY <1>0, <1>1, CreatorIs
<1>3. Len(i.todo) = 2
  BY <1>2, TodoHead
<1>4. /\ tasks[w].state \in {"Unused", "Dead"} /\ nextPid <= MaxPid
      /\ tasks[w].pages = {} /\ tasks[w].space = KernelSpace
      /\ i.kind = "kernel" => i.space = KernelSpace
      /\ ~Unframed(w)
  BY <1>2, <1>3 DEF SchedInv, CreateInv, Unframed
<1>5. w # current /\ w # 0 /\ tasks[w] \in Task
  BY <1>2, <1>4, SlotZero DEF Calling, SchedInv, PidInv, TypeInv
<1>6. nextPid \in Nat /\ nextPid \in 2..MaxPid /\ nextPid \in Pid /\ nextPid # me
  <2>1. nextPid \in 2..(MaxPid + 1)
    BY DEF SchedInv, TypeInv, IdlePid
  <2>2. nextPid \in 2..MaxPid /\ nextPid \in Nat
    BY <1>4, <2>1, SchedulerBounds
  <2>3. nextPid \in Pid
    BY <2>2 DEF Pid, IdlePid
  <2>4. nextPid # me
    BY <1>2, <2>2, MeIs DEF BootPid, Calling
  <2> QED
    BY <2>2, <2>3, <2>4
<1>7. /\ u \in Task /\ u.state = "Ready" /\ u.pid = nextPid /\ u.savedEsp = tasks[w].savedEsp
      /\ u.isUser = (i.kind # "kernel") /\ u.pages = i.pages /\ u.space = i.space
  <2>1. (i.kind # "kernel") \in BOOLEAN /\ nextPid \in 0..MaxPid
    BY <1>6
  <2> QED
    BY <1>2, <1>5, <2>1 DEF Task, States
<1>8. u.isUser <=> i.kind # "kernel"
  BY <1>7
<1>9. Tail(i.todo) \in Seq(Steps) /\ Len(Tail(i.todo)) = 1 /\ TodoOK(Tail(i.todo), i.kind, KernelSpace)
  <2>1. Len(i.todo) >= 2
    BY <1>3
  <2>2. /\ Tail(i.todo) \in Seq(Steps) /\ Len(Tail(i.todo)) = Len(i.todo) - 1
        /\ TodoOK(Tail(i.todo), i.kind, KernelSpace)
    <3> HIDE DEF i
    <3> QED
      BY <1>2, <1>3, <2>1, TodoTail
  <2> QED
    BY <1>3, <2>2
<1>10. /\ j \in Job /\ j.call = "create" /\ j.pages = {}
       /\ j.todo = Tail(i.todo) /\ j.slot = w /\ j.kind = i.kind /\ j.space = KernelSpace
  <2>1. j \in CreateJob
    BY <1>2, <1>9 DEF CreateJob, Space
  <2>2. /\ j.call = "create" /\ j.pages = {}
        /\ j.todo = Tail(i.todo) /\ j.slot = w /\ j.kind = i.kind /\ j.space = KernelSpace
    BY <1>2 DEF CreateJob
  <2> QED
    BY <2>1, <2>2 DEF Job
<1>11. nextPid' \in Nat /\ nextPid' >= nextPid
  BY <1>1, <1>6
<1> HIDE DEF i, u, j
<1>12. /\ tasks' \in [Slot -> Task] /\ tasks'[w] = u
       /\ \A s \in Slot : s # w => tasks'[s] = tasks[s]
       /\ job' \in [Callers -> Job] /\ job'[me] = j /\ creating' /\ maker' = me
       /\ CallInv' /\ CurrentInv'
       /\ \A s \in Slot : s # current /\ s # w =>
             /\ tasks[s].state = "Unused" => tasks[s].savedEsp = Nowhere
             /\ tasks[s].state = "Dead" => tasks[s].savedEsp.pid = tasks[s].pid
             /\ tasks[s].state \in Live => tasks'[s].savedEsp = own(s)'
       /\ \A s : s # w => ~Unframed(s)'
  <2>1. u.state # "Running"
    BY <1>7
  <2>2. u.isUser => u.pid \in Callers /\ u.pid # me /\ job[u.pid].call = "none"
    BY <1>6, <1>7, CallersAre DEF SchedInv, CallInv
  <2>3. w # current /\ u \in Task
    BY <1>5, <1>7
  <2>4. UNCHANGED <<current, cpu, cr3>>
    BY <1>1
  <2>5. tasks' = [tasks EXCEPT ![w] = u] /\ job' = [job EXCEPT ![me] = j]
    BY <1>1
  <2>6. Calling /\ me \in busy
    BY <1>2
  <2>7. job[me].call = "create" => job[me].slot = w
    BY <1>0
  <2>8. j \in Job /\ j.call = "create" /\ j.call \in {"none", "create"}
    BY <1>10
  <2>9. j.call = "create" => j.slot = w
    BY <1>10
  <2>10. /\ tasks' \in [Slot -> Task] /\ tasks'[w] = u
         /\ \A s \in Slot : s # w => tasks'[s] = tasks[s]
         /\ job' \in [Callers -> Job] /\ job'[me] = j
         /\ j.call = "create" => creating' /\ maker' = me
         /\ j.call # "create" => ~creating'
         /\ CallInv' /\ CurrentInv'
         /\ \A s \in Slot : s # current /\ s # w =>
               /\ tasks[s].state = "Unused" => tasks[s].savedEsp = Nowhere
               /\ tasks[s].state = "Dead" => tasks[s].savedEsp.pid = tasks[s].pid
               /\ tasks[s].state \in Live => tasks'[s].savedEsp = own(s)'
         /\ \A s : s # w => ~Unframed(s)'
    BY <1>11, <2>1, <2>2, <2>3, <2>4, <2>5, <2>6, <2>7, <2>8, <2>9, WriteSlot
  <2> QED
    BY <2>8, <2>10
<1>13. TypeInv'
  <2>1. nextPid' \in (IdlePid + 1)..(MaxPid + 1)
    BY <1>1, <1>6, SchedulerBounds DEF IdlePid
  <2> QED
    BY <1>1, <1>12, <2>1 DEF SchedInv, TypeInv, memory
<1>14. \A s \in Slot : tasks[s].pid # nextPid
  BY <1>6 DEF SchedInv, PidInv
<1>15. PidInv'
  <2>1. tasks'[0].pid = IdlePid /\ tasks'[0].state \in {"Ready", "Running"} /\ ~tasks'[0].isUser
    BY <1>5, <1>12, SlotZero DEF SchedInv, PidInv
  <2>2. ASSUME NEW s \in Slot
        PROVE  /\ tasks'[s].state = "Unused" => tasks'[s].pid = 0 /\ ~tasks'[s].isUser
               /\ tasks'[s].state # "Unused" => tasks'[s].pid \in 1..(nextPid' - 1)
               /\ ~tasks'[s].isUser => tasks'[s].space = KernelSpace
    <3>1. CASE s = w
      <4>1. tasks'[s].state = "Ready" /\ tasks'[s].pid = nextPid /\ tasks'[s].space = i.space
            /\ (tasks'[s].isUser <=> i.kind # "kernel")
        BY <1>7, <1>8, <1>12, <3>1
      <4>2. nextPid \in 1..(nextPid' - 1)
        BY <1>1, <1>6
      <4> QED
        BY <1>4, <4>1, <4>2
    <3>2. CASE s # w
      <4>1. tasks'[s] = tasks[s]
        BY <1>12, <3>2
      <4>2. \A p \in 1..(nextPid - 1) : p \in 1..(nextPid' - 1)
        BY <1>1, <1>6
      <4> QED
        BY <4>1, <4>2 DEF SchedInv, PidInv
    <3> QED
      BY <3>1, <3>2
  <2>3. \A r, s \in Slot : tasks'[r].pid = tasks'[s].pid /\ tasks'[r].pid # 0 => r = s
    BY <1>7, <1>12, <1>14 DEF SchedInv, PidInv
  <2> QED
    BY <2>1, <2>2, <2>3 DEF PidInv
<1>16. ContextInv'
  <2>1. Ghost(tasks[w].savedEsp)'
    <3>1. CASE tasks[w].state = "Unused"
      <4>1. tasks'[w].savedEsp = Nowhere
        BY <1>4, <1>5, <1>7, <1>12, <3>1 DEF SchedInv, ContextInv
      <4> QED
        BY <4>1 DEF Ghost
    <3>2. CASE tasks[w].state = "Dead"
      <4>1. tasks'[w].savedEsp.pid = tasks[w].pid
        BY <1>4, <1>5, <1>7, <1>12, <3>2 DEF SchedInv, ContextInv
      <4>2. PICK p \in Pid : p = tasks[w].pid /\ p \in Nat /\ p < nextPid /\ p # 0
        BY <3>2, SlotPid, CallersAre
      <4>3. p < nextPid'
        BY <1>1, <1>6, <4>2
      <4>4. \A s \in Slot : tasks'[s].pid # p
        <5>1. \A s \in Slot : s # w => tasks[s].pid # p
          BY <4>2 DEF SchedInv, PidInv
        <5>2. tasks'[w].pid # p
          BY <1>7, <1>12, <1>14, <4>2
        <5> QED
          BY <1>12, <5>1, <5>2
      <4>5. tasks'[w].savedEsp.pid = p
        BY <4>1, <4>2
      <4> QED
        BY <4>3, <4>4, <4>5 DEF Ghost
    <3> QED
      BY <1>4, <3>1, <3>2
  <2>2. tasks'[w].state = "Ready" /\ current' = current
    BY <1>1, <1>7, <1>12
  <2>3. Unframed(w)'
    <3>1. job'[maker'].slot = w /\ Len(job'[maker'].todo) = 1
      BY <1>9, <1>10, <1>12
    <3> QED
      BY <1>12, <3>1 DEF Unframed
  <2>4. ASSUME NEW s \in Slot, s # current, s # w
        PROVE  /\ tasks'[s].state = "Unused" => tasks'[s].savedEsp = Nowhere
               /\ tasks'[s].state = "Dead" => tasks'[s].savedEsp.pid = tasks'[s].pid
               /\ tasks'[s].state \in Live => tasks'[s].savedEsp = own(s)'
               /\ ~Unframed(s)'
    BY <1>12, <2>4
  <2> QED
    BY <2>1, <2>2, <2>3, <2>4 DEF ContextInv
<1>17. ExitInv'
  <2> SUFFICES ASSUME NEW p \in exited
               PROVE  /\ p < nextPid'
                      /\ \A s \in Slot : tasks'[s].pid = p => tasks'[s].state = "Dead"
    BY <1>1 DEF ExitInv
  <2>1. p < nextPid /\ \A s \in Slot : tasks[s].pid = p => tasks[s].state = "Dead"
    BY DEF SchedInv, ExitInv
  <2>2. p \in Nat
    BY CallersAre DEF SchedInv, TypeInv
  <2>3. p < nextPid' /\ p # nextPid
    BY <1>1, <1>6, <2>1, <2>2
  <2> QED
    BY <1>7, <1>12, <2>1, <2>3
<1>18. CreateInv'
  <2>1. /\ tasks'[j.slot].state # "Unused" /\ j.slot # 0 /\ tasks'[j.slot].pid # maker'
        /\ (tasks'[j.slot].isUser <=> j.kind # "kernel") /\ job'[maker'] = j
    BY <1>5, <1>6, <1>7, <1>8, <1>10, <1>12
  <2>2. TodoOK(j.todo, j.kind, j.space) /\ Len(j.todo) = 1
    BY <1>9, <1>10
  <2>3. ~(Len(j.todo) >= 2) /\ Len(j.todo) # 2
    BY <2>2
  <2> QED
    BY <1>10, <2>1, <2>2, <2>3 DEF CreateInv
<1>19. PageInv'
  <2>1. \A e : e # KernelSpace => ({e} \cup tables'[e] = {e} \cup tables[e])
    BY <1>1 DEF memory
  <2>2. held(w) = {}
    BY <1>4 DEF held, spacePages
  <2>3. tasks'[w].pages = i.pages /\ spacePages(tasks[w].space)' = spacePages(i.space)
    BY <1>7, <1>12, <2>1 DEF spacePages
  <2>4. held(w)' = gathered
    BY <1>2, <2>3 DEF held
  <2>5. \A s \in Slot : s # w => /\ held(s)' = held(s) /\ tasks'[s].pages = tasks[s].pages
                                 /\ spacePages(tasks[s].space)' = spacePages(tasks[s].space)
    BY <1>1, <1>12 DEF held, spacePages, memory
  <2>6. gathered' = {} /\ (job[maker].pages \cap spacePages(job[maker].space))' = {}
    BY <1>10, <1>12 DEF gathered, spacePages
  <2>7. used' = used
    BY <1>1 DEF memory
  <2>8. UNION {held(s)' : s \in Slot} = gathered \cup UNION {held(s) : s \in Slot}
    <3>1. ASSUME NEW q, NEW s \in Slot, q \in held(s)' PROVE q \in gathered \/ q \in held(s)
      BY <2>4, <2>5, <3>1
    <3>2. ASSUME NEW q, NEW s \in Slot, q \in held(s) PROVE q \in held(s)'
      BY <2>2, <2>5, <3>2
    <3>3. \A q \in gathered : q \in held(w)'
      BY <2>4
    <3> QED
      BY <3>1, <3>2, <3>3
  <2>9. \A s \in Slot : (tasks[s].pages \cap spacePages(tasks[s].space))' = {}
    BY <1>2, <2>3, <2>5 DEF SchedInv, PageInv
  <2>10. \A r, s \in Slot : r # s => held(r)' \cap held(s)' = {}
    BY <2>4, <2>5 DEF SchedInv, PageInv
  <2> QED
    BY <2>6, <2>7, <2>8, <2>9, <2>10 DEF SchedInv, PageInv
<1> QED
  BY <1>12, <1>13, <1>15, <1>16, <1>17, <1>18, <1>19 DEF SchedInv

\* prepareInitialFrame: the new task gets its own context, whoever ran in its slot
\* meanwhile, and the call is over.
LEMMA FrameInv == ASSUME SchedInv, prepareInitialFrame PROVE SchedInv'
<1>0. PICK w \in Slot : w = job[me].slot
  <2>1. at("frame")
    BY DEF prepareInitialFrame
  <2> QED
    BY <2>1, CreatorIs
<1> DEFINE i == job[me]
           c == IF i.kind = "kernel" THEN Kernel(tasks[w].pid) ELSE User(tasks[w].pid)
           u == [tasks[w] EXCEPT !.savedEsp = c]
<1>1. /\ at("frame") /\ tasks' = [tasks EXCEPT ![w] = u] /\ job' = [job EXCEPT ![me] = NoCall]
      /\ UNCHANGED <<current, cpu, cr3>> /\ UNCHANGED <<nextPid, memory, script, exited>>
  BY <1>0 DEF prepareInitialFrame, returns
<1>2. /\ creating /\ Calling /\ maker = me /\ me \in busy /\ i \in CreateJob
      /\ i.call = "create" /\ i.todo \in Seq(Steps)
      /\ Head(i.todo) = "frame" /\ TodoOK(i.todo, i.kind, i.space) /\ i.slot = w
      /\ gathered = i.pages \cup spacePages(i.space)
  BY <1>0, <1>1, CreatorIs
<1>3. Len(i.todo) = 1
  BY <1>2, TodoHead
<1>4. /\ tasks[w].state # "Unused" /\ (tasks[w].isUser <=> i.kind # "kernel")
      /\ i.pages = {} /\ i.space = KernelSpace /\ Unframed(w) /\ w # 0
  BY <1>2, <1>3 DEF SchedInv, CreateInv, Unframed
<1>5. w # current /\ tasks[w] \in Task /\ tasks[w].state # "Running"
  <2>1. w # current
    BY <1>2, <1>4, SlotZero DEF Calling
  <2> QED
    BY <2>1 DEF SchedInv, TypeInv, CurrentInv
<1>6. c = own(w) /\ c \in Context /\ c.pid = tasks[w].pid
  <2>1. c = own(w)
    BY <1>4 DEF own
  <2> QED
    BY <1>4, <2>1, SlotPid
<1> HIDE DEF c
<1>7. /\ u \in Task /\ u.state = tasks[w].state /\ u.pid = tasks[w].pid
      /\ u.isUser = tasks[w].isUser
      /\ u.pages = tasks[w].pages /\ u.space = tasks[w].space /\ u.savedEsp = c
  BY <1>5, <1>6 DEF Task
<1>8. NoCall \in Job /\ NoCall.call = "none"
  BY DEF Job, NoCall
<1>9. u.isUser => u.pid \in Callers /\ u.pid # me /\ job[u.pid].call = "none"
  BY <1>2, <1>4, <1>7, SlotPid, CallersAre DEF Calling, SchedInv, CallInv
<1>10. nextPid' \in Nat /\ nextPid' >= nextPid
  BY <1>1, SchedulerBounds DEF SchedInv, TypeInv, IdlePid
<1> HIDE DEF i, u
<1>11. /\ tasks' \in [Slot -> Task] /\ tasks'[w] = u
       /\ \A s \in Slot : s # w => tasks'[s] = tasks[s]
       /\ job' \in [Callers -> Job] /\ ~creating' /\ CallInv' /\ CurrentInv'
       /\ \A s \in Slot : s # current /\ s # w =>
             /\ tasks[s].state = "Unused" => tasks[s].savedEsp = Nowhere
             /\ tasks[s].state = "Dead" => tasks[s].savedEsp.pid = tasks[s].pid
             /\ tasks[s].state \in Live => tasks'[s].savedEsp = own(s)'
  <2>1. u.state # "Running"
    BY <1>5, <1>7
  <2>2. UNCHANGED <<current, cpu, cr3>> /\ w # current /\ u \in Task
    BY <1>1, <1>5, <1>7
  <2>3. tasks' = [tasks EXCEPT ![w] = u] /\ job' = [job EXCEPT ![me] = NoCall]
    BY <1>1
  <2>4. Calling /\ me \in busy
    BY <1>2
  <2>5. job[me].call = "create" => job[me].slot = w
    BY <1>0
  <2>6. NoCall.call \in {"none", "create"} /\ NoCall.call # "create"
    BY <1>8
  <2> QED
    BY <1>8, <1>9, <1>10, <2>1, <2>2, <2>3, <2>4, <2>5, <2>6, WriteSlot, Zenon
<1>12. \A s \in Slot : /\ tasks'[s].pid = tasks[s].pid /\ tasks'[s].isUser = tasks[s].isUser
                       /\ tasks'[s].pages = tasks[s].pages /\ tasks'[s].space = tasks[s].space
                       /\ tasks'[s].state = tasks[s].state
  BY <1>7, <1>11
<1>13. TypeInv'
  BY <1>1, <1>11 DEF SchedInv, TypeInv, memory
<1>14. PidInv'
  <2>1. tasks'[0].pid = IdlePid /\ tasks'[0].state \in {"Ready", "Running"} /\ ~tasks'[0].isUser
    BY <1>12, SlotZero DEF SchedInv, PidInv
  <2> QED
    BY <1>1, <1>12, <2>1 DEF SchedInv, PidInv
<1>15. ContextInv'
  <2>1. \A s : ~Unframed(s)'
    BY <1>11 DEF Unframed
  <2>2. /\ tasks'[w].savedEsp = own(w)' /\ tasks'[w].savedEsp.pid = tasks'[w].pid
        /\ tasks'[w].state # "Unused"
    <3>1. own(w)' = own(w)
      BY <1>12 DEF own
    <3> QED
      BY <1>4, <1>6, <1>7, <1>11, <1>12, <3>1
  <2>3. ASSUME NEW s \in Slot, s # current, s # w
        PROVE  /\ tasks'[s].state = "Unused" => tasks'[s].savedEsp = Nowhere
               /\ tasks'[s].state = "Dead" => tasks'[s].savedEsp.pid = tasks'[s].pid
               /\ tasks'[s].state \in Live => tasks'[s].savedEsp = own(s)'
    BY <1>11, <2>3
  <2>4. current' = current
    BY <1>1
  <2> QED
    BY <2>1, <2>2, <2>3, <2>4 DEF ContextInv
<1>16. ExitInv'
  BY <1>1, <1>12 DEF SchedInv, ExitInv
<1>17. CreateInv'
  BY <1>11 DEF CreateInv
<1>18. PageInv'
  <2>1. gathered = {} /\ gathered' = {}
    BY <1>2, <1>4, <1>11 DEF gathered, spacePages
  <2> QED
    BY <1>1, <1>11, <1>12, <2>1, PagesStay DEF SchedInv
<1> QED
  BY <1>11, <1>13, <1>14, <1>15, <1>16, <1>17, <1>18 DEF SchedInv

(***************************************************************************)
(* The theorems.                                                           *)
(***************************************************************************)

\* Every step keeps the invariant, and resumes no context that has ended, unless
\* in a slot without a frame.
LEMMA SchedStep ==
    ASSUME OneSupervisor, SchedInv, [Next]_vars
    PROVE  SchedInv' /\ (cpu' # cpu /\ cpu'.pid \in exited' => Unframed(current)')
<1>1. CASE timer
  BY <1>1, TimerInv
<1>2. CASE terminate
  BY <1>2, TerminateInv
<1>3. CASE yield
  BY <1>3, YieldInv
<1>4. CASE scheduler_exit
  BY <1>4, ExitsInv DEF scheduler_exit
<1>5. CASE scheduler_block_self
  BY <1>5, BlockInv DEF scheduler_block_self
<1>6. CASE \E p \in Pid : scheduler_unblock(p)
  BY <1>6, UnblockInv DEF scheduler_unblock
<1>7. CASE wake
  BY <1>7, WakeInv DEF wake
<1>8. CASE boot
  BY <1>8, BootInv DEF boot, scheduler_create
<1>9. CASE \E kind \in Kinds : spawn(kind)
  BY <1>9, SpawnInv DEF spawn, scheduler_create
<1>10. CASE allocPage
  BY <1>10, AllocPageInv DEF allocPage
<1>11. CASE paging_create_address_space
  BY <1>11, SpaceInv DEF paging_create_address_space
<1>12. CASE paging_map_user_page
  BY <1>12, MapInv DEF paging_map_user_page
<1>13. CASE rollback
  BY <1>13, RollbackInv DEF rollback
<1>14. CASE reclaimSlot
  BY <1>14, ReclaimInv DEF reclaimSlot
<1>15. CASE publish
  BY <1>15, PublishInv DEF publish
<1>16. CASE prepareInitialFrame
  BY <1>16, FrameInv DEF prepareInitialFrame
<1>17. CASE UNCHANGED vars
  <2>1. /\ tasks' = tasks /\ current' = current /\ nextPid' = nextPid /\ used' = used
        /\ tables' = tables /\ cpu' = cpu /\ cr3' = cr3 /\ job' = job /\ script' = script
        /\ exited' = exited
    BY <1>17 DEF vars, memory
  <2>2. /\ busy' = busy /\ maker' = maker /\ (creating' <=> creating) /\ me' = me
        /\ \A s : Unframed(s)' <=> Unframed(s)
        /\ \A x : Ghost(x)' <=> Ghost(x)
        /\ \A s \in Slot : own(s)' = own(s)
    BY <2>1 DEF busy, maker, creating, me, Unframed, Ghost, own
  <2>3. TypeInv' /\ PidInv' /\ CallInv' /\ ExitInv' /\ CreateInv'
    BY <2>1, <2>2 DEF SchedInv, TypeInv, PidInv, CallInv, ExitInv, CreateInv
  <2>4. CurrentInv' /\ ContextInv'
    BY <2>1 DEF SchedInv, CurrentInv, ContextInv, busy, maker, creating, me, Unframed, Ghost, own
  <2>5. PageInv'
    BY <2>1, <2>2, SMTT(40) DEF SchedInv, PageInv, held, gathered, spacePages
  <2> QED
    BY <2>1, <2>3, <2>4, <2>5 DEF SchedInv
<1> QED
  BY <1>1, <1>2, <1>3, <1>4, <1>5, <1>6, <1>7, <1>8, <1>9, <1>10, <1>11, <1>12, <1>13,
     <1>14, <1>15, <1>16, <1>17 DEF Next

LEMMA SchedInvariant == ASSUME OneSupervisor PROVE Spec => []SchedInv
<1>1. SchedInv /\ [Next]_vars => SchedInv'
  BY SchedStep
<1> QED
  BY <1>1, InitInv, PTL DEF Spec

\* The task table and the allocator keep their types, and the processor is with a
\* task, kernel_main or nowhere, whatever call a tick interrupts.
THEOREM SchedTypeCorrect == ASSUME OneSupervisor PROVE Spec => []TypeOK
<1>1. SchedInv => TypeOK
  <2> SUFFICES ASSUME SchedInv PROVE TypeOK
    OBVIOUS
  <2>1. \A s \in Slot : tasks[s] \in Task
    BY DEF SchedInv, TypeInv
  <2>2. cpu = Nowhere \/ cpu.pid \in {BootPid} \cup Pid
    BY MeIs DEF me, Callers
  <2> QED
    BY <2>1, <2>2 DEF SchedInv, TypeInv, TypeOK, Task, Space
<1> QED
  BY <1>1, SchedInvariant, PTL

\* switchTo leaves exactly the current task Running, in its own directory, and
\* pickNext always finds a task to resume.
THEOREM OneTaskRuns == ASSUME OneSupervisor PROVE Spec => []OneRuns
<1>1. SchedInv => OneRuns
  <2> SUFFICES ASSUME SchedInv, current # -1
               PROVE  /\ inState(tasks, {"Running"}) \subseteq {current}
                      /\ cr3 = tasks[current].space
                      /\ pickNext(tasks, current) # -1
    BY DEF OneRuns
  <2>1. inState(tasks, {"Running"}) \subseteq {current} /\ cr3 = tasks[current].space
    BY DEF SchedInv, CurrentInv, inState
  <2>2. pickNext(tasks, current) # -1
    BY PickNextIs DEF SchedInv, TypeInv, PidInv
  <2> QED
    BY <2>1, <2>2
<1> QED
  BY <1>1, SchedInvariant, PTL

\* The creation under way, and the slot it has filled in but given no frame yet.
LEMMA CreatorsAre ==
    ASSUME SchedInv
    PROVE  /\ creators = IF creating THEN {maker} ELSE {}
           /\ \A s : s \in awaitingFrame <=> Unframed(s)
<1>1. creators = {p \in busy : job[p].call = "create"} /\ \A p \in busy : p = maker
  BY MakerIs DEF creators, busy, Callers
<1>2. creators = IF creating THEN {maker} ELSE {}
  BY <1>1, MakerIs DEF creating
<1>3. ASSUME creating
      PROVE  Head(job[maker].todo) = "frame" <=> Len(job[maker].todo) = 1
  <2>1. PICK j \in CreateJob : j = job[maker]
    BY <1>3, MakerIs DEF creating, busy, SchedInv, TypeInv, Job, NoCall
  <2>2. j.todo \in Seq(Steps) /\ TodoOK(j.todo, j.kind, j.space)
    BY <1>3, <2>1 DEF CreateJob, SchedInv, CreateInv
  <2>3. Len(j.todo) >= 1 /\ 1 \in 1..Len(j.todo) /\ Head(j.todo) = j.todo[1]
    BY <2>2 DEF TodoOK
  <2>4. j.todo[1] = "frame" <=> 1 = Len(j.todo)
    BY <2>2, <2>3 DEF TodoOK
  <2> QED
    BY <2>1, <2>3, <2>4
<1>4. ASSUME NEW s PROVE s \in awaitingFrame <=> Unframed(s)
  BY <1>2, <1>3 DEF awaitingFrame, Unframed
<1> QED
  BY <1>2, <1>4

\* Whoever runs or can be resumed does so on its own stack frame, once it has one,
\* whoever had its slot before and whatever tick interrupted its creation.
THEOREM TasksOwnContext == ASSUME OneSupervisor PROVE Spec => []OwnContext
<1>1. SchedInv => OwnContext
  <2> SUFFICES ASSUME SchedInv PROVE OwnContext
    OBVIOUS
  <2>1. ASSUME NEW s \in Slot, tasks[s].state \in {"Ready", "Blocked"},
               s \notin awaitingFrame, s # current
        PROVE  tasks[s].savedEsp = own(s)
    BY <2>1, CreatorsAre DEF SchedInv, ContextInv, Live
  <2>2. ASSUME current # -1, current \notin awaitingFrame
        PROVE  cpu = own(current)
    BY <2>2, CreatorsAre DEF SchedInv, CurrentInv
  <2> QED
    BY <2>1, <2>2 DEF OwnContext, inState
<1> QED
  BY <1>1, SchedInvariant, PTL

\* What holds of "a Dead task is never scheduled again" (scheduler.hpp): a context
\* that has ended is resumed only in a slot whose new task has no frame yet.
THEOREM DeadStaysDead == ASSUME OneSupervisor PROVE Spec => DeadRunsOnlyUnframed
<1>1. SchedInv => \A s : s \in awaitingFrame <=> Unframed(s)
  BY CreatorsAre
<1>2. SchedInv' => (\A s : s \in awaitingFrame <=> Unframed(s))'
  BY <1>1, PTL
<1>3. SchedInv /\ [Next]_vars
         => [cpu' # cpu /\ cpu'.pid \in exited' => current' \in awaitingFrame']_vars
  <2> SUFFICES ASSUME SchedInv, [Next]_vars, cpu' # cpu, cpu'.pid \in exited'
               PROVE  current' \in awaitingFrame'
    OBVIOUS
  <2>1. SchedInv' /\ Unframed(current)'
    BY SchedStep
  <2> QED
    BY <1>2, <2>1 DEF Unframed
<1> QED
  BY <1>3, SchedInvariant, PTL DEF Spec, DeadRunsOnlyUnframed

\* What a member of Holdings says.
LEMMA HoldingIs ==
    ASSUME SchedInv, NEW h
    PROVE  h \in Holdings <=>
              \/ \E s \in Slot : \E q : /\ h = <<<<"slot", s>>, <<"page", q>>>>
                                        /\ q \in tasks[s].pages
              \/ \E s \in Slot : \E q : /\ h = <<<<"slot", s>>, <<"space", q>>>>
                                        /\ q \in spacePages(tasks[s].space)
              \/ \E q : /\ creating /\ h = <<<<"job", maker>>, <<"page", q>>>>
                        /\ q \in job[maker].pages
              \/ \E q : /\ creating /\ h = <<<<"job", maker>>, <<"space", q>>>>
                        /\ q \in spacePages(job[maker].space)
<1> DEFINE OfSlot(s) == {<<"slot", s>>} \X (({"page"} \X tasks[s].pages)
                                           \cup ({"space"} \X spacePages(tasks[s].space)))
           OfJob(p) == {<<"job", p>>} \X (({"page"} \X job[p].pages)
                                         \cup ({"space"} \X spacePages(job[p].space)))
<1>1. h \in Holdings <=> (\E s \in Slot : h \in OfSlot(s)) \/ (\E p \in creators : h \in OfJob(p))
  BY DEF Holdings
<1>2. \A s : h \in OfSlot(s) <=>
         \/ \E q : h = <<<<"slot", s>>, <<"page", q>>>> /\ q \in tasks[s].pages
         \/ \E q : h = <<<<"slot", s>>, <<"space", q>>>> /\ q \in spacePages(tasks[s].space)
  OBVIOUS
<1>3. \A p : h \in OfJob(p) <=>
         \/ \E q : h = <<<<"job", p>>, <<"page", q>>>> /\ q \in job[p].pages
         \/ \E q : h = <<<<"job", p>>, <<"space", q>>>> /\ q \in spacePages(job[p].space)
  OBVIOUS
<1> HIDE DEF OfSlot, OfJob
<1> QED
  BY <1>1, <1>2, <1>3, CreatorsAre

\* Pages are neither leaked nor shared, through any number of creations, failed
\* creations and reused slots.
THEOREM NoPageLost == ASSUME OneSupervisor PROVE Spec => []PagesAccounted
<1>1. SchedInv => PagesAccounted
  <2> SUFFICES ASSUME SchedInv, NEW q \in Page
               PROVE  Cardinality({h \in Holdings : h[2][2] = q}) = IF q \in used THEN 1 ELSE 0
    BY DEF PagesAccounted
  <2> DEFINE H == {h \in Holdings : h[2][2] = q}
  <2>1. ASSUME NEW h \in H PROVE q \in used
    <3>1. h \in Holdings /\ h[2][2] = q
      OBVIOUS
    <3>2. q \in gathered \/ \E s \in Slot : q \in held(s)
      BY <3>1, HoldingIs DEF gathered, held
    <3> QED
      BY <3>2, HeldIsUsed
  <2>2. ASSUME NEW h \in H, NEW k \in H PROVE h = k
    <3>1. h \in Holdings /\ h[2][2] = q /\ k \in Holdings /\ k[2][2] = q
      OBVIOUS
    <3>2. /\ \A r, s \in Slot : q \in held(r) /\ q \in held(s) => r = s
          /\ \A s \in Slot : ~(q \in gathered /\ q \in held(s))
          /\ \A s \in Slot : ~(q \in tasks[s].pages /\ q \in spacePages(tasks[s].space))
          /\ creating => ~(q \in job[maker].pages /\ q \in spacePages(job[maker].space))
      BY DEF SchedInv, PageInv
    <3>3. /\ \A s \in Slot : q \in tasks[s].pages \/ q \in spacePages(tasks[s].space) => q \in held(s)
          /\ creating /\ (q \in job[maker].pages \/ q \in spacePages(job[maker].space)) => q \in gathered
      BY DEF held, gathered
    <3>4. \A g \in {h, k} :
             \/ \E s \in Slot : g = <<<<"slot", s>>, <<"page", q>>>> /\ q \in tasks[s].pages
             \/ \E s \in Slot : /\ g = <<<<"slot", s>>, <<"space", q>>>>
                                /\ q \in spacePages(tasks[s].space)
             \/ creating /\ g = <<<<"job", maker>>, <<"page", q>>>> /\ q \in job[maker].pages
             \/ /\ creating /\ g = <<<<"job", maker>>, <<"space", q>>>>
                /\ q \in spacePages(job[maker].space)
      BY <3>1, HoldingIs
    <3> QED
      BY <3>2, <3>3, <3>4
  <2>3. ASSUME q \in used PROVE \E h : h \in H
    <3>1. q \in gathered \/ \E s \in Slot : q \in held(s)
      BY <2>3 DEF SchedInv, PageInv
    <3>2. ASSUME NEW s \in Slot, q \in held(s) PROVE \E h : h \in H
      <4>1. CASE q \in tasks[s].pages
        <5>1. <<<<"slot", s>>, <<"page", q>>>> \in Holdings
          BY <4>1, HoldingIs
        <5> QED
          BY <5>1
      <4>2. CASE q \in spacePages(tasks[s].space)
        <5>1. <<<<"slot", s>>, <<"space", q>>>> \in Holdings
          BY <4>2, HoldingIs
        <5> QED
          BY <5>1
      <4> QED
        BY <3>2, <4>1, <4>2 DEF held
    <3>3. ASSUME q \in gathered PROVE \E h : h \in H
      <4>1. CASE creating /\ q \in job[maker].pages
        <5>1. <<<<"job", maker>>, <<"page", q>>>> \in Holdings
          BY <4>1, HoldingIs
        <5> QED
          BY <5>1
      <4>2. CASE creating /\ q \in spacePages(job[maker].space)
        <5>1. <<<<"job", maker>>, <<"space", q>>>> \in Holdings
          BY <4>2, HoldingIs
        <5> QED
          BY <5>1
      <4> QED
        BY <3>3, <4>1, <4>2 DEF gathered
    <3> QED
      BY <3>1, <3>2, <3>3
  <2> HIDE DEF H
  <2>4. CASE q \in used
    <3>1. PICK h : h \in H
      BY <2>3, <2>4
    <3>2. H = {h}
      BY <2>2, <3>1
    <3>3. Cardinality(H) = 1
      BY <3>2, FS_Singleton
    <3> QED
      BY <2>4, <3>3 DEF H
  <2>5. CASE q \notin used
    <3>1. H = {}
      BY <2>1, <2>5
    <3>2. Cardinality(H) = 0
      BY <3>1, FS_EmptySet
    <3> QED
      BY <2>5, <3>2 DEF H
  <2> QED
    BY <2>4, <2>5
<1> QED
  BY <1>1, SchedInvariant, PTL

-----------------------------------------------------------------------------
(***************************************************************************)
(* Part two: the heap.                                                     *)
(*                                                                         *)
(* Sums over sets of blocks.  bytesOf is a fold that takes the blocks in   *)
(* the order CHOOSE gives; a table of the sums of all subsets of D says    *)
(* what that fold computes, and that the order does not matter.            *)
(***************************************************************************)
pick(A) == CHOOSE x \in A : TRUE
Entry(f, b, A) == IF A = {} THEN 0 ELSE b[pick(A)] + f[A \ {pick(A)}]
IsSum(f, b, D) == \A A \in SUBSET D : f[A] = Entry(f, b, A)

\* A set of numbers that is not empty has a least member.
LEMMA LeastNumber ==
    ASSUME NEW S \in SUBSET Nat, S # {}
    PROVE  \E x \in S : \A y \in S : x <= y
<1>1. PICK x \in S : \A y \in S : ~(<<y, x>> \in OpToRel(<, Nat))
  BY NatLessThanWellFounded, WFMin
<1>2. ASSUME NEW y \in S PROVE ~(y < x)
  <2>1. <<y, x>> \in Nat \X Nat
    OBVIOUS
  <2>2. y < x => <<y, x>> \in OpToRel(<, Nat)
    BY <2>1, Zenon DEF OpToRel
  <2> QED
    BY <1>1, <2>2
<1> QED
  BY <1>2

\* Of the subsets of a finite set with some defect, one has no such proper subset.
LEMMA SmallestSet ==
    ASSUME NEW D, IsFiniteSet(D), NEW Bad \in SUBSET (SUBSET D), Bad # {}
    PROVE  \E A \in Bad : \A B \in Bad : B \subseteq A => B = A
<1>1. \A A \in SUBSET D : IsFiniteSet(A) /\ Cardinality(A) \in Nat
  BY FS_Subset, FS_CardinalityType
<1> DEFINE S == {Cardinality(A) : A \in Bad}
<1>2. S \in SUBSET Nat /\ S # {}
  BY <1>1
<1>3. PICK n \in S : \A k \in S : n <= k
  <2> HIDE DEF S
  <2> QED
    BY <1>2, LeastNumber
<1>4. PICK A \in Bad : Cardinality(A) = n
  BY <1>3
<1>5. ASSUME NEW B \in Bad, B \subseteq A PROVE B = A
  <2>1. Cardinality(A) <= Cardinality(B)
    BY <1>3, <1>4
  <2>2. IsFiniteSet(A) /\ B \in SUBSET A
    BY <1>1, <1>5
  <2>3. Cardinality(B) <= Cardinality(A) /\ (Cardinality(A) = Cardinality(B) => A = B)
    BY <2>2, FS_Subset
  <2>4. Cardinality(A) \in Nat /\ Cardinality(B) \in Nat
    BY <1>1
  <2>5. Cardinality(A) = Cardinality(B)
    BY <2>1, <2>3, <2>4
  <2> QED
    BY <2>3, <2>5
<1> QED
  BY <1>5

LEMMA PickIn == ASSUME NEW A, A # {} PROVE pick(A) \in A
  BY DEF pick

\* A table that is right for n members gives one that is right for n + 1.
LEMMA SumExists ==
    ASSUME NEW D, IsFiniteSet(D), NEW b \in [D -> Nat]
    PROVE  \E f \in [SUBSET D -> Nat] : IsSum(f, b, D)
<1> DEFINE Right(f, n) == \A A \in SUBSET D : Cardinality(A) <= n => f[A] = Entry(f, b, A)
           Bad == {n \in Nat : ~ \E f \in [SUBSET D -> Nat] : Right(f, n)}
<1>1. \A A \in SUBSET D : IsFiniteSet(A) /\ Cardinality(A) \in Nat /\ Cardinality(A) <= Cardinality(D)
  BY FS_Subset, FS_CardinalityType
<1>2. Bad = {}
  <2>1. SUFFICES ASSUME Bad # {} PROVE FALSE
    OBVIOUS
  <2>2. PICK n \in Bad : \A k \in Bad : n <= k
    <3>1. Bad \in SUBSET Nat
      OBVIOUS
    <3> HIDE DEF Bad
    <3> QED
      BY <2>1, <3>1, LeastNumber
  <2>3. n # 0
    <3> DEFINE f == [A \in SUBSET D |-> 0]
    <3>1. f \in [SUBSET D -> Nat]
      OBVIOUS
    <3>2. ASSUME NEW A \in SUBSET D, Cardinality(A) <= 0 PROVE f[A] = Entry(f, b, A)
      <4>1. Cardinality(A) = 0
        BY <1>1, <3>2
      <4>2. A = {}
        BY <1>1, <4>1, FS_EmptySet
      <4> QED
        BY <4>2 DEF Entry
    <3> HIDE DEF f
    <3> QED
      BY <3>1, <3>2
  <2>4. n - 1 \in Nat /\ ~(n <= n - 1)
    BY <2>3
  <2>5. PICK f \in [SUBSET D -> Nat] : Right(f, n - 1)
    BY <2>2, <2>4
  <2> DEFINE g == [A \in SUBSET D |-> Entry(f, b, A)]
  <2>6. ASSUME NEW A \in SUBSET D, A # {}
        PROVE  A \ {pick(A)} \in SUBSET D /\ pick(A) \in A /\ pick(A) \in D
               /\ Cardinality(A \ {pick(A)}) = Cardinality(A) - 1
    <3>1. pick(A) \in A
      BY <2>6, PickIn
    <3> QED
      BY <1>1, <3>1, FS_RemoveElement
  <2>7. g \in [SUBSET D -> Nat]
    <3>1. ASSUME NEW A \in SUBSET D PROVE Entry(f, b, A) \in Nat
      <4>1. CASE A = {}
        BY <4>1 DEF Entry
      <4>2. CASE A # {}
        <5>1. f[A \ {pick(A)}] \in Nat /\ b[pick(A)] \in Nat
          BY <2>6, <4>2
        <5> QED
          BY <4>2, <5>1 DEF Entry
      <4> QED
        BY <4>1, <4>2
    <3> QED
      BY <3>1
  <2>8. ASSUME NEW A \in SUBSET D, Cardinality(A) <= n PROVE g[A] = Entry(g, b, A)
    <3>1. CASE A = {}
      BY <3>1 DEF Entry
    <3>2. CASE A # {}
      <4>1. PICK B \in SUBSET D : B = A \ {pick(A)} /\ Cardinality(B) <= n - 1
        <5>1. A \ {pick(A)} \in SUBSET D /\ Cardinality(A \ {pick(A)}) = Cardinality(A) - 1
          BY <2>6, <3>2
        <5>2. Cardinality(A) - 1 <= n - 1
          BY <1>1, <2>4, <2>8
        <5> QED
          BY <5>1, <5>2
      <4>2. f[B] = Entry(f, b, B)
        BY <2>5, <4>1
      <4>3. g[B] = f[B]
        BY <4>2
      <4>4. g[A] = b[pick(A)] + f[B]
        BY <3>2, <4>1 DEF Entry
      <4> HIDE DEF g
      <4> QED
        BY <3>2, <4>1, <4>3, <4>4 DEF Entry
    <3> QED
      BY <3>1, <3>2
  <2> HIDE DEF g
  <2>9. Right(g, n)
    BY <2>8
  <2> QED
    BY <2>2, <2>7, <2>9
<1>3. Cardinality(D) \in Nat
  BY FS_CardinalityType
<1>4. PICK f \in [SUBSET D -> Nat] : Right(f, Cardinality(D))
  BY <1>2, <1>3
<1> QED
  BY <1>1, <1>4 DEF IsSum

\* The sum does not depend on which member is taken first.
FirstAndRest(f, b, D) == \A B \in SUBSET D : \A y \in B : f[B] = b[y] + f[B \ {y}]
LEMMA SumAny ==
    ASSUME NEW D, IsFiniteSet(D), NEW b \in [D -> Nat], NEW f \in [SUBSET D -> Nat], IsSum(f, b, D)
    PROVE  FirstAndRest(f, b, D)
<1> DEFINE Ok(B, y) == f[B] = b[y] + f[B \ {y}]
           Bad == {B \in SUBSET D : \E y \in B : ~Ok(B, y)}
<1>1. SUFFICES ASSUME Bad # {} PROVE FALSE
  BY DEF FirstAndRest
<1>2. PICK B \in Bad : \A C \in Bad : C \subseteq B => C = B
  <2>1. Bad \in SUBSET (SUBSET D)
    OBVIOUS
  <2> HIDE DEF Bad
  <2> QED
    BY <1>1, <2>1, SmallestSet
<1>3. PICK y \in B : ~Ok(B, y)
  BY <1>2
<1>4. PICK z \in B : z = pick(B)
  BY <1>3, PickIn
<1>5. f[B] = b[z] + f[B \ {z}]
  BY <1>3, <1>4 DEF IsSum, Entry
<1>6. z # y
  BY <1>3, <1>5
<1>7. B \ {z} \notin Bad /\ B \ {y} \notin Bad /\ B \ {z} \in SUBSET D /\ B \ {y} \in SUBSET D
  <2>1. B \ {z} # B /\ B \ {y} # B /\ B \ {z} \subseteq B /\ B \ {y} \subseteq B
    BY <1>3, <1>4
  <2>2. B \ {z} \in SUBSET D /\ B \ {y} \in SUBSET D
    OBVIOUS
  <2> HIDE DEF Bad
  <2> QED
    BY <1>2, <2>1, <2>2
<1>8. Ok(B \ {z}, y) /\ Ok(B \ {y}, z)
  BY <1>3, <1>4, <1>6, <1>7
<1>9. (B \ {z}) \ {y} = (B \ {y}) \ {z}
  OBVIOUS
<1>10. b[z] \in Nat /\ b[y] \in Nat /\ f[(B \ {z}) \ {y}] \in Nat
  OBVIOUS
<1>11. f[B \ {z}] = b[y] + f[(B \ {z}) \ {y}] /\ f[B \ {y}] = b[z] + f[(B \ {z}) \ {y}]
  BY <1>8, <1>9
<1>12. f[B] = b[y] + f[B \ {y}]
  BY <1>5, <1>10, <1>11
<1> QED
  BY <1>3, <1>12

\* The sum of a set depends on its members' values alone.
LEMMA SumLocal ==
    ASSUME NEW D, IsFiniteSet(D), NEW b, NEW f, IsSum(f, b, D),
           NEW E, NEW c, NEW g, IsSum(g, c, E),
           NEW A \in SUBSET D, A \in SUBSET E, \A x \in A : b[x] = c[x]
    PROVE  f[A] = g[A]
<1> DEFINE Bad == {B \in SUBSET A : f[B] # g[B]}
<1>1. SUFFICES ASSUME Bad # {} PROVE FALSE
  OBVIOUS
<1>2. PICK B \in Bad : \A C \in Bad : C \subseteq B => C = B
  <2>1. Bad \in SUBSET (SUBSET A) /\ IsFiniteSet(A)
    BY FS_Subset
  <2> HIDE DEF Bad
  <2> QED
    BY <1>1, <2>1, SmallestSet
<1>3. f[B] = Entry(f, b, B) /\ g[B] = Entry(g, c, B)
  BY DEF IsSum
<1>4. CASE B = {}
  BY <1>3, <1>4 DEF Entry
<1>5. CASE B # {}
  <2>1. PICK z \in B : z = pick(B)
    BY <1>5, PickIn
  <2>2. B \ {z} \notin Bad
    <3>1. B \ {z} # B /\ B \ {z} \subseteq B
      BY <2>1
    <3> HIDE DEF Bad
    <3> QED
      BY <1>2, <3>1
  <2>3. f[B \ {z}] = g[B \ {z}] /\ b[z] = c[z]
    BY <2>1, <2>2
  <2> QED
    BY <1>2, <1>3, <1>5, <2>1, <2>3 DEF Entry
<1> QED
  BY <1>4, <1>5

\* What bytesOf computes.
sizes(D) == [x \in D |-> x.size]
LEMMA BytesIs ==
    ASSUME NEW D, IsFiniteSet(D), \A x \in D : x.size \in Nat
    PROVE  /\ sizes(D) \in [D -> Nat]
           /\ \E f \in [SUBSET D -> Nat] : IsSum(f, sizes(D), D) /\ bytesOf(D) = f[D]
<1> DEFINE b == sizes(D)
           eq(f) == [A \in SUBSET D |-> IF A = {} THEN 0 ELSE pick(A).size + f[A \ {pick(A)}]]
           iter == CHOOSE f : f = eq(f)
<1>3. b \in [D -> Nat]
  BY DEF sizes
<1>4. PICK f \in [SUBSET D -> Nat] : IsSum(f, b, D)
  <2> HIDE DEF b
  <2> QED
    BY <1>3, SumExists
<1>5. \A B \in SUBSET D : B # {} => pick(B) \in D /\ b[pick(B)] = pick(B).size
  BY PickIn DEF sizes
<1>6. f = eq(f)
  <2>1. \A B \in SUBSET D : f[B] = eq(f)[B]
    BY <1>4, <1>5 DEF IsSum, Entry
  <2> QED
    BY <2>1
<1>7. iter = eq(iter)
  BY <1>6
<1>8. bytesOf(D) = iter[D]
  BY DEF bytesOf, MapThenSumSet, MapThenFoldSet, pick
<1>9. IsSum(iter, b, D)
  <2> HIDE DEF iter
  <2>1. \A B \in SUBSET D : iter[B] = eq(iter)[B]
    BY <1>7
  <2> QED
    BY <1>5, <2>1 DEF IsSum, Entry
<1>10. iter[D] = f[D]
  <2>1. D \in SUBSET D
    OBVIOUS
  <2> HIDE DEF iter, b
  <2> QED
    BY <1>4, <1>9, <2>1, SumLocal
<1> HIDE DEF iter
<1> QED
  BY <1>3, <1>4, <1>8, <1>10

\* In one table, the sums of all subsets.
BytesIn(f, D) ==
    /\ \A A \in SUBSET D : bytesOf(A) = f[A]
    /\ \A A \in SUBSET D : \A x \in A : f[A] = x.size + f[A \ {x}]
    /\ f[{}] = 0
LEMMA BytesTable ==
    ASSUME NEW D, IsFiniteSet(D), \A x \in D : x.size \in Nat
    PROVE  \E f \in [SUBSET D -> Nat] : BytesIn(f, D)
<1>1. PICK f \in [SUBSET D -> Nat] : IsSum(f, sizes(D), D)
  BY BytesIs
<1>2. ASSUME NEW A \in SUBSET D PROVE bytesOf(A) = f[A]
  <2>1. IsFiniteSet(A) /\ \A x \in A : x.size \in Nat
    BY FS_Subset
  <2>2. PICK g \in [SUBSET A -> Nat] : IsSum(g, sizes(A), A) /\ bytesOf(A) = g[A]
    BY <2>1, BytesIs
  <2>3. A \in SUBSET A /\ \A x \in A : sizes(A)[x] = sizes(D)[x]
    BY DEF sizes
  <2>4. g[A] = f[A]
    BY <1>1, <2>1, <2>2, <2>3, SumLocal
  <2> QED
    BY <2>2, <2>4
<1>3. ASSUME NEW A \in SUBSET D, NEW x \in A PROVE f[A] = x.size + f[A \ {x}]
  <2>1. sizes(D) \in [D -> Nat] /\ sizes(D)[x] = x.size
    BY DEF sizes
  <2> QED
    <3>1. FirstAndRest(f, sizes(D), D)
      BY <1>1, <2>1, SumAny, Zenon
    <3> QED
      BY <2>1, <3>1 DEF FirstAndRest
<1>4. f[{}] = 0
  BY <1>1 DEF IsSum, Entry
<1> QED
  BY <1>1, <1>2, <1>3, <1>4 DEF BytesIn

LEMMA BytesEmpty == bytesOf({}) = 0
<1>1. IsFiniteSet({}) /\ {} \in SUBSET {}
  BY FS_EmptySet
<1> QED
  BY <1>1, BytesTable DEF BytesIn

LEMMA BytesAdd ==
    ASSUME NEW S, IsFiniteSet(S), \A y \in S : y.size \in Nat, NEW x, x \notin S, x.size \in Nat
    PROVE  bytesOf(S) \in Nat /\ bytesOf(S \cup {x}) = bytesOf(S) + x.size
<1>1. PICK D : D = S \cup {x}
  OBVIOUS
<1>2. IsFiniteSet(D) /\ (\A y \in D : y.size \in Nat) /\ D \in SUBSET D /\ S \in SUBSET D
      /\ x \in D /\ D \ {x} = S
  BY <1>1, FS_AddElement
<1>3. PICK f \in [SUBSET D -> Nat] : BytesIn(f, D)
  BY <1>2, BytesTable
<1>4. bytesOf(D) = f[D] /\ bytesOf(S) = f[S] /\ f[D] = x.size + f[S] /\ f[S] \in Nat
  BY <1>2, <1>3 DEF BytesIn
<1> QED
  BY <1>1, <1>4

LEMMA BytesPart ==
    ASSUME NEW T, IsFiniteSet(T), \A y \in T : y.size \in Nat, NEW S \in SUBSET T
    PROVE  bytesOf(S) \in Nat /\ bytesOf(T) \in Nat /\ bytesOf(S) <= bytesOf(T)
<1>1. PICK f \in [SUBSET T -> Nat] : BytesIn(f, T)
  BY BytesTable
<1> DEFINE Bad == {A \in SUBSET T : S \subseteq A /\ ~(f[S] <= f[A])}
<1>2. Bad = {}
  <2> SUFFICES ASSUME Bad # {} PROVE FALSE
    OBVIOUS
  <2>1. PICK A \in Bad : \A C \in Bad : C \subseteq A => C = A
    <3>1. Bad \in SUBSET (SUBSET T)
      OBVIOUS
    <3> HIDE DEF Bad
    <3> QED
      BY <3>1, SmallestSet
  <2>2. A # S
    BY <1>1
  <2>3. PICK y \in A : y \notin S
    BY <2>2
  <2>4. A \ {y} \notin Bad /\ A \ {y} \in SUBSET T /\ S \subseteq A \ {y}
    BY <2>1, <2>3
  <2>5. f[S] <= f[A \ {y}]
    BY <2>4
  <2>6. f[A] = y.size + f[A \ {y}] /\ y.size \in Nat /\ f[S] \in Nat /\ f[A \ {y}] \in Nat
    BY <1>1, <2>4 DEF BytesIn
  <2>7. f[S] <= f[A]
    BY <2>5, <2>6
  <2> QED
    BY <2>7
<1> QED
  BY <1>1, <1>2 DEF BytesIn

-----------------------------------------------------------------------------
(***************************************************************************)
(* The inductive invariant of the heap: every segment has a page of its    *)
(* own (PagesInv), its blocks lie one behind the other and fill it         *)
(* (LaidInv), no two neighbours are free (JoinedInv), blocks and headers   *)
(* together take what the pages have (RoomInv), and the used blocks are    *)
(* what the callers hold (HeldBy).                                         *)
(***************************************************************************)
BlockType == [at : Nat, size : Nat, used : BOOLEAN]
SegmentType == [page : Nat, blocks : Seq(BlockType)]

\* Where a block ends.
end(b) == b.at + HeaderSize + b.size

\* The blocks lie one behind the other and fill the page.
Laid(blocks) ==
    /\ blocks \in Seq(BlockType)
    /\ Len(blocks) > 0 /\ blocks[1].at = SegmentSize
    /\ \A k \in DOMAIN blocks :
          /\ blocks[k].at >= SegmentSize /\ end(blocks[k]) <= PageSize
          /\ end(blocks[k]) = IF k = Len(blocks) THEN PageSize ELSE blocks[k + 1].at
    /\ \A j, k \in DOMAIN blocks : j < k => end(blocks[j]) <= blocks[k].at

\* No two neighbours are free.
Joined(blocks) == \A k \in 1..(Len(blocks) - 1) : blocks[k].used \/ blocks[k + 1].used

\* Every segment has a page of its own.
PagesInv(h) ==
    /\ h \in Seq(SegmentType) /\ Len(h) <= PageBudget
    /\ \A i \in DOMAIN h : h[i].page = Len(h) + 1 - i
LaidInv(h) == \A i \in DOMAIN h : Laid(h[i].blocks)
JoinedInv(h) == \A i \in DOMAIN h : Joined(h[i].blocks)

\* What the blocks and their headers take is what the pages have.
Sized(S) == IsFiniteSet(S) /\ \A b \in S : b.size \in Nat
room(S) == bytesOf(S) + HeaderSize * Cardinality(S)
RoomInv(h) == Sized(allBlocks(h)) /\ room(allBlocks(h)) = Len(h) * (PageSize - SegmentSize)

\* Whatever is used or free, the blocks fill the pages.
Filled(h) == PagesInv(h) /\ LaidInv(h) /\ RoomInv(h)

\* The callers' allocations are the used blocks.
HeldBy(L, bytes, h) ==
    /\ \A a \in L : \E b \in usedBlocks(h) : blockPayload(b) = a.ptr
    /\ \A b \in usedBlocks(h) : \E a \in L : a.ptr = blockPayload(b)
    /\ \A a, c \in L : a.ptr = c.ptr => a = c
    /\ bytes = bytesOf(usedBlocks(h))

\* Every caller has at least what it asked for.
AmpleIn(L, h) == \A a \in L : \A b \in usedBlocks(h) : blockPayload(b) = a.ptr => b.size >= a.size

HeapInv == Filled(segments) /\ JoinedInv(segments) /\ HeldBy(live, bytesAllocated, segments)

\* No request is so large that alignUp wraps around.
SizesRound == \A n \in Sizes : n <= WordSize - Alignment
Ample == AmpleIn(live, segments)

LEMMA Layout ==
    /\ PageSize \in Nat /\ HeaderSize \in Nat /\ SegmentSize \in Nat /\ MinSplit \in Nat
    /\ Alignment \in Nat /\ WordSize \in Nat
    /\ HeaderSize > 0 /\ SegmentSize > 0 /\ MinSplit > 0 /\ Alignment > 0 /\ WordSize > 0
    /\ SegmentSize + HeaderSize < PageSize
<1>1. {PageSize, HeaderSize, SegmentSize, Alignment, MinSplit, WordSize} \subseteq Nat \ {0}
      /\ SegmentSize + HeaderSize < PageSize
  BY LayoutAssumption
<1> QED
  BY <1>1

\* What x \o y is at each position.
JoinOf(r, x, y) ==
    /\ Len(r) = Len(x) + Len(y)
    /\ \A i \in 1..Len(x) : r[i] = x[i]
    /\ \A i \in 1..Len(y) : r[Len(x) + i] = y[i]
LEMMA JoinIs ==
    ASSUME NEW T, NEW x \in Seq(T), NEW y \in Seq(T)
    PROVE  x \o y \in Seq(T) /\ JoinOf(x \o y, x, y)
<1>1. PICK r : r = x \o y
  OBVIOUS
<1>2. PICK n \in Nat, l \in Nat : n = Len(x) /\ l = Len(y)
  BY LenProperties
<1>3. /\ r \in Seq(T) /\ Len(r) = n + l
      /\ \A i \in 1..(n + l) : r[i] = IF i <= n THEN x[i] ELSE y[i - n]
  BY <1>1, <1>2, ConcatProperties
<1>4. \A i \in 1..n : i \in 1..(n + l) /\ i <= n
  OBVIOUS
<1>5. \A i \in 1..l : n + i \in 1..(n + l) /\ ~(n + i <= n) /\ (n + i) - n = i
  OBVIOUS
<1>6. (\A i \in 1..n : r[i] = x[i]) /\ \A i \in 1..l : r[n + i] = y[i]
  BY <1>3, <1>4, <1>5
<1> QED
  BY <1>1, <1>2, <1>3, <1>6 DEF JoinOf

\* What SubSeq(s, 1, a) \o m \o SubSeq(s, c, Len(s)) is at each position.
SpliceOf(r, s, m, a, c) ==
    /\ Len(r) = a + Len(m) + (Len(s) + 1 - c)
    /\ \A i \in 1..a : r[i] = s[i]
    /\ \A i \in 1..Len(m) : r[a + i] = m[i]
    /\ \A i \in c..Len(s) : r[a + Len(m) + 1 + (i - c)] = s[i]
LEMMA SpliceIs ==
    ASSUME NEW T, NEW s \in Seq(T), NEW m \in Seq(T),
           NEW a \in Nat, NEW c \in Nat, a < c, c <= Len(s) + 1
    PROVE  /\ SubSeq(s, 1, a) \o m \o SubSeq(s, c, Len(s)) \in Seq(T)
           /\ SpliceOf(SubSeq(s, 1, a) \o m \o SubSeq(s, c, Len(s)), s, m, a, c)
<1>1. PICK x, y : x = SubSeq(s, 1, a) /\ y = SubSeq(s, c, Len(s))
  OBVIOUS
<1>2. PICK n \in Nat, l \in Nat : n = Len(s) /\ l = Len(m)
  BY LenProperties
<1>3. x \in Seq(T) /\ Len(x) = a /\ \A i \in 1..a : x[i] = s[i]
  <2>1. \A i \in 1..a : s[i] \in T
    BY <1>2, ElementOfSeq
  <2>2. /\ SubSeq(s, 1, a) \in Seq(T)
        /\ Len(SubSeq(s, 1, a)) = IF 1 <= a THEN a - 1 + 1 ELSE 0
        /\ \A i \in 1..(a - 1 + 1) : SubSeq(s, 1, a)[i] = s[1 + i - 1]
    BY <2>1, SubSeqProperties
  <2>3. (IF 1 <= a THEN a - 1 + 1 ELSE 0) = a /\ a - 1 + 1 = a /\ \A i \in 1..a : 1 + i - 1 = i
    OBVIOUS
  <2> QED
    BY <1>1, <2>2, <2>3
<1>4. y \in Seq(T) /\ Len(y) = n + 1 - c /\ \A i \in 1..(n + 1 - c) : y[i] = s[c + i - 1]
  <2>1. \A i \in c..n : s[i] \in T
    BY <1>2, ElementOfSeq
  <2>2. /\ SubSeq(s, c, n) \in Seq(T)
        /\ Len(SubSeq(s, c, n)) = IF c <= n THEN n - c + 1 ELSE 0
        /\ \A i \in 1..(n - c + 1) : SubSeq(s, c, n)[i] = s[c + i - 1]
    BY <2>1, SubSeqProperties
  <2>3. (IF c <= n THEN n - c + 1 ELSE 0) = n + 1 - c /\ n - c + 1 = n + 1 - c
    BY <1>2
  <2> QED
    BY <1>1, <1>2, <2>2, <2>3
<1>5. PICK z : z = x \o m
  OBVIOUS
<1>6. z \in Seq(T) /\ JoinOf(z, x, m)
  BY <1>3, <1>5, JoinIs
<1>7. PICK r : r = z \o y
  OBVIOUS
<1>8. r \in Seq(T) /\ JoinOf(r, z, y)
  BY <1>4, <1>6, <1>7, JoinIs
<1>9. Len(z) = a + l /\ Len(r) = a + l + (n + 1 - c)
  BY <1>2, <1>3, <1>4, <1>6, <1>8 DEF JoinOf
<1>10. \A i \in 1..a : r[i] = s[i]
  <2>1. \A i \in 1..a : i \in 1..(a + l)
    OBVIOUS
  <2> QED
    BY <1>3, <1>6, <1>8, <1>9, <2>1 DEF JoinOf
<1>11. \A i \in 1..l : r[a + i] = m[i]
  <2>1. \A i \in 1..l : a + i \in 1..(a + l)
    OBVIOUS
  <2> QED
    BY <1>2, <1>3, <1>6, <1>8, <1>9, <2>1 DEF JoinOf
<1>12. ASSUME NEW i \in c..n PROVE r[a + l + 1 + (i - c)] = s[i]
  <2>1. PICK j \in 1..(n + 1 - c) : j = (i - c) + 1 /\ c + j - 1 = i /\ (a + l) + j = a + l + 1 + (i - c)
    OBVIOUS
  <2>2. r[(a + l) + j] = y[j]
    BY <1>4, <1>8, <1>9 DEF JoinOf
  <2>3. y[j] = s[c + j - 1]
    BY <1>4
  <2> QED
    BY <2>1, <2>2, <2>3
<1>13. SpliceOf(r, s, m, a, c)
  BY <1>2, <1>9, <1>10, <1>11, <1>12 DEF SpliceOf
<1> QED
  BY <1>1, <1>5, <1>7, <1>8, <1>13

\* merge: two neighbours become one, the rest moves up.
BlocksMerged(r, s, k) ==
    /\ r \in Seq(BlockType) /\ Len(r) = Len(s) - 1
    /\ \A i \in 1..(k - 1) : r[i] = s[i]
    /\ r[k] = [at |-> s[k].at, size |-> s[k].size + HeaderSize + s[k + 1].size, used |-> s[k].used]
    /\ \A i \in (k + 1)..(Len(s) - 1) : r[i] = s[i + 1]
LEMMA MergeIs ==
    ASSUME NEW s \in Seq(BlockType), NEW k \in 1..(Len(s) - 1)
    PROVE  BlocksMerged(merge(s, k), s, k)
<1>0. PICK n \in Nat : n = Len(s)
  OBVIOUS
<1>1. s[k] \in BlockType /\ s[k + 1] \in BlockType
  OBVIOUS
<1>2. PICK b : b = [s[k] EXCEPT !.size = s[k].size + HeaderSize + s[k + 1].size]
  OBVIOUS
<1>3. b = [at |-> s[k].at, size |-> s[k].size + HeaderSize + s[k + 1].size, used |-> s[k].used]
      /\ b \in BlockType
  <2>0. s[k].size \in Nat /\ s[k + 1].size \in Nat
    BY <1>1 DEF BlockType
  <2>1. PICK d \in BlockType, e \in Nat : d = s[k] /\ e = s[k].size + HeaderSize + s[k + 1].size
    <3>1. s[k].size + HeaderSize + s[k + 1].size \in Nat
      <4>1. PICK x \in Nat, y \in Nat : x = s[k].size /\ y = s[k + 1].size
        BY <2>0
      <4>2. x + HeaderSize + y \in Nat
        BY Layout
      <4> QED
        BY <4>1, <4>2
    <3> QED
      BY <1>1, <3>1
  <2>2. b = [d EXCEPT !.size = e]
    BY <1>2, <2>1
  <2>3. b = [at |-> d.at, size |-> e, used |-> d.used]
    BY <2>1, <2>2 DEF BlockType
  <2> QED
    BY <2>1, <2>3 DEF BlockType
<1>4. merge(s, k) = SubSeq(s, 1, k - 1) \o <<b>> \o SubSeq(s, k + 2, Len(s))
  BY <1>2 DEF merge
<1>5. k - 1 \in Nat /\ k + 2 \in Nat /\ k - 1 < k + 2 /\ k + 2 <= Len(s) + 1
      /\ <<b>> \in Seq(BlockType) /\ Len(<<b>>) = 1 /\ <<b>>[1] = b
  BY <1>0, <1>3
<1>6. PICK r : r = merge(s, k)
  OBVIOUS
<1>7. r \in Seq(BlockType) /\ SpliceOf(r, s, <<b>>, k - 1, k + 2)
  <2> HIDE DEF BlockType
  <2> QED
    BY <1>4, <1>5, <1>6, SpliceIs
<1>8. Len(r) = n - 1 /\ (\A i \in 1..(k - 1) : r[i] = s[i]) /\ r[k] = b
  <2>1. (k - 1) + 1 + (n + 1 - (k + 2)) = n - 1 /\ (k - 1) + 1 = k /\ 1 \in 1..1
    BY <1>0
  <2> QED
    BY <1>0, <1>5, <1>7, <2>1 DEF SpliceOf
<1>9. ASSUME NEW i \in (k + 1)..(n - 1) PROVE r[i] = s[i + 1]
  <2>1. i + 1 \in (k + 2)..n /\ (k - 1) + 1 + 1 + ((i + 1) - (k + 2)) = i
    BY <1>0
  <2> QED
    BY <1>0, <1>5, <1>7, <2>1 DEF SpliceOf
<1> QED
  BY <1>0, <1>3, <1>6, <1>7, <1>8, <1>9 DEF BlocksMerged

\* splitIfWorthwhile: the rest of a block that is much too large becomes a block
\* of its own.
BlocksSplit(r, s, k, n) ==
    /\ r \in Seq(BlockType) /\ Len(r) = Len(s) + 1
    /\ \A i \in 1..(k - 1) : r[i] = s[i]
    /\ r[k] = [at |-> s[k].at, size |-> n, used |-> s[k].used]
    /\ r[k + 1] = [at |-> s[k].at + HeaderSize + n, size |-> s[k].size - n - HeaderSize, used |-> FALSE]
    /\ \A i \in (k + 1)..Len(s) : r[i + 1] = s[i]
LEMMA SplitIs ==
    ASSUME NEW s \in Seq(BlockType), NEW k \in DOMAIN s, NEW n \in Nat, n <= s[k].size
    PROVE  \/ splitIfWorthwhile(s, k, n) = s
           \/ BlocksSplit(splitIfWorthwhile(s, k, n), s, k, n) /\ n + HeaderSize <= s[k].size
<1>0. PICK l \in Nat : l = Len(s) /\ k \in 1..l
  OBVIOUS
<1>1. PICK d \in BlockType : d = s[k] /\ d.size \in Nat /\ d.at \in Nat
  <2>1. s[k] \in BlockType
    OBVIOUS
  <2> QED
    BY <2>1 DEF BlockType
<1>2. CASE d.size - n < HeaderSize + MinSplit
  BY <1>1, <1>2 DEF splitIfWorthwhile
<1>3. CASE ~(d.size - n < HeaderSize + MinSplit)
  <2>1. n + HeaderSize <= d.size /\ d.size - n - HeaderSize \in Nat /\ d.at + HeaderSize + n \in Nat
    <3>1. PICK x \in Nat, y \in Nat : x = d.size /\ y = d.at
      BY <1>1
    <3>2. ~(x - n < HeaderSize + MinSplit)
      BY <1>3, <3>1
    <3>3. n + HeaderSize <= x /\ x - n - HeaderSize \in Nat /\ y + HeaderSize + n \in Nat
      BY <3>2, Layout
    <3> QED
      BY <3>1, <3>3
  <2>2. PICK b, c : b = [d EXCEPT !.size = n]
                    /\ c = Block(d.at + HeaderSize + n, (d.size - n) - HeaderSize)
    OBVIOUS
  <2>3. b = [at |-> d.at, size |-> n, used |-> d.used] /\ b \in BlockType
    BY <1>1, <2>2 DEF BlockType
  <2>4. c = [at |-> d.at + HeaderSize + n, size |-> d.size - n - HeaderSize, used |-> FALSE]
        /\ c \in BlockType
    BY <2>1, <2>2 DEF Block, BlockType
  <2>5. PICK r : r = splitIfWorthwhile(s, k, n)
    OBVIOUS
  <2>6. r = SubSeq(s, 1, k - 1) \o <<b, c>> \o SubSeq(s, k + 1, Len(s))
    BY <1>1, <1>3, <2>2, <2>5 DEF splitIfWorthwhile
  <2>7. k - 1 \in Nat /\ k + 1 \in Nat /\ k - 1 < k + 1 /\ k + 1 <= Len(s) + 1
        /\ <<b, c>> \in Seq(BlockType) /\ Len(<<b, c>>) = 2 /\ <<b, c>>[1] = b /\ <<b, c>>[2] = c
    BY <1>0, <2>3, <2>4
  <2>8. r \in Seq(BlockType) /\ SpliceOf(r, s, <<b, c>>, k - 1, k + 1)
    <3> HIDE DEF BlockType
    <3> QED
      BY <2>6, <2>7, SpliceIs
  <2>9. Len(r) = l + 1 /\ (\A i \in 1..(k - 1) : r[i] = s[i]) /\ r[k] = b /\ r[k + 1] = c
    <3>1. (k - 1) + 2 + (l + 1 - (k + 1)) = l + 1 /\ (k - 1) + 1 = k /\ (k - 1) + 2 = k + 1
          /\ 1 \in 1..2 /\ 2 \in 1..2
      BY <1>0
    <3> QED
      BY <1>0, <2>7, <2>8, <3>1 DEF SpliceOf
  <2>10. ASSUME NEW i \in (k + 1)..l PROVE r[i + 1] = s[i]
    <3>1. (k - 1) + 2 + 1 + (i - (k + 1)) = i + 1
      BY <1>0
    <3> QED
      BY <1>0, <2>7, <2>8, <3>1 DEF SpliceOf
  <2>11. BlocksSplit(r, s, k, n)
    BY <1>0, <1>1, <2>3, <2>4, <2>8, <2>9, <2>10 DEF BlocksSplit
  <2> QED
    BY <1>1, <2>1, <2>5, <2>11
<1> QED
  BY <1>2, <1>3

\* Marking a block changes nothing else.
BlocksMarked(r, s, k, u) ==
    /\ r \in Seq(BlockType) /\ Len(r) = Len(s)
    /\ \A i \in DOMAIN s : i # k => r[i] = s[i]
    /\ r[k] = [at |-> s[k].at, size |-> s[k].size, used |-> u]
LEMMA MarkIs ==
    ASSUME NEW s \in Seq(BlockType), NEW k \in DOMAIN s, NEW u \in BOOLEAN
    PROVE  BlocksMarked([s EXCEPT ![k].used = u], s, k, u)
<1>1. PICK d \in BlockType : d = s[k]
  OBVIOUS
<1>2. PICK b : b = [d EXCEPT !.used = u]
  OBVIOUS
<1>3. b = [at |-> d.at, size |-> d.size, used |-> u] /\ b \in BlockType
  BY <1>2 DEF BlockType
<1>4. [s EXCEPT ![k].used = u] = [s EXCEPT ![k] = b]
  BY <1>1, <1>2
<1>5. /\ [s EXCEPT ![k] = b] \in Seq(BlockType) /\ Len([s EXCEPT ![k] = b]) = Len(s)
      /\ \A j \in 1..Len(s) : [s EXCEPT ![k] = b][j] = IF j = k THEN b ELSE s[j]
  <2>1. k \in 1..Len(s)
    OBVIOUS
  <2> HIDE DEF BlockType
  <2> QED
    BY <1>3, <2>1, ExceptSeq
<1>6. DOMAIN s = 1..Len(s)
  OBVIOUS
<1> QED
  BY <1>1, <1>3, <1>4, <1>5, <1>6 DEF BlocksMarked

\* What Laid says, for a list of known length.
LEMMA LaidFacts ==
    ASSUME NEW s, Laid(s)
    PROVE  /\ Len(s) \in Nat /\ DOMAIN s = 1..Len(s) /\ 1 \in DOMAIN s
           /\ \A k \in DOMAIN s : /\ s[k] \in BlockType /\ s[k].at \in Nat /\ s[k].size \in Nat
                                  /\ s[k].used \in BOOLEAN /\ end(s[k]) \in Nat
                                  /\ s[k].at < end(s[k])
<1>1. s \in Seq(BlockType) /\ Len(s) > 0
  BY DEF Laid
<1>2. Len(s) \in Nat /\ DOMAIN s = 1..Len(s) /\ 1 \in DOMAIN s
  BY <1>1
<1>3. ASSUME NEW k \in DOMAIN s
      PROVE  /\ s[k] \in BlockType /\ s[k].at \in Nat /\ s[k].size \in Nat
             /\ s[k].used \in BOOLEAN /\ end(s[k]) \in Nat /\ s[k].at < end(s[k])
  <2>1. s[k] \in BlockType
    BY <1>1
  <2>2. s[k].at \in Nat /\ s[k].size \in Nat /\ s[k].used \in BOOLEAN
    BY <2>1 DEF BlockType
  <2> QED
    BY <2>1, <2>2, Layout DEF end
<1> QED
  BY <1>2, <1>3

\* A list whose blocks begin where s's blocks f[i] begin and end where its blocks
\* g[i] end is laid if nothing is left out between them.
Via(r, s, n, f, g) ==
    /\ r \in Seq(BlockType) /\ Len(r) = n /\ n > 0
    /\ f \in [1..n -> DOMAIN s] /\ g \in [1..n -> DOMAIN s]
    /\ f[1] = 1 /\ g[n] = Len(s)
    /\ \A i \in 1..n : r[i].at = s[f[i]].at /\ end(r[i]) = end(s[g[i]])
    /\ \A i \in 1..n : i # n => f[i + 1] = g[i] + 1
    /\ \A i, j \in 1..n : i < j => g[i] < f[j]
LEMMA LaidVia ==
    ASSUME NEW s, Laid(s), NEW r, NEW n \in Nat, NEW f, NEW g, Via(r, s, n, f, g)
    PROVE  Laid(r)
<1>1. PICK l \in Nat : l = Len(s) /\ DOMAIN s = 1..l
  BY LaidFacts
<1>2. /\ \A k \in 1..l : s[k].at >= SegmentSize /\ end(s[k]) <= PageSize
      /\ \A k \in 1..l : end(s[k]) = IF k = l THEN PageSize ELSE s[k + 1].at
      /\ \A j, k \in 1..l : j < k => end(s[j]) <= s[k].at
      /\ s[1].at = SegmentSize
  BY <1>1 DEF Laid
<1>3. /\ \A i \in 1..n : f[i] \in 1..l /\ g[i] \in 1..l
      /\ \A i \in 1..n : r[i].at = s[f[i]].at
      /\ \A i \in 1..n : end(r[i]) = end(s[g[i]])
  BY <1>1 DEF Via
<1>4. r \in Seq(BlockType) /\ Len(r) = n /\ n > 0 /\ DOMAIN r = 1..n
  BY DEF Via
<1>5. r[1].at = SegmentSize
  <2>1. f[1] = 1 /\ 1 \in 1..n
    BY <1>4 DEF Via
  <2> QED
    BY <1>2, <1>3, <2>1
<1>6. ASSUME NEW k \in 1..n PROVE r[k].at >= SegmentSize /\ end(r[k]) <= PageSize
  <2>1. PICK x \in 1..l, y \in 1..l : x = f[k] /\ y = g[k]
    BY <1>3
  <2>2. r[k].at = s[x].at /\ end(r[k]) = end(s[y])
    BY <1>3, <2>1
  <2> QED
    BY <1>2, <2>2
<1>7. ASSUME NEW k \in 1..n PROVE end(r[k]) = IF k = n THEN PageSize ELSE r[k + 1].at
  <2>1. PICK y \in 1..l : y = g[k] /\ end(r[k]) = end(s[y])
    BY <1>3
  <2>2. CASE k = n
    <3>1. y = l
      BY <1>1, <2>1, <2>2 DEF Via
    <3>2. end(s[y]) = PageSize
      BY <1>2, <3>1
    <3> QED
      BY <2>1, <2>2, <3>2
  <2>3. CASE k # n
    <3>1. f[k + 1] = y + 1
      BY <2>1, <2>3 DEF Via
    <3>2. k + 1 \in 1..n
      BY <2>3
    <3>3. y + 1 \in 1..l /\ r[k + 1].at = s[y + 1].at
      BY <1>3, <3>1, <3>2
    <3>4. y # l
      BY <3>3
    <3>5. end(s[y]) = s[y + 1].at
      BY <1>2, <3>4
    <3> QED
      BY <2>1, <2>3, <3>3, <3>5
  <2> QED
    BY <2>2, <2>3
<1>8. ASSUME NEW j \in 1..n, NEW k \in 1..n, j < k PROVE end(r[j]) <= r[k].at
  <2>1. PICK y \in 1..l, x \in 1..l : y = g[j] /\ x = f[k]
    BY <1>3
  <2>2. y < x
    BY <1>8, <2>1 DEF Via
  <2>3. end(r[j]) = end(s[y]) /\ r[k].at = s[x].at
    BY <1>3, <2>1
  <2> QED
    BY <1>2, <2>2, <2>3
<1> QED
  BY <1>4, <1>5, <1>6, <1>7, <1>8 DEF Laid

LEMMA MarkLaid ==
    ASSUME NEW s, Laid(s), NEW k \in DOMAIN s, NEW u, NEW r, BlocksMarked(r, s, k, u)
    PROVE  Laid(r)
<1>1. PICK n \in Nat : n = Len(s) /\ DOMAIN s = 1..n /\ n > 0
  BY LaidFacts DEF Laid
<1>2. r \in Seq(BlockType) /\ Len(r) = n
  BY <1>1 DEF BlocksMarked
<1> DEFINE f == [i \in 1..n |-> i]
<1>3. f \in [1..n -> DOMAIN s] /\ f[1] = 1 /\ f[n] = n /\ \A i \in 1..n : f[i] = i
  BY <1>1
<1>4. \A i \in 1..n : r[i].at = s[i].at /\ end(r[i]) = end(s[i])
  BY <1>1 DEF BlocksMarked, end
<1> HIDE DEF f
<1>5. \A i \in 1..n : i # n => f[i + 1] = f[i] + 1
  BY <1>3
<1>6. \A i, j \in 1..n : i < j => f[i] < f[j]
  BY <1>3
<1>7. \A i \in 1..n : r[i].at = s[f[i]].at /\ end(r[i]) = end(s[f[i]])
  BY <1>3, <1>4
<1>8. Via(r, s, n, f, f)
  BY <1>1, <1>2, <1>3, <1>5, <1>6, <1>7 DEF Via
<1> QED
  BY <1>8, LaidVia

LEMMA MergeLaid ==
    ASSUME NEW s, Laid(s), NEW k \in 1..(Len(s) - 1), NEW r, BlocksMerged(r, s, k)
    PROVE  Laid(r)
<1>1. PICK l \in Nat : l = Len(s) /\ DOMAIN s = 1..l /\ k \in 1..(l - 1)
  BY LaidFacts
<1>2. PICK n \in Nat : n = l - 1 /\ n > 0
  BY <1>1
<1>3. r \in Seq(BlockType) /\ Len(r) = n
  BY <1>1, <1>2 DEF BlocksMerged
<1> DEFINE f == [i \in 1..n |-> IF i <= k THEN i ELSE i + 1]
           g == [i \in 1..n |-> IF i < k THEN i ELSE i + 1]
<1>4. f \in [1..n -> DOMAIN s] /\ g \in [1..n -> DOMAIN s]
  BY <1>1, <1>2
<1>5. f[1] = 1 /\ g[n] = l
  BY <1>1, <1>2
<1>6. \A i \in 1..n : i # n => f[i + 1] = g[i] + 1
  BY <1>1, <1>2
<1>7. \A i, j \in 1..n : i < j => g[i] < f[j]
  BY <1>1, <1>2
<1>8. ASSUME NEW i \in 1..n PROVE r[i].at = s[f[i]].at /\ end(r[i]) = end(s[g[i]])
  <2>1. CASE i < k
    <3>1. i \in 1..(k - 1) /\ f[i] = i /\ g[i] = i
      BY <1>1, <2>1
    <3> QED
      BY <3>1 DEF BlocksMerged
  <2>2. CASE i = k
    <3>1. f[i] = k /\ g[i] = k + 1
      BY <1>1, <2>2
    <3>2. end(s[k]) = s[k + 1].at /\ k \in DOMAIN s /\ k + 1 \in DOMAIN s
      BY <1>1 DEF Laid
    <3>3. PICK a \in Nat, x \in Nat, b \in Nat, y \in Nat :
             a = s[k].at /\ x = s[k].size /\ b = s[k + 1].at /\ y = s[k + 1].size
      BY <3>2, LaidFacts
    <3>4. r[k].at = a /\ r[k].size = x + HeaderSize + y
      BY <3>3 DEF BlocksMerged
    <3> HIDE DEF f, g
    <3>5. a + HeaderSize + x = b
      BY <3>2, <3>3 DEF end
    <3>6. a + HeaderSize + (x + HeaderSize + y) = b + HeaderSize + y
      BY <3>5, Layout
    <3>7. end(r[k]) = end(s[k + 1])
      BY <3>3, <3>4, <3>6 DEF end
    <3> QED
      BY <2>2, <3>1, <3>3, <3>4, <3>7
  <2>3. CASE i > k
    <3>1. i \in (k + 1)..(l - 1) /\ f[i] = i + 1 /\ g[i] = i + 1
      BY <1>1, <1>2, <2>3
    <3> QED
      BY <1>1, <3>1 DEF BlocksMerged
  <2> QED
    BY <2>1, <2>2, <2>3
<1> HIDE DEF f, g
<1>9. Via(r, s, n, f, g)
  BY <1>1, <1>2, <1>3, <1>4, <1>5, <1>6, <1>7, <1>8 DEF Via
<1> QED
  BY <1>9, LaidVia

LEMMA SplitLaid ==
    ASSUME NEW s, Laid(s), NEW k \in DOMAIN s, NEW m \in Nat, NEW r,
           BlocksSplit(r, s, k, m), m + HeaderSize <= s[k].size
    PROVE  Laid(r)
<1>1. PICK l \in Nat : l = Len(s) /\ DOMAIN s = 1..l /\ k \in 1..l
  BY LaidFacts
<1>2. r \in Seq(BlockType) /\ Len(r) = l + 1
  BY <1>1 DEF BlocksSplit
<1>3. s[k].at \in Nat /\ s[k].size \in Nat
  BY LaidFacts
<1>4. \A i \in 1..(l + 1) : \/ i \in 1..(k - 1) \/ i = k \/ i = k + 1
                            \/ i - 1 \in (k + 1)..l /\ (i - 1) + 1 = i
  BY <1>1
<1>5. /\ \A i \in 1..(k - 1) : r[i] = s[i]
      /\ r[k].at = s[k].at /\ r[k].size = m
      /\ r[k + 1].at = s[k].at + HeaderSize + m /\ r[k + 1].size = s[k].size - m - HeaderSize
      /\ \A i \in (k + 1)..l : r[i + 1] = s[i]
  BY <1>1 DEF BlocksSplit
<1>6. end(r[k]) = r[k + 1].at /\ end(r[k + 1]) = end(s[k])
      /\ s[k].at <= end(r[k]) /\ end(r[k]) <= end(s[k])
      /\ s[k].at <= r[k + 1].at /\ end(r[k]) \in Nat /\ end(s[k]) \in Nat
  BY <1>3, <1>5, Layout DEF end
<1>7. \A i \in 1..l : /\ s[i].at \in Nat /\ end(s[i]) \in Nat /\ s[i].at >= SegmentSize /\ end(s[i]) <= PageSize
                      /\ end(s[i]) = IF i = l THEN PageSize ELSE s[i + 1].at
  BY <1>1, LaidFacts DEF Laid
<1>8. \A i, j \in 1..l : i < j => end(s[i]) <= s[j].at
  BY <1>1 DEF Laid
<1>9. r[1].at = SegmentSize
  <2>1. s[1].at = SegmentSize /\ (1 \in 1..(k - 1) \/ k = 1)
    BY <1>1 DEF Laid
  <2> QED
    BY <1>5, <2>1
<1>10. ASSUME NEW i \in 1..(l + 1)
       PROVE  /\ r[i].at >= SegmentSize /\ end(r[i]) <= PageSize
              /\ end(r[i]) = IF i = l + 1 THEN PageSize ELSE r[i + 1].at
  <2>1. CASE i \in 1..(k - 1)
    <3>1. r[i] = s[i] /\ i \in 1..l /\ i # l /\ i # l + 1
      BY <1>1, <1>5, <2>1
    <3>2. r[i + 1].at = s[i + 1].at
      <4>1. i + 1 \in 1..(k - 1) \/ i + 1 = k
        BY <1>1, <2>1
      <4> QED
        BY <1>5, <4>1
    <3> QED
      BY <1>7, <3>1, <3>2
  <2>2. CASE i = k
    <3>1. end(s[k]) <= PageSize /\ s[k].at >= SegmentSize /\ i # l + 1
      BY <1>1, <1>7, <2>2
    <3> QED
      BY <1>3, <1>5, <1>6, <2>2, <3>1, Layout
  <2>3. CASE i = k + 1
    <3>1. s[k].at >= SegmentSize /\ end(s[k]) <= PageSize
          /\ end(s[k]) = IF k = l THEN PageSize ELSE s[k + 1].at
      BY <1>1, <1>7
    <3>2. k # l => k + 1 \in (k + 1)..l /\ (k + 1) + 1 = i + 1
      BY <1>1, <2>3
    <3>3. k = l <=> i = l + 1
      BY <1>1, <2>3
    <3>4. r[k + 1].at >= SegmentSize
      BY <1>3, <1>5, <3>1, Layout
    <3> QED
      BY <1>5, <1>6, <2>3, <3>1, <3>2, <3>3, <3>4
  <2>4. CASE i - 1 \in (k + 1)..l /\ (i - 1) + 1 = i
    <3>1. r[i] = s[i - 1] /\ i - 1 \in 1..l /\ (i - 1 = l <=> i = l + 1)
      BY <1>1, <1>5, <2>4
    <3>2. i # l + 1 => i \in (k + 1)..l /\ (i - 1) + 1 = i
      BY <1>1, <2>4
    <3>3. i # l + 1 => r[i + 1] = s[i]
      BY <1>5, <3>2
    <3> QED
      BY <1>7, <2>4, <3>1, <3>3
  <2> QED
    BY <1>4, <2>1, <2>2, <2>3, <2>4
<1>11. ASSUME NEW i \in 1..(l + 1), NEW j \in 1..(l + 1), i < j PROVE end(r[i]) <= r[j].at
  <2>1. PICK x \in 1..l : end(r[i]) <= end(s[x]) /\ end(r[i]) \in Nat
                          /\ x = IF i <= k THEN i ELSE i - 1
    <3>1. CASE i \in 1..(k - 1)
      <4>1. r[i] = s[i] /\ i \in 1..l /\ i <= k
        BY <1>1, <1>5, <3>1
      <4> QED
        BY <1>7, <4>1
    <3>2. CASE i = k
      BY <1>1, <1>6, <3>2
    <3>3. CASE i = k + 1
      BY <1>1, <1>6, <3>3
    <3>4. CASE i - 1 \in (k + 1)..l /\ (i - 1) + 1 = i
      <4>1. r[i] = s[i - 1] /\ i - 1 \in 1..l /\ ~(i <= k)
        BY <1>1, <1>5, <3>4
      <4> QED
        BY <1>7, <4>1
    <3> QED
      BY <1>4, <3>1, <3>2, <3>3, <3>4
  <2>2. PICK y \in 1..l : s[y].at <= r[j].at /\ r[j].at \in Nat
                          /\ y = IF j <= k THEN j ELSE j - 1
    <3>1. CASE j \in 1..(k - 1)
      <4>1. r[j] = s[j] /\ j \in 1..l /\ j <= k
        BY <1>1, <1>5, <3>1
      <4> QED
        BY <1>7, <4>1
    <3>2. CASE j = k
      BY <1>1, <1>3, <1>5, <3>2
    <3>3. CASE j = k + 1
      <4>1. r[k + 1].at \in Nat
        BY <1>3, <1>5, Layout
      <4> QED
        BY <1>1, <1>6, <3>3, <4>1
    <3>4. CASE j - 1 \in (k + 1)..l /\ (j - 1) + 1 = j
      <4>1. r[j] = s[j - 1] /\ j - 1 \in 1..l /\ ~(j <= k)
        BY <1>1, <1>5, <3>4
      <4> QED
        BY <1>7, <4>1
    <3> QED
      BY <1>4, <3>1, <3>2, <3>3, <3>4
  <2>3. CASE i = k /\ j = k + 1
    BY <1>6, <2>3
  <2>4. CASE ~(i = k /\ j = k + 1)
    <3>1. x < y
      BY <1>1, <1>11, <2>1, <2>2, <2>4
    <3>2. end(s[x]) <= s[y].at /\ end(s[x]) \in Nat /\ s[y].at \in Nat
      BY <1>7, <1>8, <3>1
    <3> QED
      BY <2>1, <2>2, <3>2
  <2> QED
    BY <2>3, <2>4
<1>12. DOMAIN r = 1..(l + 1) /\ l + 1 > 0
  BY <1>2
<1> QED
  BY <1>2, <1>9, <1>10, <1>11, <1>12 DEF Laid

-----------------------------------------------------------------------------
(***************************************************************************)
(* From lists of blocks to sets of blocks.                                 *)
(***************************************************************************)

\* A block of a page is known by its offset.
LEMMA AtOnce ==
    ASSUME NEW s, Laid(s), NEW j \in DOMAIN s, NEW k \in DOMAIN s, s[j].at = s[k].at
    PROVE  j = k
<1>1. PICK n \in Nat : DOMAIN s = 1..n
  BY LaidFacts
<1>2. /\ s[j].at \in Nat /\ s[k].at \in Nat /\ end(s[j]) \in Nat /\ end(s[k]) \in Nat
      /\ s[j].at < end(s[j]) /\ s[k].at < end(s[k])
  BY LaidFacts
<1>3. (j < k => end(s[j]) <= s[k].at) /\ (k < j => end(s[k]) <= s[j].at)
  BY DEF Laid
<1>4. ~(j < k) /\ ~(k < j)
  BY <1>2, <1>3
<1> QED
  BY <1>1, <1>4

part(p, s, K) == {onPage(p, s[k]) : k \in K}

LEMMA OnPage ==
    ASSUME NEW p, NEW b
    PROVE  /\ onPage(p, b).page = p /\ onPage(p, b).at = b.at
           /\ onPage(p, b).size = b.size /\ onPage(p, b).used = b.used
  BY DEF onPage

\* Some of a page's blocks, and the others.
Apart(p, s, K) ==
    /\ blocksOf(p, s) = part(p, s, DOMAIN s \ K) \cup part(p, s, K)
    /\ \A k \in K : onPage(p, s[k]) \notin part(p, s, DOMAIN s \ K)
LEMMA Parts ==
    ASSUME NEW s, Laid(s), NEW p, NEW K \in SUBSET (DOMAIN s)
    PROVE  Apart(p, s, K)
<1>1. blocksOf(p, s) = part(p, s, DOMAIN s \ K) \cup part(p, s, K)
  BY DEF blocksOf, part
<1>2. ASSUME NEW k \in K, onPage(p, s[k]) \in part(p, s, DOMAIN s \ K) PROVE FALSE
  <2>1. PICK j \in DOMAIN s \ K : onPage(p, s[k]) = onPage(p, s[j])
    BY <1>2 DEF part
  <2>2. s[k].at = s[j].at
    BY <2>1, OnPage
  <2>3. j = k
    BY <2>2, AtOnce
  <2> QED
    BY <2>1, <2>3
<1> QED
  BY <1>1, <1>2 DEF Apart

\* The same set with one member replaced, and with two replaced by one.
Swapped(A, B, x, y) == \E U : A = U \cup {x} /\ B = U \cup {y} /\ x \notin U /\ y \notin U
Fused(A, B, x, z, y) ==
    \E U : /\ A = U \cup {x, z} /\ B = U \cup {y}
           /\ x \notin U /\ z \notin U /\ y \notin U /\ x # z

LEMMA MarkSet ==
    ASSUME NEW s, Laid(s), NEW k \in DOMAIN s, NEW u, NEW r, BlocksMarked(r, s, k, u), NEW p
    PROVE  Swapped(blocksOf(p, s), blocksOf(p, r), onPage(p, s[k]), onPage(p, r[k]))
<1>1. Laid(r)
  BY MarkLaid
<1>2. DOMAIN r = DOMAIN s
  BY LaidFacts, <1>1 DEF BlocksMarked
<1>3. Apart(p, s, {k}) /\ Apart(p, r, {k})
  BY <1>1, <1>2, Parts
<1>4. part(p, r, DOMAIN r \ {k}) = part(p, s, DOMAIN s \ {k})
  BY <1>2 DEF part, BlocksMarked
<1>5. part(p, s, {k}) = {onPage(p, s[k])} /\ part(p, r, {k}) = {onPage(p, r[k])}
  BY DEF part
<1> QED
  BY <1>3, <1>4, <1>5 DEF Apart, Swapped

LEMMA MergeSet ==
    ASSUME NEW s, Laid(s), NEW k \in 1..(Len(s) - 1), NEW r, Laid(r), BlocksMerged(r, s, k), NEW p
    PROVE  Fused(blocksOf(p, s), blocksOf(p, r),
                 onPage(p, s[k]), onPage(p, s[k + 1]), onPage(p, r[k]))
<1>1. PICK l \in Nat : l = Len(s) /\ DOMAIN s = 1..l /\ k \in 1..(l - 1) /\ l - 1 \in Nat
  BY LaidFacts
<1>2. DOMAIN r = 1..(l - 1)
  BY <1>1, LaidFacts DEF BlocksMerged
<1>3. Apart(p, s, {k, k + 1}) /\ Apart(p, r, {k})
  <2>1. {k, k + 1} \in SUBSET (DOMAIN s) /\ {k} \in SUBSET (DOMAIN r)
    BY <1>1, <1>2
  <2> QED
    BY <2>1, Parts
<1>4. (\A i \in 1..(k - 1) : r[i] = s[i]) /\ \A i \in (k + 1)..(l - 1) : r[i] = s[i + 1]
  BY <1>1 DEF BlocksMerged
<1>5. part(p, r, DOMAIN r \ {k}) = part(p, s, DOMAIN s \ {k, k + 1})
  <2>1. ASSUME NEW i \in DOMAIN r \ {k}
        PROVE  \E j \in DOMAIN s \ {k, k + 1} : r[i] = s[j]
    <3>1. CASE i < k
      <4>1. i \in 1..(k - 1) /\ i \in DOMAIN s \ {k, k + 1}
        BY <1>1, <1>2, <3>1
      <4> QED
        BY <1>4, <4>1
    <3>2. CASE i > k
      <4>1. i \in (k + 1)..(l - 1) /\ i + 1 \in DOMAIN s \ {k, k + 1}
        BY <1>1, <1>2, <3>2
      <4> QED
        BY <1>4, <4>1
    <3> QED
      BY <1>1, <1>2, <3>1, <3>2
  <2>2. ASSUME NEW j \in DOMAIN s \ {k, k + 1}
        PROVE  \E i \in DOMAIN r \ {k} : r[i] = s[j]
    <3>1. CASE j < k
      <4>1. j \in 1..(k - 1) /\ j \in DOMAIN r \ {k}
        BY <1>1, <1>2, <3>1
      <4> QED
        BY <1>4, <4>1
    <3>2. CASE j > k
      <4>1. j - 1 \in (k + 1)..(l - 1) /\ j - 1 \in DOMAIN r \ {k} /\ (j - 1) + 1 = j
        BY <1>1, <1>2, <3>2
      <4> QED
        BY <1>4, <4>1
    <3> QED
      BY <1>1, <1>2, <3>1, <3>2
  <2> QED
    BY <2>1, <2>2 DEF part
<1>6. /\ part(p, s, {k, k + 1}) = {onPage(p, s[k]), onPage(p, s[k + 1])}
      /\ part(p, r, {k}) = {onPage(p, r[k])}
  BY DEF part
<1>7. onPage(p, s[k]) # onPage(p, s[k + 1])
  <2>1. k \in DOMAIN s /\ k + 1 \in DOMAIN s /\ k # k + 1
    BY <1>1
  <2>2. s[k].at # s[k + 1].at
    BY <2>1, AtOnce
  <2> QED
    BY <2>2, OnPage
<1>8. PICK U : U = part(p, s, DOMAIN s \ {k, k + 1})
  OBVIOUS
<1>9. /\ blocksOf(p, s) = U \cup {onPage(p, s[k]), onPage(p, s[k + 1])}
      /\ onPage(p, s[k]) \notin U /\ onPage(p, s[k + 1]) \notin U
  BY <1>3, <1>6, <1>8 DEF Apart
<1>10. blocksOf(p, r) = U \cup {onPage(p, r[k])} /\ onPage(p, r[k]) \notin U
  BY <1>3, <1>5, <1>6, <1>8 DEF Apart
<1> QED
  BY <1>7, <1>9, <1>10 DEF Fused

-----------------------------------------------------------------------------
(***************************************************************************)
(* The heap when the list of one segment is replaced.                      *)
(***************************************************************************)
put(h, i, r) == [h EXCEPT ![i].blocks = r]

\* Two heaps that differ in the blocks of one segment.
Differ(h, g, i) ==
    /\ PagesInv(h) /\ PagesInv(g) /\ i \in DOMAIN h
    /\ Len(g) = Len(h) /\ DOMAIN g = DOMAIN h
    /\ \A j \in DOMAIN h : j # i => g[j] = h[j]
    /\ g[i].page = h[i].page

LEMMA PutIs ==
    ASSUME NEW h, PagesInv(h), NEW i \in DOMAIN h, NEW r \in Seq(BlockType)
    PROVE  Differ(h, put(h, i, r), i) /\ put(h, i, r)[i].blocks = r
<1>1. h \in Seq(SegmentType) /\ DOMAIN h = 1..Len(h)
  BY DEF PagesInv
<1>2. PICK d \in SegmentType : d = h[i]
  BY <1>1
<1>3. PICK b : b = [d EXCEPT !.blocks = r]
  OBVIOUS
<1>4. b = [page |-> d.page, blocks |-> r] /\ b \in SegmentType
  BY <1>3 DEF SegmentType
<1>5. put(h, i, r) = [h EXCEPT ![i] = b]
  BY <1>2, <1>3 DEF put
<1>6. PICK g : g = put(h, i, r)
  OBVIOUS
<1>7. g \in Seq(SegmentType) /\ Len(g) = Len(h) /\ \A j \in 1..Len(h) : g[j] = IF j = i THEN b ELSE h[j]
  <2> HIDE DEF SegmentType
  <2> QED
    BY <1>1, <1>4, <1>5, <1>6, ExceptSeq
<1>8. DOMAIN g = DOMAIN h
  BY <1>1, <1>7
<1>9. g[i].page = h[i].page /\ g[i].blocks = r /\ \A j \in DOMAIN h : j # i => g[j] = h[j]
  BY <1>1, <1>2, <1>4, <1>7
<1>10. PagesInv(g)
  <2>1. ASSUME NEW j \in DOMAIN g PROVE g[j].page = Len(g) + 1 - j
    BY <1>7, <1>8, <1>9 DEF PagesInv
  <2>2. Len(g) <= PageBudget
    BY <1>7 DEF PagesInv
  <2> QED
    BY <1>7, <2>1, <2>2 DEF PagesInv
<1> QED
  BY <1>6, <1>7, <1>8, <1>9, <1>10 DEF Differ

LEMMA PutTwice ==
    ASSUME NEW h, PagesInv(h), NEW i \in DOMAIN h, NEW q \in Seq(BlockType), NEW r \in Seq(BlockType)
    PROVE  /\ Differ(put(h, i, q), put(h, i, r), i)
           /\ put(h, i, q)[i].page = h[i].page
  BY PutIs DEF Differ

\* The blocks of the other segments.
elsewhere(h, p) == {b \in allBlocks(h) : b.page # p}

LEMMA OthersAre ==
    ASSUME NEW h, PagesInv(h), NEW i \in DOMAIN h
    PROVE  /\ allBlocks(h) = elsewhere(h, h[i].page) \cup blocksOf(h[i].page, h[i].blocks)
           /\ \A b \in blocksOf(h[i].page, h[i].blocks) : b.page = h[i].page
           /\ elsewhere(h, h[i].page) = UNION {blocksOf(h[j].page, h[j].blocks) : j \in DOMAIN h \ {i}}
<1>1. ASSUME NEW j \in DOMAIN h PROVE \A b \in blocksOf(h[j].page, h[j].blocks) : b.page = h[j].page
  BY OnPage DEF blocksOf
<1>2. ASSUME NEW j \in DOMAIN h, j # i PROVE h[j].page # h[i].page
  <2>1. PICK n \in Nat : n = Len(h) /\ DOMAIN h = 1..n
    BY DEF PagesInv
  <2>2. h[j].page = n + 1 - j /\ h[i].page = n + 1 - i
    BY <2>1 DEF PagesInv
  <2> QED
    BY <1>2, <2>1, <2>2
<1>3. elsewhere(h, h[i].page) = UNION {blocksOf(h[j].page, h[j].blocks) : j \in DOMAIN h \ {i}}
  <2>1. ASSUME NEW b \in elsewhere(h, h[i].page)
        PROVE  b \in UNION {blocksOf(h[j].page, h[j].blocks) : j \in DOMAIN h \ {i}}
    <3>1. PICK j \in DOMAIN h : b \in blocksOf(h[j].page, h[j].blocks)
      BY DEF elsewhere, allBlocks
    <3>2. j # i
      BY <1>1, <3>1 DEF elsewhere
    <3> QED
      BY <3>1, <3>2
  <2>2. ASSUME NEW b \in UNION {blocksOf(h[j].page, h[j].blocks) : j \in DOMAIN h \ {i}}
        PROVE  b \in elsewhere(h, h[i].page)
    <3>1. PICK j \in DOMAIN h \ {i} : b \in blocksOf(h[j].page, h[j].blocks)
      OBVIOUS
    <3>2. b.page # h[i].page
      BY <1>1, <1>2, <3>1
    <3> QED
      BY <3>1, <3>2 DEF elsewhere, allBlocks
  <2> QED
    BY <2>1, <2>2
<1>4. allBlocks(h) = elsewhere(h, h[i].page) \cup blocksOf(h[i].page, h[i].blocks)
  <2>1. blocksOf(h[i].page, h[i].blocks) \subseteq allBlocks(h)
    BY DEF allBlocks
  <2>2. ASSUME NEW b \in allBlocks(h), b.page = h[i].page
        PROVE  b \in blocksOf(h[i].page, h[i].blocks)
    <3>1. PICK j \in DOMAIN h : b \in blocksOf(h[j].page, h[j].blocks)
      BY DEF allBlocks
    <3>2. h[j].page = h[i].page
      BY <1>1, <2>2, <3>1
    <3> QED
      BY <1>2, <3>1, <3>2
  <2> QED
    BY <2>1, <2>2 DEF elsewhere
<1> QED
  BY <1>1, <1>3, <1>4

LEMMA ElsewhereSame ==
    ASSUME NEW h, NEW g, NEW i, Differ(h, g, i)
    PROVE  elsewhere(g, h[i].page) = elsewhere(h, h[i].page)
<1>1. PagesInv(h) /\ PagesInv(g) /\ i \in DOMAIN h /\ i \in DOMAIN g /\ g[i].page = h[i].page
  BY DEF Differ
<1>2. /\ elsewhere(h, h[i].page) = UNION {blocksOf(h[j].page, h[j].blocks) : j \in DOMAIN h \ {i}}
      /\ elsewhere(g, g[i].page) = UNION {blocksOf(g[j].page, g[j].blocks) : j \in DOMAIN g \ {i}}
  BY <1>1, OthersAre
<1>3. DOMAIN g = DOMAIN h /\ \A j \in DOMAIN h \ {i} : g[j] = h[j]
  BY DEF Differ
<1>4. UNION {blocksOf(g[j].page, g[j].blocks) : j \in DOMAIN g \ {i}}
      = UNION {blocksOf(h[j].page, h[j].blocks) : j \in DOMAIN h \ {i}}
  BY <1>3
<1> QED
  BY <1>1, <1>2, <1>4

\* The page that differs, and the blocks both heaps have.
TwoParts(h, g, i, p, E) ==
    /\ allBlocks(h) = E \cup blocksOf(p, h[i].blocks) /\ allBlocks(g) = E \cup blocksOf(p, g[i].blocks)
    /\ \A b \in E : b.page # p
    /\ \A b \in blocksOf(p, h[i].blocks) : b.page = p
    /\ \A b \in blocksOf(p, g[i].blocks) : b.page = p
LEMMA InTwoParts ==
    ASSUME NEW h, NEW g, NEW i, Differ(h, g, i)
    PROVE  TwoParts(h, g, i, h[i].page, elsewhere(h, h[i].page))
<1>1. PagesInv(h) /\ PagesInv(g) /\ i \in DOMAIN h /\ i \in DOMAIN g /\ g[i].page = h[i].page
  BY DEF Differ
<1>2. elsewhere(g, h[i].page) = elsewhere(h, h[i].page)
  BY ElsewhereSame
<1>3. \A b \in elsewhere(h, h[i].page) : b.page # h[i].page
  BY DEF elsewhere
<1>4. /\ allBlocks(h) = elsewhere(h, h[i].page) \cup blocksOf(h[i].page, h[i].blocks)
      /\ \A b \in blocksOf(h[i].page, h[i].blocks) : b.page = h[i].page
  BY <1>1, OthersAre
<1>5. /\ allBlocks(g) = elsewhere(g, g[i].page) \cup blocksOf(g[i].page, g[i].blocks)
      /\ \A b \in blocksOf(g[i].page, g[i].blocks) : b.page = g[i].page
  BY <1>1, OthersAre
<1> QED
  BY <1>1, <1>2, <1>3, <1>4, <1>5 DEF TwoParts

\* What is exchanged in one page is exchanged in the heap.
LEMMA SwapAll ==
    ASSUME NEW h, NEW g, NEW i, Differ(h, g, i), NEW x, NEW y,
           Swapped(blocksOf(h[i].page, h[i].blocks), blocksOf(h[i].page, g[i].blocks), x, y)
    PROVE  Swapped(allBlocks(h), allBlocks(g), x, y)
<1>1. PICK p : p = h[i].page
  OBVIOUS
<1>2. PICK E : E = elsewhere(h, p)
  OBVIOUS
<1>3. TwoParts(h, g, i, p, E)
  BY <1>1, <1>2, InTwoParts
<1>4. PICK U : /\ blocksOf(p, h[i].blocks) = U \cup {x} /\ blocksOf(p, g[i].blocks) = U \cup {y}
               /\ x \notin U /\ y \notin U
  BY <1>1 DEF Swapped
<1>5. x.page = p /\ y.page = p
  BY <1>3, <1>4 DEF TwoParts
<1>6. PICK V : V = E \cup U
  OBVIOUS
<1>7. allBlocks(h) = V \cup {x} /\ allBlocks(g) = V \cup {y} /\ x \notin V /\ y \notin V
  BY <1>3, <1>4, <1>5, <1>6 DEF TwoParts
<1> QED
  BY <1>7 DEF Swapped

LEMMA FuseAll ==
    ASSUME NEW h, NEW g, NEW i, Differ(h, g, i), NEW x, NEW z, NEW y,
           Fused(blocksOf(h[i].page, h[i].blocks), blocksOf(h[i].page, g[i].blocks), x, z, y)
    PROVE  Fused(allBlocks(h), allBlocks(g), x, z, y)
<1>1. PICK p : p = h[i].page
  OBVIOUS
<1>2. PICK E : E = elsewhere(h, p)
  OBVIOUS
<1>3. TwoParts(h, g, i, p, E)
  BY <1>1, <1>2, InTwoParts
<1>4. PICK U : /\ blocksOf(p, h[i].blocks) = U \cup {x, z} /\ blocksOf(p, g[i].blocks) = U \cup {y}
               /\ x \notin U /\ z \notin U /\ y \notin U /\ x # z
  BY <1>1 DEF Fused
<1>5. x.page = p /\ y.page = p /\ z.page = p
  BY <1>3, <1>4 DEF TwoParts
<1>6. PICK V : V = E \cup U
  OBVIOUS
<1>7. /\ allBlocks(h) = V \cup {x, z} /\ allBlocks(g) = V \cup {y}
      /\ x \notin V /\ y \notin V /\ z \notin V /\ x # z
  BY <1>3, <1>4, <1>5, <1>6 DEF TwoParts
<1> QED
  BY <1>7 DEF Fused

-----------------------------------------------------------------------------
(***************************************************************************)
(* Splitting, merging and marking blocks: the pages stay filled.           *)
(***************************************************************************)
LEMMA RoomAdd ==
    ASSUME NEW S, Sized(S), NEW x, x \notin S, x.size \in Nat
    PROVE  Sized(S \cup {x}) /\ room(S) \in Nat /\ room(S \cup {x}) = room(S) + (HeaderSize + x.size)
<1>1. bytesOf(S) \in Nat /\ bytesOf(S \cup {x}) = bytesOf(S) + x.size
  BY BytesAdd DEF Sized
<1>2. IsFiniteSet(S \cup {x}) /\ Cardinality(S \cup {x}) = Cardinality(S) + 1 /\ Cardinality(S) \in Nat
  BY FS_AddElement, FS_CardinalityType DEF Sized
<1>3. ASSUME NEW c \in Nat, NEW e \in Nat, NEW b \in Nat, NEW d \in Nat
      PROVE  (b + d) + e * (c + 1) = (b + e * c) + (e + d) /\ b + e * c \in Nat
  OBVIOUS
<1>4. \A b \in S \cup {x} : b.size \in Nat
  BY DEF Sized
<1> QED
  BY <1>1, <1>2, <1>3, <1>4, Layout DEF room, Sized

LEMMA SizedPart ==
    ASSUME NEW S, Sized(S), NEW A \in SUBSET S
    PROVE  Sized(A)
  BY FS_Subset DEF Sized

LEMMA RoomSwap ==
    ASSUME NEW A, Sized(A), NEW B, NEW x, NEW y, Swapped(A, B, x, y), y.size = x.size
    PROVE  Sized(B) /\ room(B) = room(A)
<1>1. PICK U : A = U \cup {x} /\ B = U \cup {y} /\ x \notin U /\ y \notin U
  BY DEF Swapped
<1>2. Sized(U) /\ x.size \in Nat /\ y.size \in Nat
  <2>1. U \in SUBSET A /\ x \in A
    BY <1>1
  <2> QED
    BY <2>1, SizedPart DEF Sized
<1> QED
  BY <1>1, <1>2, RoomAdd

\* Two blocks and the block that covers both.
LEMMA RoomOfTwo ==
    ASSUME NEW U, Sized(U), NEW x, NEW z, NEW y, x \notin U, z \notin U, y \notin U, x # z,
           x.size \in Nat, z.size \in Nat, y.size = x.size + HeaderSize + z.size
    PROVE  /\ Sized(U \cup {x, z}) /\ Sized(U \cup {y})
           /\ room(U \cup {x, z}) = room(U \cup {y})
<1>1. y.size \in Nat
  BY Layout
<1>2. Sized(U \cup {y}) /\ room(U) \in Nat /\ room(U \cup {y}) = room(U) + (HeaderSize + y.size)
  BY <1>1, RoomAdd
<1>3. PICK V : V = U \cup {x}
  OBVIOUS
<1>4. Sized(V) /\ room(V) = room(U) + (HeaderSize + x.size)
  BY <1>3, RoomAdd
<1>5. z \notin V /\ U \cup {x, z} = V \cup {z}
  BY <1>3
<1>6. Sized(V \cup {z}) /\ room(V \cup {z}) = room(V) + (HeaderSize + z.size)
  BY <1>4, <1>5, RoomAdd
<1>7. ASSUME NEW u \in Nat, NEW e \in Nat, NEW d \in Nat, NEW c \in Nat
      PROVE  u + (e + d) + (e + c) = u + (e + (d + e + c))
  OBVIOUS
<1>8. room(V \cup {z}) = (room(U) + (HeaderSize + x.size)) + (HeaderSize + z.size)
  BY <1>4, <1>6
<1>9. room(U \cup {y}) = room(U) + (HeaderSize + (x.size + HeaderSize + z.size))
  BY <1>2
<1>10. room(V \cup {z}) = room(U \cup {y})
  BY <1>2, <1>7, <1>8, <1>9, Layout
<1> QED
  BY <1>2, <1>5, <1>6, <1>10

LEMMA RoomFuse ==
    ASSUME NEW A, NEW B, NEW x, NEW z, NEW y, Fused(A, B, x, z, y), Sized(A) \/ Sized(B),
           x.size \in Nat, z.size \in Nat, y.size = x.size + HeaderSize + z.size
    PROVE  Sized(A) /\ Sized(B) /\ room(A) = room(B)
<1>1. PICK U : /\ A = U \cup {x, z} /\ B = U \cup {y}
               /\ x \notin U /\ z \notin U /\ y \notin U /\ x # z
  BY DEF Fused
<1>2. Sized(U)
  <2>1. U \in SUBSET A /\ U \in SUBSET B
    BY <1>1
  <2> QED
    BY <2>1, SizedPart
<1> QED
  BY <1>1, <1>2, RoomOfTwo

\* One segment's list is replaced by another laid list that takes as much room.
LEMMA FilledPut ==
    ASSUME NEW h, Filled(h), NEW g, NEW i, Differ(h, g, i), Laid(g[i].blocks),
           Sized(allBlocks(g)), room(allBlocks(g)) = room(allBlocks(h))
    PROVE  Filled(g)
<1>1. LaidInv(g)
  <2>1. DOMAIN g = DOMAIN h /\ \A j \in DOMAIN h : j # i => g[j] = h[j]
    BY DEF Differ
  <2> QED
    BY <2>1 DEF Filled, LaidInv
<1>2. PagesInv(g) /\ Len(g) = Len(h)
  BY DEF Differ
<1> QED
  BY <1>1, <1>2 DEF Filled, RoomInv

LEMMA HeapMark ==
    ASSUME NEW h, Filled(h), NEW g, NEW i, Differ(h, g, i),
           NEW k \in DOMAIN h[i].blocks, NEW u, BlocksMarked(g[i].blocks, h[i].blocks, k, u)
    PROVE  /\ Filled(g)
           /\ Swapped(allBlocks(h), allBlocks(g),
                      onPage(h[i].page, h[i].blocks[k]), onPage(h[i].page, g[i].blocks[k]))
<1>1. PICK s, r, p : s = h[i].blocks /\ r = g[i].blocks /\ p = h[i].page
  OBVIOUS
<1>2. Laid(s)
  BY <1>1 DEF Filled, LaidInv, Differ
<1>3. Laid(r)
  BY <1>1, <1>2, MarkLaid
<1>4. Swapped(blocksOf(p, s), blocksOf(p, r), onPage(p, s[k]), onPage(p, r[k]))
  BY <1>1, <1>2, MarkSet
<1>5. Swapped(allBlocks(h), allBlocks(g), onPage(p, s[k]), onPage(p, r[k]))
  BY <1>1, <1>4, SwapAll
<1>6. onPage(p, r[k]).size = onPage(p, s[k]).size
  BY <1>1, OnPage DEF BlocksMarked
<1>7. Sized(allBlocks(h))
  BY DEF Filled, RoomInv
<1>8. Sized(allBlocks(g)) /\ room(allBlocks(g)) = room(allBlocks(h))
  BY <1>5, <1>6, <1>7, RoomSwap
<1>9. Filled(g)
  BY <1>1, <1>3, <1>8, FilledPut
<1> QED
  BY <1>1, <1>5, <1>9

LEMMA HeapMerge ==
    ASSUME NEW h, Filled(h), NEW g, NEW i, Differ(h, g, i),
           NEW k \in 1..(Len(h[i].blocks) - 1), BlocksMerged(g[i].blocks, h[i].blocks, k)
    PROVE  /\ Filled(g)
           /\ Fused(allBlocks(h), allBlocks(g),
                    onPage(h[i].page, h[i].blocks[k]), onPage(h[i].page, h[i].blocks[k + 1]),
                    onPage(h[i].page, g[i].blocks[k]))
<1>1. PICK s, r, p : s = h[i].blocks /\ r = g[i].blocks /\ p = h[i].page
  OBVIOUS
<1>2. Laid(s)
  BY <1>1 DEF Filled, LaidInv, Differ
<1>3. Laid(r)
  BY <1>1, <1>2, MergeLaid
<1>4. Fused(blocksOf(p, s), blocksOf(p, r), onPage(p, s[k]), onPage(p, s[k + 1]), onPage(p, r[k]))
  BY <1>1, <1>2, <1>3, MergeSet
<1>5. Fused(allBlocks(h), allBlocks(g), onPage(p, s[k]), onPage(p, s[k + 1]), onPage(p, r[k]))
  BY <1>1, <1>4, FuseAll
<1>6. PICK x, z, y : x = onPage(p, s[k]) /\ z = onPage(p, s[k + 1]) /\ y = onPage(p, r[k])
  OBVIOUS
<1>7. x.size = s[k].size /\ z.size = s[k + 1].size /\ y.size = s[k].size + HeaderSize + s[k + 1].size
  BY <1>1, <1>6, OnPage DEF BlocksMerged
<1>8. k \in DOMAIN s /\ k + 1 \in DOMAIN s
  BY <1>1, <1>2, LaidFacts
<1>9. x.size \in Nat /\ z.size \in Nat
  BY <1>2, <1>7, <1>8, LaidFacts
<1>10. Sized(allBlocks(h))
  BY DEF Filled, RoomInv
<1>11. Sized(allBlocks(g)) /\ room(allBlocks(g)) = room(allBlocks(h))
  BY <1>5, <1>6, <1>7, <1>9, <1>10, RoomFuse
<1>12. Filled(g)
  BY <1>1, <1>3, <1>11, FilledPut
<1> QED
  BY <1>1, <1>5, <1>12

\* A split is a merge the other way round.
LEMMA SplitBack ==
    ASSUME NEW s, Laid(s), NEW k \in DOMAIN s, NEW n \in Nat, NEW r, BlocksSplit(r, s, k, n)
    PROVE  BlocksMerged(s, r, k) /\ k \in 1..(Len(r) - 1)
<1>1. PICK l \in Nat : l = Len(s) /\ DOMAIN s = 1..l /\ k \in 1..l /\ s \in Seq(BlockType)
  BY LaidFacts DEF Laid
<1>2. Len(r) = l + 1 /\ (l + 1) - 1 = l
  BY <1>1 DEF BlocksSplit
<1>3. PICK d \in BlockType : d = s[k]
  BY <1>1
<1>4. r[k].size = n /\ r[k].at = d.at /\ r[k].used = d.used /\ r[k + 1].size = d.size - n - HeaderSize
  BY <1>3 DEF BlocksSplit
<1>5. n + HeaderSize + (d.size - n - HeaderSize) = d.size
  BY Layout DEF BlockType
<1>6. s[k] = [at |-> r[k].at, size |-> r[k].size + HeaderSize + r[k + 1].size, used |-> r[k].used]
  BY <1>3, <1>4, <1>5 DEF BlockType
<1>7. (\A i \in 1..(k - 1) : r[i] = s[i]) /\ \A i \in (k + 1)..l : r[i + 1] = s[i]
  BY <1>1 DEF BlocksSplit
<1> QED
  BY <1>1, <1>2, <1>6, <1>7 DEF BlocksMerged

LEMMA HeapSplit ==
    ASSUME NEW h, Filled(h), NEW g, NEW i, Differ(h, g, i), NEW n \in Nat,
           NEW k \in DOMAIN h[i].blocks, BlocksSplit(g[i].blocks, h[i].blocks, k, n),
           n + HeaderSize <= h[i].blocks[k].size
    PROVE  /\ Filled(g)
           /\ Fused(allBlocks(g), allBlocks(h),
                    onPage(h[i].page, g[i].blocks[k]), onPage(h[i].page, g[i].blocks[k + 1]),
                    onPage(h[i].page, h[i].blocks[k]))
<1>1. PICK s, r, p : s = h[i].blocks /\ r = g[i].blocks /\ p = h[i].page
  OBVIOUS
<1>2. Laid(s)
  BY <1>1 DEF Filled, LaidInv, Differ
<1>3. Laid(r)
  BY <1>1, <1>2, SplitLaid
<1>4. BlocksMerged(s, r, k) /\ k \in 1..(Len(r) - 1)
  BY <1>1, <1>2, SplitBack
<1>5. Fused(blocksOf(p, r), blocksOf(p, s), onPage(p, r[k]), onPage(p, r[k + 1]), onPage(p, s[k]))
  BY <1>2, <1>3, <1>4, MergeSet
<1>6. Differ(g, h, i) /\ g[i].page = p
  BY <1>1 DEF Differ
<1>7. Fused(allBlocks(g), allBlocks(h), onPage(p, r[k]), onPage(p, r[k + 1]), onPage(p, s[k]))
  BY <1>1, <1>5, <1>6, FuseAll
<1>8. PICK x, z, y : x = onPage(p, r[k]) /\ z = onPage(p, r[k + 1]) /\ y = onPage(p, s[k])
  OBVIOUS
<1>9. x.size = r[k].size /\ z.size = r[k + 1].size /\ y.size = r[k].size + HeaderSize + r[k + 1].size
  BY <1>4, <1>8, OnPage DEF BlocksMerged
<1>10. k \in DOMAIN r /\ k + 1 \in DOMAIN r
  BY <1>3, <1>4, LaidFacts
<1>11. x.size \in Nat /\ z.size \in Nat
  BY <1>3, <1>9, <1>10, LaidFacts
<1>12. Sized(allBlocks(h))
  BY DEF Filled, RoomInv
<1>13. Sized(allBlocks(g)) /\ room(allBlocks(g)) = room(allBlocks(h))
  BY <1>7, <1>8, <1>9, <1>11, <1>12, RoomFuse
<1>14. Filled(g)
  BY <1>1, <1>3, <1>13, FilledPut
<1> QED
  BY <1>1, <1>7, <1>14

-----------------------------------------------------------------------------
(***************************************************************************)
(* No two free neighbours.                                                 *)
(***************************************************************************)
Pair(s, i) == s[i].used \/ s[i + 1].used

LEMMA JoinedPairs ==
    ASSUME NEW s, NEW n \in Nat, Len(s) = n
    PROVE  Joined(s) <=> \A i \in 1..(n - 1) : Pair(s, i)
  BY DEF Joined, Pair

\* A block that becomes used, with or without a free rest behind it.
LEMMA TakeJoins ==
    ASSUME NEW s \in Seq(BlockType), Joined(s), NEW k \in DOMAIN s, ~s[k].used, NEW t, NEW n,
           t = s \/ BlocksSplit(t, s, k, n), NEW r, BlocksMarked(r, t, k, TRUE)
    PROVE  Joined(r)
<1>1. PICK l \in Nat : l = Len(s) /\ DOMAIN s = 1..l /\ k \in 1..l
  OBVIOUS
<1>2. \A i \in 1..(l - 1) : Pair(s, i)
  BY <1>1, JoinedPairs
<1>3. r[k].used
  BY DEF BlocksMarked
<1>4. CASE t = s
  <2>1. Len(r) = l /\ \A i \in 1..l : i # k => r[i] = s[i]
    BY <1>1, <1>4 DEF BlocksMarked
  <2>2. ASSUME NEW i \in 1..(l - 1) PROVE Pair(r, i)
    <3>1. CASE i = k \/ i + 1 = k
      BY <1>3, <3>1 DEF Pair
    <3>2. CASE i # k /\ i + 1 # k
      <4>1. i \in 1..l /\ i + 1 \in 1..l
        OBVIOUS
      <4>2. r[i] = s[i] /\ r[i + 1] = s[i + 1]
        BY <2>1, <3>2, <4>1
      <4> QED
        BY <1>2, <4>2 DEF Pair
    <3> QED
      BY <3>1, <3>2
  <2> QED
    BY <2>1, <2>2, JoinedPairs
<1>5. CASE BlocksSplit(t, s, k, n)
  <2>1. /\ t \in Seq(BlockType) /\ Len(t) = l + 1
        /\ \A i \in 1..(k - 1) : t[i] = s[i]
        /\ \A i \in (k + 1)..l : t[i + 1] = s[i]
    BY <1>1, <1>5 DEF BlocksSplit
  <2>2. Len(r) = l + 1 /\ \A i \in 1..(l + 1) : i # k => r[i] = t[i]
    <3>1. DOMAIN t = 1..(l + 1)
      BY <2>1
    <3> QED
      BY <2>1, <3>1 DEF BlocksMarked
  <2>3. \A i \in 1..(k - 1) : r[i] = s[i]
    <3>1. \A i \in 1..(k - 1) : i \in 1..(l + 1) /\ i # k
      BY <1>1
    <3> QED
      BY <2>1, <2>2, <3>1
  <2>4. \A i \in (k + 1)..l : r[i + 1] = s[i]
    <3>1. \A i \in (k + 1)..l : i + 1 \in 1..(l + 1) /\ i + 1 # k
      BY <1>1
    <3> QED
      BY <2>1, <2>2, <3>1
  <2>5. ASSUME NEW i \in 1..l PROVE Pair(r, i)
    <3>1. CASE i = k \/ i + 1 = k
      BY <1>3, <3>1 DEF Pair
    <3>2. CASE i + 1 < k
      <4>1. i \in 1..(k - 1) /\ i + 1 \in 1..(k - 1) /\ i \in 1..(l - 1)
        BY <1>1, <3>2
      <4>2. r[i] = s[i] /\ r[i + 1] = s[i + 1]
        BY <2>3, <4>1
      <4> QED
        BY <1>2, <4>1, <4>2 DEF Pair
    <3>3. CASE i = k + 1
      <4>1. k \in 1..(l - 1) /\ k + 1 \in (k + 1)..l
        BY <1>1, <3>3
      <4>2. r[(k + 1) + 1] = s[k + 1]
        BY <2>4, <4>1
      <4>3. s[k + 1].used
        BY <1>2, <4>1 DEF Pair
      <4> QED
        BY <3>3, <4>2, <4>3 DEF Pair
    <3>4. CASE i > k + 1
      <4>1. i - 1 \in (k + 1)..l /\ i \in (k + 1)..l /\ i - 1 \in 1..(l - 1) /\ (i - 1) + 1 = i
        BY <1>1, <3>4
      <4>2. r[(i - 1) + 1] = s[i - 1] /\ r[i + 1] = s[i]
        BY <2>4, <4>1
      <4>3. r[i] = s[i - 1] /\ Pair(s, i - 1) /\ s[(i - 1) + 1] = s[i]
        BY <1>2, <4>1, <4>2
      <4> QED
        BY <4>2, <4>3 DEF Pair
    <3> QED
      BY <1>1, <3>1, <3>2, <3>3, <3>4
  <2>6. (l + 1) - 1 = l /\ l + 1 \in Nat
    BY <1>1
  <2> QED
    BY <2>2, <2>5, <2>6, JoinedPairs
<1> QED
  BY <1>4, <1>5

\* The two halves of coalesce.
onwards(blocks, k) == IF k < Len(blocks) /\ ~blocks[k + 1].used THEN merge(blocks, k) ELSE blocks
backwards(blocks, k) == IF k > 1 /\ ~blocks[k - 1].used THEN merge(blocks, k - 1) ELSE blocks
LEMMA CoalesceIs ==
    ASSUME NEW s, NEW k
    PROVE  coalesce(s, k) = backwards(onwards(s, k), k)
  BY DEF coalesce, onwards, backwards

\* Block k is free, and only the pair behind it, or in front of it, may be free too.
LEMMA OnwardsJoins ==
    ASSUME NEW s \in Seq(BlockType), NEW k \in DOMAIN s, ~s[k].used, NEW r, r = onwards(s, k),
           \A i \in 1..(Len(s) - 1) : i # k /\ i + 1 # k => Pair(s, i)
    PROVE  /\ r \in Seq(BlockType) /\ k \in DOMAIN r /\ ~r[k].used
           /\ \A i \in 1..(Len(r) - 1) : i + 1 # k => Pair(r, i)
           /\ \/ r = s
              \/ k \in 1..(Len(s) - 1) /\ ~s[k + 1].used /\ BlocksMerged(r, s, k)
<1>1. PICK l \in Nat : l = Len(s) /\ DOMAIN s = 1..l /\ k \in 1..l
  OBVIOUS
<1>2. CASE ~(k < l /\ ~s[k + 1].used)
  <2>1. r = s
    BY <1>1, <1>2 DEF onwards
  <2>2. ASSUME NEW i \in 1..(l - 1), i + 1 # k PROVE Pair(s, i)
    <3>1. CASE i = k
      <4>1. s[k + 1].used
        BY <1>1, <1>2, <3>1
      <4> QED
        BY <3>1, <4>1 DEF Pair
    <3> QED
      BY <1>1, <2>2, <3>1
  <2> QED
    BY <1>1, <2>1, <2>2
<1>3. CASE k < l /\ ~s[k + 1].used
  <2>1. k \in 1..(l - 1) /\ r = merge(s, k)
    BY <1>1, <1>3 DEF onwards
  <2>2. BlocksMerged(r, s, k)
    BY <1>1, <2>1, MergeIs
  <2>3. /\ r \in Seq(BlockType) /\ Len(r) = l - 1 /\ l - 1 \in Nat
        /\ \A i \in 1..(k - 1) : r[i] = s[i]
        /\ r[k].used = s[k].used
        /\ \A i \in (k + 1)..(l - 1) : r[i] = s[i + 1]
    BY <1>1, <2>1, <2>2 DEF BlocksMerged
  <2>4. ASSUME NEW i \in 1..((l - 1) - 1), i + 1 # k PROVE Pair(r, i)
    <3>1. CASE i < k
      <4>1. i \in 1..(k - 1) /\ i + 1 \in 1..(k - 1) /\ i \in 1..(l - 1) /\ i # k
        BY <1>1, <2>1, <2>4, <3>1
      <4>2. r[i] = s[i] /\ r[i + 1] = s[i + 1] /\ Pair(s, i)
        BY <1>1, <2>3, <2>4, <4>1
      <4> QED
        BY <4>2 DEF Pair
    <3>2. CASE i = k
      <4>1. k + 1 \in (k + 1)..(l - 1) /\ k + 1 \in 1..(l - 1) /\ k + 1 # k /\ (k + 1) + 1 # k
        BY <1>1, <3>2
      <4>2. r[k + 1] = s[(k + 1) + 1] /\ Pair(s, k + 1)
        BY <1>1, <2>3, <4>1
      <4>3. r[k + 1].used
        BY <1>3, <4>2 DEF Pair
      <4> QED
        BY <3>2, <4>3 DEF Pair
    <3>3. CASE i > k
      <4>1. i \in (k + 1)..(l - 1) /\ i + 1 \in (k + 1)..(l - 1) /\ i + 1 \in 1..(l - 1)
            /\ i + 1 # k /\ (i + 1) + 1 # k
        BY <1>1, <3>3
      <4>2. r[i] = s[i + 1] /\ r[i + 1] = s[(i + 1) + 1] /\ Pair(s, i + 1)
        BY <1>1, <2>3, <4>1
      <4> QED
        BY <4>2 DEF Pair
    <3> QED
      BY <1>1, <3>1, <3>2, <3>3
  <2>5. k \in DOMAIN r
    BY <1>1, <2>1, <2>3
  <2> QED
    BY <1>1, <1>3, <2>1, <2>2, <2>3, <2>4, <2>5
<1> QED
  BY <1>2, <1>3

LEMMA BackwardsJoins ==
    ASSUME NEW s \in Seq(BlockType), NEW k \in DOMAIN s, ~s[k].used, NEW r, r = backwards(s, k),
           \A i \in 1..(Len(s) - 1) : i + 1 # k => Pair(s, i)
    PROVE  /\ r \in Seq(BlockType) /\ Joined(r)
           /\ \/ r = s
              \/ k - 1 \in 1..(Len(s) - 1) /\ ~s[k - 1].used /\ BlocksMerged(r, s, k - 1)
<1>1. PICK l \in Nat : l = Len(s) /\ DOMAIN s = 1..l /\ k \in 1..l
  OBVIOUS
<1>2. CASE ~(k > 1 /\ ~s[k - 1].used)
  <2>1. r = s
    BY <1>1, <1>2 DEF backwards
  <2>2. ASSUME NEW i \in 1..(l - 1) PROVE Pair(s, i)
    <3>1. CASE i + 1 = k
      <4>1. k > 1 /\ i = k - 1
        BY <1>1, <3>1
      <4>2. s[k - 1].used
        BY <1>2, <4>1
      <4> QED
        BY <4>1, <4>2 DEF Pair
    <3> QED
      BY <1>1, <3>1
  <2> QED
    BY <1>1, <2>1, <2>2, JoinedPairs
<1>3. CASE k > 1 /\ ~s[k - 1].used
  <2>1. PICK j \in 1..(l - 1) : j = k - 1 /\ k = j + 1 /\ r = merge(s, j)
    BY <1>1, <1>3 DEF backwards
  <2>2. BlocksMerged(r, s, j)
    BY <1>1, <2>1, MergeIs
  <2>3. /\ r \in Seq(BlockType) /\ Len(r) = l - 1 /\ l - 1 \in Nat
        /\ \A i \in 1..(j - 1) : r[i] = s[i]
        /\ r[j].used = s[j].used
        /\ \A i \in (j + 1)..(l - 1) : r[i] = s[i + 1]
    <3>1. l - 1 \in Nat
      BY <1>1
    <3>2. r[j].used = s[j].used
      BY <2>2 DEF BlocksMerged
    <3> QED
      BY <1>1, <2>2, <3>1, <3>2 DEF BlocksMerged
  <2>4. ASSUME NEW i \in 1..((l - 1) - 1) PROVE Pair(r, i)
    <3>1. CASE i + 1 <= j
      <4>1. i \in 1..(j - 1) /\ i \in 1..(l - 1) /\ i + 1 # k /\ (i + 1 \in 1..(j - 1) \/ i + 1 = j)
        BY <1>1, <2>1, <3>1
      <4>2. r[i] = s[i] /\ r[i + 1].used = s[i + 1].used /\ Pair(s, i)
        BY <1>1, <2>3, <4>1
      <4> QED
        BY <4>2 DEF Pair
    <3>2. CASE i = j
      <4>1. j + 1 \in (j + 1)..(l - 1) /\ k \in 1..(l - 1) /\ k + 1 # k
        BY <1>1, <2>1, <3>2
      <4>2. r[j + 1] = s[k + 1] /\ Pair(s, k)
        BY <1>1, <2>1, <2>3, <4>1
      <4>3. r[j + 1].used
        BY <4>2 DEF Pair
      <4> QED
        BY <3>2, <4>3 DEF Pair
    <3>3. CASE i > j
      <4>1. i \in (j + 1)..(l - 1) /\ i + 1 \in (j + 1)..(l - 1) /\ i + 1 \in 1..(l - 1) /\ (i + 1) + 1 # k
        BY <1>1, <2>1, <3>3
      <4>2. r[i] = s[i + 1] /\ r[i + 1] = s[(i + 1) + 1] /\ Pair(s, i + 1)
        BY <1>1, <2>3, <4>1
      <4> QED
        BY <4>2 DEF Pair
    <3> QED
      BY <1>1, <3>1, <3>2, <3>3
  <2>5. Joined(r)
    BY <2>3, <2>4, JoinedPairs
  <2> QED
    BY <1>1, <1>3, <2>1, <2>2, <2>3, <2>5
<1> QED
  BY <1>2, <1>3

-----------------------------------------------------------------------------
(***************************************************************************)
(* What kmalloc and kfree do to the heap.                                  *)
(***************************************************************************)
LEMMA JoinedPut ==
    ASSUME NEW h, JoinedInv(h), NEW g, NEW i, Differ(h, g, i), Joined(g[i].blocks)
    PROVE  JoinedInv(g)
<1>1. DOMAIN g = DOMAIN h /\ \A j \in DOMAIN h : j # i => g[j] = h[j]
  BY DEF Differ
<1> QED
  BY <1>1 DEF JoinedInv

\* An address belongs to one block.
LEMMA OneBlock ==
    ASSUME NEW h, Filled(h), NEW b \in allBlocks(h), NEW c \in allBlocks(h),
           b.page = c.page, b.at = c.at
    PROVE  b = c
<1>1. PagesInv(h) /\ LaidInv(h)
  BY DEF Filled
<1>2. PICK i \in DOMAIN h : b \in blocksOf(h[i].page, h[i].blocks)
  BY DEF allBlocks
<1>3. b.page = h[i].page
  BY <1>1, <1>2, OthersAre
<1>4. c \in blocksOf(h[i].page, h[i].blocks)
  <2>1. c \notin elsewhere(h, h[i].page)
    BY <1>3 DEF elsewhere
  <2> QED
    BY <1>1, <2>1, OthersAre
<1>5. PICK j \in DOMAIN h[i].blocks : b = onPage(h[i].page, h[i].blocks[j])
  BY <1>2 DEF blocksOf
<1>6. PICK k \in DOMAIN h[i].blocks : c = onPage(h[i].page, h[i].blocks[k])
  BY <1>4 DEF blocksOf
<1>7. h[i].blocks[j].at = h[i].blocks[k].at
  BY <1>5, <1>6, OnPage
<1>8. Laid(h[i].blocks)
  BY <1>1 DEF LaidInv
<1>9. j = k
  BY <1>7, <1>8, AtOnce
<1> QED
  BY <1>5, <1>6, <1>9

LEMMA BlockAt ==
    ASSUME NEW h, Filled(h), NEW c \in allBlocks(h)
    PROVE  c.at \in Nat /\ c.size \in Nat
<1>1. PICK j \in DOMAIN h : c \in blocksOf(h[j].page, h[j].blocks)
  BY DEF allBlocks
<1>2. PICK l \in DOMAIN h[j].blocks : c = onPage(h[j].page, h[j].blocks[l])
  BY <1>1 DEF blocksOf
<1>3. Laid(h[j].blocks)
  BY DEF Filled, LaidInv
<1>4. h[j].blocks[l].at \in Nat /\ h[j].blocks[l].size \in Nat
  BY <1>3, LaidFacts
<1> QED
  BY <1>2, <1>4, OnPage

\* Free blocks that are split or merged leave the used ones as they were.
LEMMA UsedSame ==
    ASSUME NEW h, NEW g, NEW x, NEW z, NEW y, Fused(allBlocks(h), allBlocks(g), x, z, y),
           ~x.used, ~z.used, ~y.used
    PROVE  usedBlocks(h) = usedBlocks(g)
<1>1. PICK U : allBlocks(h) = U \cup {x, z} /\ allBlocks(g) = U \cup {y}
  BY DEF Fused
<1> QED
  BY <1>1 DEF usedBlocks

LEMMA MergeFree ==
    ASSUME NEW h, Filled(h), NEW g, NEW i, Differ(h, g, i),
           NEW k \in 1..(Len(h[i].blocks) - 1), BlocksMerged(g[i].blocks, h[i].blocks, k),
           ~h[i].blocks[k].used, ~h[i].blocks[k + 1].used
    PROVE  Filled(g) /\ usedBlocks(g) = usedBlocks(h)
<1>1. /\ Filled(g)
      /\ Fused(allBlocks(h), allBlocks(g),
               onPage(h[i].page, h[i].blocks[k]), onPage(h[i].page, h[i].blocks[k + 1]),
               onPage(h[i].page, g[i].blocks[k]))
  BY HeapMerge
<1>2. ~g[i].blocks[k].used
  BY DEF BlocksMerged
<1>3. /\ ~onPage(h[i].page, h[i].blocks[k]).used /\ ~onPage(h[i].page, h[i].blocks[k + 1]).used
      /\ ~onPage(h[i].page, g[i].blocks[k]).used
  BY <1>2, OnPage
<1>4. usedBlocks(h) = usedBlocks(g)
  BY <1>1, <1>3, UsedSame
<1> QED
  BY <1>1, <1>4

LEMMA SplitFree ==
    ASSUME NEW h, Filled(h), NEW g, NEW i, Differ(h, g, i), NEW n \in Nat,
           NEW k \in DOMAIN h[i].blocks, BlocksSplit(g[i].blocks, h[i].blocks, k, n),
           n + HeaderSize <= h[i].blocks[k].size, ~h[i].blocks[k].used
    PROVE  Filled(g) /\ usedBlocks(g) = usedBlocks(h)
<1>1. /\ Filled(g)
      /\ Fused(allBlocks(g), allBlocks(h),
               onPage(h[i].page, g[i].blocks[k]), onPage(h[i].page, g[i].blocks[k + 1]),
               onPage(h[i].page, h[i].blocks[k]))
  BY HeapSplit
<1>2. ~g[i].blocks[k].used /\ ~g[i].blocks[k + 1].used
  BY DEF BlocksSplit
<1>3. /\ ~onPage(h[i].page, g[i].blocks[k]).used /\ ~onPage(h[i].page, g[i].blocks[k + 1]).used
      /\ ~onPage(h[i].page, h[i].blocks[k]).used
  BY <1>2, OnPage
<1>4. usedBlocks(g) = usedBlocks(h)
  BY <1>1, <1>3, UsedSame
<1> QED
  BY <1>1, <1>4

\* One block more is used: of size m, at an address nobody uses.
Gained(h, g, y, a, m) ==
    /\ usedBlocks(g) = usedBlocks(h) \cup {y} /\ y \notin usedBlocks(h)
    /\ blockPayload(y) = a /\ y.size = m
    /\ \A b \in usedBlocks(h) : blockPayload(b) # a

LEMMA MarkUsed ==
    ASSUME NEW h, Filled(h), NEW g, NEW i, Differ(h, g, i), NEW k \in DOMAIN h[i].blocks,
           ~h[i].blocks[k].used, BlocksMarked(g[i].blocks, h[i].blocks, k, TRUE)
    PROVE  /\ Filled(g)
           /\ Gained(h, g, onPage(h[i].page, g[i].blocks[k]), payload(h[i], k), h[i].blocks[k].size)
<1>1. PICK x, y : x = onPage(h[i].page, h[i].blocks[k]) /\ y = onPage(h[i].page, g[i].blocks[k])
  OBVIOUS
<1>2. Filled(g) /\ Swapped(allBlocks(h), allBlocks(g), x, y)
  BY <1>1, HeapMark
<1>3. PICK U : /\ allBlocks(h) = U \cup {x} /\ allBlocks(g) = U \cup {y}
               /\ x \notin U /\ y \notin U
  BY <1>2 DEF Swapped
<1>4. /\ ~x.used /\ y.used /\ y.page = x.page /\ y.at = x.at
      /\ x.page = h[i].page /\ x.at = h[i].blocks[k].at /\ y.size = h[i].blocks[k].size
  BY <1>1, OnPage DEF BlocksMarked
<1>5. usedBlocks(g) = usedBlocks(h) \cup {y} /\ y \notin usedBlocks(h)
  BY <1>3, <1>4 DEF usedBlocks
<1>6. blockPayload(y) = payload(h[i], k)
  BY <1>4 DEF blockPayload, payload
<1>7. ASSUME NEW b \in usedBlocks(h), blockPayload(b) = payload(h[i], k) PROVE FALSE
  <2>1. b \in allBlocks(h) /\ b.used /\ x \in allBlocks(h)
    BY <1>3 DEF usedBlocks
  <2>2. b.page = x.page /\ b.at + HeaderSize = x.at + HeaderSize
    BY <1>4, <1>7 DEF blockPayload, payload
  <2>3. b.at \in Nat /\ x.at \in Nat
    BY <2>1, BlockAt
  <2>4. b.at = x.at
    BY <2>2, <2>3, Layout
  <2>5. b = x
    BY <2>1, <2>2, <2>4, OneBlock
  <2> QED
    BY <1>4, <2>1, <2>5
<1> QED
  BY <1>1, <1>2, <1>4, <1>5, <1>6, <1>7 DEF Gained

\* The end of kmalloc.
LEMMA Taken ==
    ASSUME NEW h, Filled(h), JoinedInv(h), NEW n \in Nat, NEW i \in DOMAIN h,
           NEW k \in DOMAIN h[i].blocks, ~h[i].blocks[k].used, n <= h[i].blocks[k].size,
           NEW t, t = splitIfWorthwhile(h[i].blocks, k, n),
           NEW g, g = put(h, i, [t EXCEPT ![k].used = TRUE])
    PROVE  /\ Filled(g) /\ JoinedInv(g)
           /\ t[k].size \in Nat /\ n <= t[k].size
           /\ \E y : Gained(h, g, y, payload(h[i], k), t[k].size)
<1>1. PICK s : s = h[i].blocks
  OBVIOUS
<1>2. PagesInv(h) /\ Laid(s) /\ Joined(s) /\ s \in Seq(BlockType)
  BY <1>1 DEF Filled, LaidInv, JoinedInv, Laid
<1>3. t = s \/ (BlocksSplit(t, s, k, n) /\ n + HeaderSize <= s[k].size)
  BY <1>1, <1>2, SplitIs
<1>4. t \in Seq(BlockType) /\ k \in DOMAIN t /\ ~t[k].used /\ t[k].at = s[k].at /\ n <= t[k].size
  <2>1. CASE t = s
    BY <1>1, <1>2, <2>1
  <2>2. CASE BlocksSplit(t, s, k, n)
    <3>1. t \in Seq(BlockType) /\ Len(t) = Len(s) + 1 /\ t[k].at = s[k].at /\ t[k].size = n
          /\ t[k].used = s[k].used
      BY <2>2 DEF BlocksSplit
    <3>2. k \in DOMAIN t
      BY <1>1, <1>2, <3>1
    <3> QED
      BY <1>1, <3>1, <3>2
  <2> QED
    BY <1>3, <2>1, <2>2
<1>5. PICK q : q = put(h, i, t)
  OBVIOUS
<1>6. Differ(h, q, i) /\ q[i].blocks = t
  BY <1>2, <1>4, <1>5, PutIs
<1>7. Filled(q) /\ usedBlocks(q) = usedBlocks(h)
  <2>1. CASE t = s
    <3>1. q = h
      <4>1. /\ h \in Seq(SegmentType) /\ q \in Seq(SegmentType) /\ Len(q) = Len(h)
            /\ \A j \in DOMAIN h : j # i => q[j] = h[j]
        BY <1>6 DEF Differ, PagesInv
      <4>2. q[i] = h[i]
        <5>1. q[i] \in SegmentType /\ h[i] \in SegmentType
          BY <1>6, <4>1 DEF Differ
        <5>2. q[i].page = h[i].page /\ q[i].blocks = h[i].blocks
          BY <1>1, <1>6, <2>1 DEF Differ
        <5> QED
          BY <5>1, <5>2 DEF SegmentType
      <4>3. \A j \in 1..Len(h) : q[j] = h[j]
        BY <4>1, <4>2
      <4> QED
        BY <4>1, <4>3, SeqEqual
    <3> QED
      BY <3>1
  <2>2. CASE BlocksSplit(t, s, k, n) /\ n + HeaderSize <= s[k].size
    BY <1>1, <1>6, <2>2, SplitFree
  <2> QED
    BY <1>3, <2>1, <2>2
<1>8. PICK r : r = [t EXCEPT ![k].used = TRUE]
  OBVIOUS
<1>9. BlocksMarked(r, t, k, TRUE)
  BY <1>4, <1>8, MarkIs
<1>10. r \in Seq(BlockType)
  BY <1>9 DEF BlocksMarked
<1>11. Differ(q, g, i) /\ q[i].page = h[i].page /\ Differ(h, g, i) /\ g[i].blocks = r
  <2>1. g = put(h, i, r)
    BY <1>8
  <2>2. Differ(h, g, i) /\ g[i].blocks = r
    BY <1>2, <1>10, <2>1, PutIs
  <2>3. Differ(q, g, i) /\ q[i].page = h[i].page
    BY <1>2, <1>4, <1>5, <1>10, <2>1, PutTwice
  <2> QED
    BY <2>2, <2>3
<1>12. Filled(g) /\ Gained(q, g, onPage(q[i].page, g[i].blocks[k]), payload(q[i], k), q[i].blocks[k].size)
  BY <1>4, <1>6, <1>7, <1>9, <1>11, MarkUsed
<1>13. payload(q[i], k) = payload(h[i], k)
  BY <1>1, <1>4, <1>6, <1>11 DEF payload
<1>14. Gained(h, g, onPage(q[i].page, g[i].blocks[k]), payload(h[i], k), t[k].size)
  BY <1>6, <1>7, <1>12, <1>13 DEF Gained
<1>15. Joined(r)
  BY <1>1, <1>2, <1>3, <1>9, TakeJoins
<1>16. JoinedInv(g)
  BY <1>11, <1>15, JoinedPut
<1>17. t[k].size \in Nat
  <2>1. t[k] \in BlockType
    BY <1>4
  <2> QED
    BY <2>1 DEF BlockType
<1> QED
  BY <1>4, <1>12, <1>14, <1>16, <1>17

\* One of the used blocks is no longer used.
Lost(h, g, x) == x \in usedBlocks(h) /\ usedBlocks(g) = usedBlocks(h) \ {x}
LEMMA MarkFree ==
    ASSUME NEW h, Filled(h), NEW g, NEW i, Differ(h, g, i), NEW k \in DOMAIN h[i].blocks,
           h[i].blocks[k].used, BlocksMarked(g[i].blocks, h[i].blocks, k, FALSE)
    PROVE  /\ Filled(g)
           /\ Lost(h, g, onPage(h[i].page, h[i].blocks[k]))
<1>1. PICK x, y : x = onPage(h[i].page, h[i].blocks[k]) /\ y = onPage(h[i].page, g[i].blocks[k])
  OBVIOUS
<1>2. Filled(g) /\ Swapped(allBlocks(h), allBlocks(g), x, y)
  BY <1>1, HeapMark
<1>3. PICK U : /\ allBlocks(h) = U \cup {x} /\ allBlocks(g) = U \cup {y}
               /\ x \notin U /\ y \notin U
  BY <1>2 DEF Swapped
<1>4. x.used /\ ~y.used
  BY <1>1, OnPage DEF BlocksMarked
<1>5. Lost(h, g, x)
  BY <1>3, <1>4 DEF usedBlocks, Lost
<1> QED
  BY <1>1, <1>2, <1>5

\* kfree.
LEMMA Freed ==
    ASSUME NEW h, Filled(h), JoinedInv(h), NEW i \in DOMAIN h, NEW k \in DOMAIN h[i].blocks,
           h[i].blocks[k].used, NEW m, BlocksMarked(m, h[i].blocks, k, FALSE),
           NEW g, g = put(h, i, coalesce(m, k))
    PROVE  /\ Filled(g) /\ JoinedInv(g)
           /\ Lost(h, g, onPage(h[i].page, h[i].blocks[k]))
<1>1. PICK s : s = h[i].blocks
  OBVIOUS
<1>2. PagesInv(h) /\ Laid(s) /\ Joined(s) /\ s \in Seq(BlockType)
  BY <1>1 DEF Filled, LaidInv, JoinedInv, Laid
<1>3. PICK l \in Nat : l = Len(s) /\ DOMAIN s = 1..l /\ k \in 1..l
  BY <1>1, <1>2
<1>5. BlocksMarked(m, s, k, FALSE)
  BY <1>1
<1>6. /\ m \in Seq(BlockType) /\ Len(m) = l /\ DOMAIN m = 1..l /\ ~m[k].used
      /\ \A j \in 1..l : j # k => m[j] = s[j]
  <2>1. m \in Seq(BlockType) /\ Len(m) = l
    BY <1>3, <1>5 DEF BlocksMarked
  <2>2. DOMAIN m = 1..l
    BY <2>1
  <2> QED
    BY <1>3, <1>5, <2>1, <2>2 DEF BlocksMarked
<1>7. ASSUME NEW j \in 1..(l - 1), j # k, j + 1 # k PROVE Pair(m, j)
  <2>1. j \in 1..l /\ j + 1 \in 1..l
    BY <1>3
  <2>2. m[j] = s[j] /\ m[j + 1] = s[j + 1] /\ Pair(s, j)
    BY <1>2, <1>3, <1>6, <1>7, <2>1, JoinedPairs
  <2> QED
    BY <2>2 DEF Pair
<1>8. PICK o : o = onwards(m, k)
  OBVIOUS
<1>9. /\ o \in Seq(BlockType) /\ k \in DOMAIN o /\ ~o[k].used
      /\ \A j \in 1..(Len(o) - 1) : j + 1 # k => Pair(o, j)
      /\ o = m \/ (k \in 1..(Len(m) - 1) /\ ~m[k + 1].used /\ BlocksMerged(o, m, k))
  <2>1. k \in DOMAIN m /\ \A j \in 1..(Len(m) - 1) : j # k /\ j + 1 # k => Pair(m, j)
    BY <1>3, <1>6, <1>7
  <2> QED
    BY <1>6, <1>8, <2>1, OnwardsJoins
<1>10. PICK r : r = backwards(o, k)
  OBVIOUS
<1>11. /\ r \in Seq(BlockType) /\ Joined(r)
       /\ r = o \/ (k - 1 \in 1..(Len(o) - 1) /\ ~o[k - 1].used /\ BlocksMerged(r, o, k - 1))
  BY <1>9, <1>10, BackwardsJoins
<1>12. g = put(h, i, r)
  BY <1>8, <1>10, CoalesceIs
<1>13. PICK p, q : p = put(h, i, m) /\ q = put(h, i, o)
  OBVIOUS
<1>14. Differ(h, p, i) /\ p[i].blocks = m
  BY <1>2, <1>6, <1>13, PutIs
<1>15. q[i].blocks = o /\ Differ(p, q, i)
  BY <1>2, <1>6, <1>9, <1>13, PutIs, PutTwice
<1>16. Differ(h, g, i) /\ g[i].blocks = r /\ Differ(q, g, i)
  <2>1. Differ(h, g, i) /\ g[i].blocks = r
    BY <1>2, <1>11, <1>12, PutIs
  <2>2. Differ(q, g, i)
    BY <1>2, <1>9, <1>11, <1>12, <1>13, PutTwice
  <2> QED
    BY <2>1, <2>2
<1>17. Filled(p) /\ Lost(h, p, onPage(h[i].page, h[i].blocks[k]))
  <2>1. BlocksMarked(p[i].blocks, h[i].blocks, k, FALSE)
    BY <1>1, <1>5, <1>14
  <2> QED
    BY <1>14, <2>1, MarkFree
<1>18. Filled(q) /\ usedBlocks(q) = usedBlocks(p)
  <2>1. CASE o = m
    BY <1>13, <1>17, <2>1
  <2>2. CASE k \in 1..(Len(m) - 1) /\ ~m[k + 1].used /\ BlocksMerged(o, m, k)
    BY <1>6, <1>14, <1>15, <1>17, <2>2, MergeFree
  <2> QED
    BY <1>9, <2>1, <2>2
<1>19. Filled(g) /\ usedBlocks(g) = usedBlocks(q)
  <2>1. CASE r = o
    BY <1>12, <1>13, <1>18, <2>1
  <2>2. CASE k - 1 \in 1..(Len(o) - 1) /\ ~o[k - 1].used /\ BlocksMerged(r, o, k - 1)
    <3>1. PICK j \in 1..(Len(o) - 1) : j = k - 1 /\ j + 1 = k
      BY <1>3, <2>2
    <3>2. ~o[j].used /\ ~o[j + 1].used /\ BlocksMerged(r, o, j)
      BY <1>9, <2>2, <3>1
    <3> QED
      BY <1>15, <1>16, <1>18, <3>1, <3>2, MergeFree
  <2> QED
    BY <1>11, <2>1, <2>2
<1>20. JoinedInv(g)
  BY <1>11, <1>16, JoinedPut
<1> QED
  BY <1>17, <1>18, <1>19, <1>20 DEF Lost

\* growHeap.
LEMMA FirstBlock ==
    ASSUME NEW s, s = <<Block(SegmentSize, MaxPayload)>>
    PROVE  Laid(s) /\ Joined(s) /\ MaxPayload \in Nat
<1>1. MaxPayload \in Nat /\ SegmentSize + HeaderSize + MaxPayload = PageSize
  BY Layout DEF MaxPayload
<1>2. PICK b \in BlockType : b = Block(SegmentSize, MaxPayload) /\ b.at = SegmentSize /\ b.size = MaxPayload
  <2>1. PICK m \in Nat, e \in Nat : m = MaxPayload /\ e = SegmentSize
    BY <1>1, Layout
  <2>2. PICK b : b = [at |-> e, size |-> m, used |-> FALSE]
    OBVIOUS
  <2>3. b \in BlockType /\ b.at = e /\ b.size = m
    BY <2>2 DEF BlockType
  <2>4. b = Block(SegmentSize, MaxPayload)
    BY <2>1, <2>2 DEF Block
  <2> QED
    BY <2>1, <2>3, <2>4
<1>3. s \in Seq(BlockType) /\ Len(s) = 1 /\ s[1] = b /\ DOMAIN s = 1..1
  <2> HIDE DEF BlockType
  <2> QED
    BY <1>2
<1>4. end(b) = PageSize
  BY <1>1, <1>2 DEF end
<1>5. Laid(s)
  <2>1. \A k \in 1..1 : k = 1
    OBVIOUS
  <2>2. s[1].at = SegmentSize /\ end(s[1]) = PageSize
    BY <1>2, <1>3, <1>4
  <2> QED
    BY <1>3, <2>1, <2>2, Layout DEF Laid
<1>6. Joined(s)
  BY <1>3 DEF Joined
<1> QED
  BY <1>1, <1>5, <1>6

LEMMA Grown ==
    ASSUME NEW h, Filled(h), JoinedInv(h), Len(h) < PageBudget, NEW g, g = growHeap(h)
    PROVE  Filled(g) /\ JoinedInv(g) /\ usedBlocks(g) = usedBlocks(h)
<1>1. PICK n \in Nat : n = Len(h) /\ h \in Seq(SegmentType) /\ DOMAIN h = 1..n /\ n < PageBudget
  BY DEF Filled, PagesInv
<1>2. PICK s, d : s = <<Block(SegmentSize, MaxPayload)>> /\ d = [page |-> n + 1, blocks |-> s]
  OBVIOUS
<1>3. Laid(s) /\ Joined(s) /\ MaxPayload \in Nat
  BY <1>2, FirstBlock
<1>4. d \in SegmentType /\ d.page = n + 1 /\ d.blocks = s
  BY <1>2, <1>3 DEF SegmentType, Laid
<1>5. g = <<d>> \o h
  BY <1>1, <1>2 DEF growHeap
<1>6. g \in Seq(SegmentType) /\ JoinOf(g, <<d>>, h) /\ Len(<<d>>) = 1 /\ <<d>>[1] = d
  <2>1. <<d>> \in Seq(SegmentType) /\ Len(<<d>>) = 1 /\ <<d>>[1] = d
    BY <1>4
  <2> QED
    BY <1>1, <1>5, <2>1, JoinIs
<1>7. Len(g) = n + 1 /\ DOMAIN g = 1..(n + 1) /\ g[1] = d /\ \A j \in 1..n : g[1 + j] = h[j]
  <2>1. Len(g) = 1 + n /\ g[1] = d /\ \A j \in 1..n : g[1 + j] = h[j]
    BY <1>1, <1>6 DEF JoinOf
  <2> QED
    BY <1>1, <1>6, <2>1
<1>8. \A j \in 1..(n + 1) : j = 1 \/ (j - 1 \in 1..n /\ 1 + (j - 1) = j)
  BY <1>1
<1>9. PagesInv(g)
  <2>1. ASSUME NEW j \in 1..(n + 1) PROVE g[j].page = (n + 1) + 1 - j
    <3>1. CASE j = 1
      BY <1>4, <1>7, <3>1
    <3>2. CASE j - 1 \in 1..n /\ 1 + (j - 1) = j
      <4>1. g[j] = h[j - 1]
        BY <1>7, <3>2
      <4>2. h[j - 1].page = n + 1 - (j - 1)
        BY <1>1, <3>2 DEF Filled, PagesInv
      <4> QED
        BY <4>1, <4>2
    <3> QED
      BY <1>8, <3>1, <3>2
  <2>2. n + 1 <= PageBudget
    BY <1>1, RequestAssumption
  <2> QED
    BY <1>6, <1>7, <2>1, <2>2 DEF PagesInv
<1>10. LaidInv(g) /\ JoinedInv(g)
  <2>1. ASSUME NEW j \in 1..(n + 1) PROVE Laid(g[j].blocks) /\ Joined(g[j].blocks)
    <3>1. CASE j = 1
      BY <1>3, <1>4, <1>7, <3>1
    <3>2. CASE j - 1 \in 1..n /\ 1 + (j - 1) = j
      <4>1. g[j] = h[j - 1]
        BY <1>7, <3>2
      <4> QED
        BY <1>1, <3>2, <4>1 DEF Filled, LaidInv, JoinedInv
    <3> QED
      BY <1>8, <3>1, <3>2
  <2> QED
    BY <1>7, <2>1 DEF LaidInv, JoinedInv
<1>11. PICK y : y = onPage(n + 1, Block(SegmentSize, MaxPayload))
  OBVIOUS
<1>12. y.page = n + 1 /\ y.size = MaxPayload /\ ~y.used
  BY <1>11, OnPage DEF Block
<1>13. blocksOf(n + 1, s) = {y}
  <2>1. DOMAIN s = {1} /\ s[1] = Block(SegmentSize, MaxPayload)
    BY <1>2
  <2> QED
    BY <1>11, <2>1 DEF blocksOf
<1>14. allBlocks(g) = allBlocks(h) \cup {y}
  <2>1. ASSUME NEW b \in allBlocks(g) PROVE b \in allBlocks(h) \cup {y}
    <3>1. PICK j \in 1..(n + 1) : b \in blocksOf(g[j].page, g[j].blocks)
      BY <1>7 DEF allBlocks
    <3>2. CASE j = 1
      BY <1>4, <1>7, <1>13, <3>1, <3>2
    <3>3. CASE j - 1 \in 1..n /\ 1 + (j - 1) = j
      <4>1. g[j] = h[j - 1]
        BY <1>7, <3>3
      <4> QED
        BY <1>1, <3>1, <3>3, <4>1 DEF allBlocks
    <3> QED
      BY <1>8, <3>2, <3>3
  <2>2. ASSUME NEW b \in allBlocks(h) PROVE b \in allBlocks(g)
    <3>1. PICK j \in 1..n : b \in blocksOf(h[j].page, h[j].blocks)
      BY <1>1 DEF allBlocks
    <3>2. 1 + j \in DOMAIN g /\ g[1 + j] = h[j]
      BY <1>1, <1>7
    <3> QED
      BY <3>1, <3>2 DEF allBlocks
  <2>3. y \in allBlocks(g)
    <3>1. 1 \in DOMAIN g /\ y \in blocksOf(g[1].page, g[1].blocks)
      BY <1>1, <1>4, <1>7, <1>13
    <3> QED
      BY <3>1 DEF allBlocks
  <2> QED
    BY <2>1, <2>2, <2>3
<1>15. y \notin allBlocks(h)
  <2>1. SUFFICES ASSUME y \in allBlocks(h) PROVE FALSE
    OBVIOUS
  <2>2. PICK j \in 1..n : y \in blocksOf(h[j].page, h[j].blocks)
    BY <1>1, <2>1 DEF allBlocks
  <2>3. y.page = h[j].page
    BY <2>2, OnPage DEF blocksOf
  <2>4. h[j].page = n + 1 - j
    BY <1>1 DEF Filled, PagesInv
  <2> QED
    BY <1>1, <1>12, <2>3, <2>4
<1>16. usedBlocks(g) = usedBlocks(h)
  BY <1>12, <1>14 DEF usedBlocks
<1>17. RoomInv(g)
  <2>1. Sized(allBlocks(h)) /\ room(allBlocks(h)) = n * (PageSize - SegmentSize)
    BY <1>1 DEF Filled, RoomInv
  <2>2. /\ Sized(allBlocks(g))
        /\ room(allBlocks(g)) = room(allBlocks(h)) + (HeaderSize + MaxPayload)
    BY <1>3, <1>12, <1>14, <1>15, <2>1, RoomAdd
  <2>3. PICK e \in Nat : e = PageSize - SegmentSize /\ HeaderSize + MaxPayload = e
    BY Layout DEF MaxPayload
  <2>4. n * e + e = (n + 1) * e
    BY <1>1
  <2> QED
    BY <1>7, <2>1, <2>2, <2>3, <2>4 DEF RoomInv
<1> QED
  BY <1>9, <1>10, <1>16, <1>17 DEF Filled

-----------------------------------------------------------------------------
(***************************************************************************)
(* alignUp and first fit.                                                  *)
(***************************************************************************)
LEMMA Remainder ==
    ASSUME NEW v \in Nat, NEW a \in Nat, a > 0
    PROVE  v % a \in Nat /\ v % a < a /\ v % a <= v
<1>1. v % a \in 0..(a - 1) /\ v \div a \in Nat /\ v = a * (v \div a) + (v % a)
  OBVIOUS
<1>2. ASSUME NEW q \in Nat, NEW r \in Nat PROVE r <= a * q + r
  OBVIOUS
<1> QED
  BY <1>1, <1>2

LEMMA RemainderSmall ==
    ASSUME NEW v \in Nat, NEW a \in Nat, v < a
    PROVE  v % a = v
  OBVIOUS

LEMMA AlignedSize ==
    ASSUME NEW size \in Sizes
    PROVE  alignUp(size) \in Nat /\ (SizesRound => size <= alignUp(size))
<1>1. size \in Nat /\ size >= 1
  BY RequestAssumption, Layout
<1>2. PICK u \in Nat : u = size + Alignment - 1
  BY <1>1, Layout
<1>3. PICK v \in Nat : v = u % WordSize
  BY <1>2, Layout, Remainder
<1>4. PICK r \in Nat : r = v % Alignment /\ r < Alignment /\ r <= v
  BY <1>3, Layout, Remainder
<1>5. alignUp(size) = v - r
  BY <1>2, <1>3, <1>4 DEF alignUp
<1>6. v - r \in Nat
  BY <1>3, <1>4
<1>7. ASSUME SizesRound PROVE size <= alignUp(size)
  <2>1. size <= WordSize - Alignment
    BY <1>7 DEF SizesRound
  <2>2. u < WordSize
    BY <1>1, <1>2, <2>1, Layout
  <2>3. v = u
    BY <1>2, <1>3, <2>2, Layout, RemainderSmall
  <2> QED
    BY <1>1, <1>2, <1>4, <1>5, <2>3, Layout
<1> QED
  BY <1>5, <1>6, <1>7

\* findFreeBlock returns a free block that is large enough.
LEMMA FitsAre ==
    ASSUME NEW h, NEW n, NEW b \in fits(h, n)
    PROVE  /\ b = <<b[1], b[2]>> /\ b[1] \in DOMAIN h /\ b[2] \in DOMAIN h[b[1]].blocks
           /\ ~h[b[1]].blocks[b[2]].used /\ h[b[1]].blocks[b[2]].size >= n
<1>1. PICK i \in DOMAIN h : b \in {i} \X DOMAIN h[i].blocks
  BY DEF fits
<1>2. b = <<b[1], b[2]>> /\ b[1] = i /\ b[2] \in DOMAIN h[i].blocks
  BY <1>1
<1>3. ~h[b[1]].blocks[b[2]].used /\ h[b[1]].blocks[b[2]].size >= n
  BY DEF fits
<1> QED
  BY <1>2, <1>3

LEMMA FirstFit ==
    ASSUME NEW h, Filled(h), NEW n, fits(h, n) # {}
    PROVE  findFreeBlock(h, n) \in fits(h, n)
<1>1. DOMAIN h \subseteq Nat /\ \A i \in DOMAIN h : DOMAIN h[i].blocks \subseteq Nat
  <2>1. DOMAIN h \subseteq Nat
    BY DEF Filled, PagesInv
  <2>2. ASSUME NEW i \in DOMAIN h PROVE DOMAIN h[i].blocks \subseteq Nat
    <3>1. Laid(h[i].blocks)
      BY DEF Filled, LaidInv
    <3> QED
      BY <3>1, LaidFacts
  <2> QED
    BY <2>1, <2>2
<1> DEFINE I == {b[1] : b \in fits(h, n)}
<1>2. I \in SUBSET Nat /\ I # {}
  BY <1>1, FitsAre
<1>3. PICK i \in I : \A j \in I : i <= j
  <2> HIDE DEF I
  <2> QED
    BY <1>2, LeastNumber
<1> DEFINE K == {b[2] : b \in {c \in fits(h, n) : c[1] = i}}
<1>4. K \in SUBSET Nat /\ K # {}
  <2>1. K # {}
    BY <1>3
  <2>2. ASSUME NEW c \in fits(h, n) PROVE c[2] \in Nat
    BY <1>1, FitsAre
  <2> QED
    BY <2>1, <2>2
<1>5. PICK k \in K : \A j \in K : k <= j
  <2> HIDE DEF K
  <2> QED
    BY <1>4, LeastNumber
<1>6. PICK b \in fits(h, n) : b[1] = i /\ b[2] = k
  BY <1>5
<1>7. ASSUME NEW c \in fits(h, n) PROVE b[1] < c[1] \/ (b[1] = c[1] /\ b[2] <= c[2])
  <2>1. i <= c[1] /\ c[1] \in Nat /\ i \in Nat
    BY <1>2, <1>3
  <2>2. c[1] = i => k <= c[2]
    BY <1>5
  <2> QED
    BY <1>6, <2>1, <2>2
<1> QED
  BY <1>6, <1>7 DEF findFreeBlock

-----------------------------------------------------------------------------
(***************************************************************************)
(* The allocations.                                                        *)
(***************************************************************************)
\* kmalloc's caller holds the block that is gained.
LEMMA HeldMore ==
    ASSUME NEW L, NEW bytes, NEW h, NEW g, HeldBy(L, bytes, h), Filled(h),
           NEW y, NEW q, NEW m \in Nat, Gained(h, g, y, q, m), NEW size
    PROVE  /\ HeldBy(L \cup {[ptr |-> q, size |-> size]}, bytes + m, g)
           /\ (AmpleIn(L, h) /\ m >= size) => AmpleIn(L \cup {[ptr |-> q, size |-> size]}, g)
<1>0. PICK d : d = [ptr |-> q, size |-> size]
  OBVIOUS
<1>1. d = [ptr |-> q, size |-> size] /\ d.ptr = q /\ d.size = size
  BY <1>0
<1>2. PICK N : N = L \cup {d}
  OBVIOUS
<1>3. /\ usedBlocks(g) = usedBlocks(h) \cup {y} /\ y \notin usedBlocks(h)
      /\ blockPayload(y) = q /\ y.size = m
      /\ \A b \in usedBlocks(h) : blockPayload(b) # q
  BY DEF Gained
<1>4. /\ \A a \in L : \E b \in usedBlocks(h) : blockPayload(b) = a.ptr
      /\ \A b \in usedBlocks(h) : \E a \in L : a.ptr = blockPayload(b)
      /\ \A a, c \in L : a.ptr = c.ptr => a = c
      /\ bytes = bytesOf(usedBlocks(h))
  BY DEF HeldBy
<1>5. \A a \in L : a.ptr # q
  BY <1>3, <1>4
<1>6. \A a \in N : \E b \in usedBlocks(g) : blockPayload(b) = a.ptr
  BY <1>1, <1>2, <1>3, <1>4
<1>7. \A b \in usedBlocks(g) : \E a \in N : a.ptr = blockPayload(b)
  BY <1>1, <1>2, <1>3, <1>4
<1>8. \A a, c \in N : a.ptr = c.ptr => a = c
  BY <1>1, <1>2, <1>4, <1>5
<1>9. bytes + m = bytesOf(usedBlocks(g))
  <2>1. Sized(usedBlocks(h))
    <3>1. Sized(allBlocks(h)) /\ usedBlocks(h) \in SUBSET allBlocks(h)
      BY DEF Filled, RoomInv, usedBlocks
    <3> QED
      BY <3>1, SizedPart
  <2> QED
    BY <1>3, <1>4, <2>1, BytesAdd DEF Sized
<1>10. ASSUME AmpleIn(L, h), m >= size PROVE AmpleIn(N, g)
  <2>1. ASSUME NEW a \in N, NEW b \in usedBlocks(g), blockPayload(b) = a.ptr PROVE b.size >= a.size
    <3>1. CASE a \in L /\ b \in usedBlocks(h)
      BY <1>10, <2>1, <3>1 DEF AmpleIn
    <3>2. CASE a = d /\ b = y
      BY <1>1, <1>3, <1>10, <3>2
    <3>3. CASE a = d /\ b \in usedBlocks(h)
      BY <1>1, <1>3, <2>1, <3>3
    <3>4. CASE a \in L /\ b = y
      BY <1>3, <1>5, <2>1, <3>4
    <3> QED
      BY <1>2, <1>3, <3>1, <3>2, <3>3, <3>4
  <2> QED
    BY <2>1 DEF AmpleIn
<1>11. HeldBy(N, bytes + m, g)
  BY <1>6, <1>7, <1>8, <1>9 DEF HeldBy
<1> QED
  BY <1>1, <1>2, <1>10, <1>11

\* kfree's caller gives back the block that is lost.
LEMMA HeldLess ==
    ASSUME NEW L, NEW bytes, NEW h, NEW g, HeldBy(L, bytes, h), Filled(h),
           NEW x, Lost(h, g, x), NEW a \in L, blockPayload(x) = a.ptr
    PROVE  /\ HeldBy(L \ {a}, bytes - x.size, g)
           /\ AmpleIn(L, h) => AmpleIn(L \ {a}, g)
<1>1. PICK N : N = L \ {a}
  OBVIOUS
<1>2. x \in usedBlocks(h) /\ usedBlocks(g) = usedBlocks(h) \ {x}
  BY DEF Lost
<1>3. /\ \A c \in L : \E b \in usedBlocks(h) : blockPayload(b) = c.ptr
      /\ \A b \in usedBlocks(h) : \E c \in L : c.ptr = blockPayload(b)
      /\ \A c, d \in L : c.ptr = d.ptr => c = d
      /\ bytes = bytesOf(usedBlocks(h))
  BY DEF HeldBy
<1>4. \A b \in usedBlocks(g) : blockPayload(b) # a.ptr
  <2>1. SUFFICES ASSUME NEW b \in usedBlocks(g), blockPayload(b) = blockPayload(x) PROVE FALSE
    OBVIOUS
  <2>2. b \in allBlocks(h) /\ x \in allBlocks(h) /\ b # x
    BY <1>2 DEF usedBlocks
  <2>3. b.page = x.page /\ b.at + HeaderSize = x.at + HeaderSize
    BY <2>1 DEF blockPayload
  <2>4. b.at = x.at
    BY <2>2, <2>3, BlockAt, Layout
  <2> QED
    BY <2>2, <2>3, <2>4, OneBlock
<1>5. \A c \in N : \E b \in usedBlocks(g) : blockPayload(b) = c.ptr
  <2>1. SUFFICES ASSUME NEW c \in N PROVE \E b \in usedBlocks(g) : blockPayload(b) = c.ptr
    OBVIOUS
  <2>2. PICK b \in usedBlocks(h) : blockPayload(b) = c.ptr
    BY <1>1, <1>3
  <2>3. b # x
    BY <1>1, <1>3, <2>2
  <2> QED
    BY <1>2, <2>2, <2>3
<1>6. \A b \in usedBlocks(g) : \E c \in N : c.ptr = blockPayload(b)
  BY <1>1, <1>2, <1>3, <1>4
<1>7. \A c, d \in N : c.ptr = d.ptr => c = d
  BY <1>1, <1>3
<1>8. bytes - x.size = bytesOf(usedBlocks(g))
  <2>1. PICK U : U = usedBlocks(g)
    OBVIOUS
  <2>2. usedBlocks(h) = U \cup {x} /\ x \notin U
    BY <1>2, <2>1
  <2>3. Sized(allBlocks(h)) /\ U \in SUBSET allBlocks(h) /\ x \in allBlocks(h)
    BY <1>2, <2>1 DEF Filled, RoomInv, usedBlocks
  <2>4. Sized(U) /\ x.size \in Nat
    BY <2>3, SizedPart DEF Sized
  <2>5. bytesOf(U) \in Nat /\ bytes = bytesOf(U) + x.size
    BY <1>3, <2>2, <2>4, BytesAdd DEF Sized
  <2> QED
    BY <2>1, <2>4, <2>5
<1>9. AmpleIn(L, h) => AmpleIn(N, g)
  BY <1>1, <1>2 DEF AmpleIn
<1>10. HeldBy(N, bytes - x.size, g)
  BY <1>5, <1>6, <1>7, <1>8 DEF HeldBy
<1> QED
  BY <1>1, <1>9, <1>10

-----------------------------------------------------------------------------
(***************************************************************************)
(* The steps.                                                              *)
(***************************************************************************)
LEMMA TakeStep ==
    ASSUME NEW h, Filled(h), JoinedInv(h), HeldBy(live, bytesAllocated, h),
           NEW size \in Sizes, fits(h, alignUp(size)) # {}, take(h, size)
    PROVE  HeapInv' /\ (SizesRound /\ AmpleIn(live, h) => Ample')
<1>1. PICK n \in Nat : n = alignUp(size) /\ (SizesRound => size <= n)
  BY AlignedSize
<1>2. PICK b : b = findFreeBlock(h, n) /\ b \in fits(h, n)
  BY <1>1, FirstFit
<1>3. PICK i \in DOMAIN h : i = b[1]
  BY <1>2, FitsAre
<1>4. PICK k \in DOMAIN h[i].blocks : k = b[2] /\ ~h[i].blocks[k].used /\ h[i].blocks[k].size >= n
  BY <1>2, <1>3, FitsAre
<1>5. n <= h[i].blocks[k].size
  <2>1. Laid(h[i].blocks)
    BY DEF Filled, LaidInv
  <2>2. h[i].blocks[k].size \in Nat
    BY <2>1, LaidFacts
  <2> QED
    BY <1>4, <2>2
<1>6. PICK t : t = splitIfWorthwhile(h[i].blocks, k, n)
  OBVIOUS
<1>7. /\ segments' = put(h, i, [t EXCEPT ![k].used = TRUE])
      /\ bytesAllocated' = bytesAllocated + t[k].size
      /\ live' = live \cup {[ptr |-> payload(h[i], k), size |-> size]}
  BY <1>1, <1>2, <1>3, <1>4, <1>6 DEF take, put
<1>8. PICK g : g = segments'
  OBVIOUS
<1>9. /\ Filled(g) /\ JoinedInv(g) /\ t[k].size \in Nat /\ n <= t[k].size
      /\ \E y : Gained(h, g, y, payload(h[i], k), t[k].size)
  BY <1>4, <1>5, <1>6, <1>7, <1>8, Taken
<1>10. PICK y : Gained(h, g, y, payload(h[i], k), t[k].size)
  BY <1>9
<1>11. PICK L, m, q : L = live /\ m = t[k].size /\ q = payload(h[i], k)
  OBVIOUS
<1>12. PICK c : c = bytesAllocated
  OBVIOUS
<1>13. /\ HeldBy(L \cup {[ptr |-> q, size |-> size]}, c + m, g)
       /\ (AmpleIn(L, h) /\ m >= size) => AmpleIn(L \cup {[ptr |-> q, size |-> size]}, g)
  BY <1>9, <1>10, <1>11, <1>12, HeldMore
<1>14. HeldBy(live', bytesAllocated', segments')
  BY <1>7, <1>8, <1>11, <1>12, <1>13
<1>15. ASSUME SizesRound, AmpleIn(live, h) PROVE AmpleIn(live', segments')
  <2>1. size <= n /\ size \in Nat
    BY <1>1, <1>15, RequestAssumption, Layout
  <2>2. m >= size
    BY <1>9, <1>11, <2>1
  <2> QED
    BY <1>7, <1>8, <1>11, <1>13, <1>15, <2>2
<1> QED
  BY <1>8, <1>9, <1>14, <1>15 DEF HeapInv, Ample

LEMMA FreeStep ==
    ASSUME HeapInv, NEW a \in live, kfree(a)
    PROVE  HeapInv' /\ (Ample => Ample')
<1>1. Filled(segments) /\ JoinedInv(segments) /\ HeldBy(live, bytesAllocated, segments)
  BY DEF HeapInv
<1> DEFINE At(i, k) ==
      /\ payload(segments[i], k) = a.ptr
      /\ segments[i].blocks[k].used
      /\ segments' = [segments EXCEPT ![i].blocks =
                         coalesce([segments[i].blocks EXCEPT ![k].used = FALSE], k)]
      /\ bytesAllocated' = bytesAllocated - segments[i].blocks[k].size
      /\ live' = live \ {a}
<1>0. PICK i \in DOMAIN segments : \E k \in DOMAIN segments[i].blocks : At(i, k)
  BY DEF kfree
<1>2. PICK k \in DOMAIN segments[i].blocks : At(i, k)
  BY <1>0
<1>3. PICK h, g, s : h = segments /\ g = segments' /\ s = segments[i].blocks
  OBVIOUS
<1>4. PICK m : m = [s EXCEPT ![k].used = FALSE]
  OBVIOUS
<1>5. BlocksMarked(m, s, k, FALSE)
  <2>1. s \in Seq(BlockType) /\ k \in DOMAIN s
    BY <1>1, <1>3 DEF Filled, LaidInv, Laid
  <2> QED
    BY <1>4, <2>1, MarkIs
<1>6. g = put(h, i, coalesce(m, k))
  BY <1>2, <1>3, <1>4 DEF put
<1>7. PICK x : x = onPage(h[i].page, s[k])
  OBVIOUS
<1>8. Filled(g) /\ JoinedInv(g) /\ Lost(h, g, x)
  BY <1>1, <1>2, <1>3, <1>5, <1>6, <1>7, Freed
<1>9. blockPayload(x) = a.ptr /\ x.size = s[k].size
  BY <1>2, <1>3, <1>7, OnPage DEF blockPayload, payload
<1>10. PICK L, c : L = live /\ c = bytesAllocated
  OBVIOUS
<1>11. HeldBy(L \ {a}, c - x.size, g) /\ (AmpleIn(L, h) => AmpleIn(L \ {a}, g))
  BY <1>1, <1>3, <1>8, <1>9, <1>10, HeldLess
<1>12. HeldBy(live', bytesAllocated', segments')
  BY <1>2, <1>3, <1>9, <1>10, <1>11
<1>13. AmpleIn(live, segments) => AmpleIn(live', segments')
  BY <1>2, <1>3, <1>10, <1>11
<1> QED
  BY <1>3, <1>8, <1>12, <1>13 DEF HeapInv, Ample

LEMMA HeldSame ==
    ASSUME NEW L, NEW bytes, NEW h, NEW g, usedBlocks(g) = usedBlocks(h)
    PROVE  (HeldBy(L, bytes, h) => HeldBy(L, bytes, g)) /\ (AmpleIn(L, h) => AmpleIn(L, g))
  BY DEF HeldBy, AmpleIn

LEMMA HeapStep ==
    ASSUME HeapInv, [HeapNext]_heapVars
    PROVE  HeapInv' /\ (SizesRound /\ Ample => Ample')
<1>1. Filled(segments) /\ JoinedInv(segments) /\ HeldBy(live, bytesAllocated, segments)
  BY DEF HeapInv
<1>2. PICK g : g = growHeap(segments)
  OBVIOUS
<1>3. ASSUME Len(segments) < PageBudget
      PROVE  /\ Filled(g) /\ JoinedInv(g) /\ HeldBy(live, bytesAllocated, g)
             /\ AmpleIn(live, segments) => AmpleIn(live, g)
  BY <1>1, <1>2, <1>3, Grown, HeldSame
<1>4. ASSUME NEW size \in Sizes, kmalloc(size) PROVE HeapInv' /\ (SizesRound /\ Ample => Ample')
  BY <1>1, <1>4, TakeStep DEF kmalloc, Ample
<1>5. ASSUME NEW size \in Sizes, kmallocGrows(size) PROVE HeapInv' /\ (SizesRound /\ Ample => Ample')
  <2>1. Len(segments) < PageBudget /\ fits(g, alignUp(size)) # {} /\ take(g, size)
    BY <1>2, <1>5 DEF kmallocGrows
  <2>2. HeapInv' /\ (SizesRound /\ AmpleIn(live, g) => Ample')
    BY <1>3, <2>1, TakeStep
  <2> QED
    BY <1>3, <2>1, <2>2 DEF Ample
<1>6. ASSUME NEW size \in Sizes, kmallocTooLarge(size) PROVE HeapInv' /\ (SizesRound /\ Ample => Ample')
  <2>1. Len(segments) < PageBudget /\ segments' = g /\ bytesAllocated' = bytesAllocated /\ live' = live
    BY <1>2, <1>6 DEF kmallocTooLarge
  <2> QED
    BY <1>3, <2>1 DEF HeapInv, Ample
<1>7. ASSUME NEW a \in live, kfree(a) PROVE HeapInv' /\ (SizesRound /\ Ample => Ample')
  BY <1>7, FreeStep
<1>8. CASE UNCHANGED heapVars
  <2>1. segments' = segments /\ bytesAllocated' = bytesAllocated /\ live' = live
    BY <1>8 DEF heapVars
  <2> QED
    BY <1>1, <2>1 DEF HeapInv, Ample
<1> QED
  BY <1>4, <1>5, <1>6, <1>7, <1>8 DEF HeapNext

LEMMA HeapStarts ==
    ASSUME HeapInit
    PROVE  HeapInv /\ Ample
<1>1. segments = <<>> /\ bytesAllocated = 0 /\ live = {}
  BY DEF HeapInit
<1>2. Len(segments) = 0 /\ DOMAIN segments = {} /\ segments \in Seq(SegmentType)
  BY <1>1
<1>3. allBlocks(segments) = {} /\ usedBlocks(segments) = {}
  BY <1>2 DEF allBlocks, usedBlocks
<1>4. PagesInv(segments) /\ LaidInv(segments) /\ JoinedInv(segments)
  BY <1>2, RequestAssumption DEF PagesInv, LaidInv, JoinedInv
<1>5. RoomInv(segments)
  <2>1. IsFiniteSet({}) /\ Cardinality({}) = 0
    BY FS_EmptySet
  <2>2. HeaderSize * 0 = 0 /\ 0 * (PageSize - SegmentSize) = 0
    BY Layout
  <2> QED
    BY <1>2, <1>3, <2>1, <2>2, BytesEmpty DEF RoomInv, Sized, room
<1>6. HeldBy(live, bytesAllocated, segments) /\ Ample
  BY <1>1, <1>3, BytesEmpty DEF HeldBy, AmpleIn, Ample
<1> QED
  BY <1>4, <1>5, <1>6 DEF HeapInv, Filled

-----------------------------------------------------------------------------
(***************************************************************************)
(* What the invariant says.                                                *)
(***************************************************************************)
LEMMA InvType == HeapInv => HeapTypeOK
<1> SUFFICES ASSUME HeapInv PROVE HeapTypeOK
  OBVIOUS
<1>1. Filled(segments) /\ HeldBy(live, bytesAllocated, segments)
  BY DEF HeapInv
<1>2. PICK n \in Nat : n = Len(segments) /\ n <= PageBudget
  BY <1>1 DEF Filled, PagesInv
<1>3. PICK S : S = allBlocks(segments)
  OBVIOUS
<1>4. IsFiniteSet(S) /\ (\A b \in S : b.size \in Nat) /\ usedBlocks(segments) \in SUBSET S
      /\ room(S) = n * (PageSize - SegmentSize)
  BY <1>1, <1>2, <1>3 DEF Filled, RoomInv, Sized, usedBlocks
<1>5. PICK u \in Nat, v \in Nat : u = bytesOf(usedBlocks(segments)) /\ v = bytesOf(S) /\ u <= v
  BY <1>4, BytesPart
<1>6. PICK c \in Nat : c = Cardinality(S)
  BY <1>4, FS_CardinalityType
<1>7. v + HeaderSize * c = n * (PageSize - SegmentSize)
  BY <1>4, <1>5, <1>6 DEF room
<1>8. ASSUME NEW x \in Nat, NEW y \in Nat PROVE x * y \in Nat
  OBVIOUS
<1>9. PICK e \in Nat : e = HeaderSize * c
  BY <1>6, <1>8, Layout
<1>10. PageSize - SegmentSize \in Nat /\ PageSize - SegmentSize <= PageSize
  BY Layout
<1>11. ASSUME NEW x \in Nat, NEW y \in Nat, NEW z \in Nat, NEW w \in Nat, x <= z, y <= w
       PROVE  x * y <= z * w
  <2>1. x * y <= z * y
    BY <1>11
  <2>2. z * y <= z * w
    BY <1>11
  <2> QED
    BY <1>8, <2>1, <2>2
<1>12. n * (PageSize - SegmentSize) <= PageBudget * PageSize
  BY <1>2, <1>10, <1>11, Layout, RequestAssumption
<1>13. v <= n * (PageSize - SegmentSize)
  BY <1>5, <1>7, <1>9
<1>14. n * (PageSize - SegmentSize) \in Nat /\ PageBudget * PageSize \in Nat
  BY <1>2, <1>8, <1>10, Layout, RequestAssumption
<1>15. bytesAllocated \in 0..(PageBudget * PageSize)
  <2>1. bytesAllocated = u
    BY <1>1, <1>5 DEF HeldBy
  <2> QED
    BY <1>5, <1>12, <1>13, <1>14, <2>1
<1>16. ASSUME NEW i \in DOMAIN segments, NEW k \in DOMAIN segments[i].blocks
       PROVE  segments[i].blocks[k].size \in 0..MaxPayload
  <2>1. Laid(segments[i].blocks)
    BY <1>1 DEF Filled, LaidInv
  <2>2. PICK a \in Nat, m \in Nat : a = segments[i].blocks[k].at /\ m = segments[i].blocks[k].size
    BY <2>1, LaidFacts
  <2>3. a >= SegmentSize /\ a + HeaderSize + m <= PageSize
    BY <2>1, <2>2 DEF Laid, end
  <2> QED
    BY <2>2, <2>3, Layout DEF MaxPayload
<1>17. Len(segments) \in 0..PageBudget
  BY <1>2, RequestAssumption
<1> QED
  BY <1>15, <1>16, <1>17 DEF HeapTypeOK

LEMMA InvBlocks == HeapInv => BlocksSound
<1> SUFFICES ASSUME HeapInv PROVE BlocksSound
  OBVIOUS
<1>1. Tiled
  <2>1. ASSUME NEW i \in DOMAIN segments
        PROVE  /\ segments[i].blocks[1].at = SegmentSize
               /\ \A k \in DOMAIN segments[i].blocks :
                     segments[i].blocks[k].at + HeaderSize + segments[i].blocks[k].size =
                        IF k = Len(segments[i].blocks) THEN PageSize ELSE segments[i].blocks[k + 1].at
    <3>1. Laid(segments[i].blocks)
      BY DEF HeapInv, Filled, LaidInv
    <3> QED
      BY <3>1 DEF Laid, end
  <2> QED
    BY <2>1 DEF Tiled
<1>2. Coalesced
  BY DEF HeapInv, JoinedInv, Joined, Coalesced
<1> QED
  BY <1>1, <1>2 DEF BlocksSound

LEMMA InvLive == HeapInv /\ Ample => LiveIntact
  BY DEF HeapInv, HeldBy, Ample, AmpleIn, LiveIntact

LEMMA HeapInvariant == HeapSpec => []HeapInv
<1>1. HeapInit => HeapInv
  BY HeapStarts
<1>2. HeapInv /\ [HeapNext]_heapVars => HeapInv'
  BY HeapStep
<1> QED
  BY <1>1, <1>2, PTL DEF HeapSpec

\* kmalloc and kfree keep the counters of the heap in range: no block has a
\* negative size or more than a page holds, and heap_bytes_allocated never
\* exceeds the pages the heap took.
THEOREM HeapTypeCorrect == HeapSpec => []HeapTypeOK
  BY HeapInvariant, InvType, PTL

\* After any sequence of kmalloc and kfree the blocks of every segment tile its
\* page, without overlap and without a lost byte, and no two free blocks are
\* neighbours: coalesce leaves none and splitIfWorthwhile makes none.
THEOREM BlocksStaySound == HeapSpec => []BlocksSound
  BY HeapInvariant, InvBlocks, PTL

\* As long as no request is so large that alignUp wraps around, what a caller
\* was given by kmalloc stays its own until it is freed: a used block at least
\* as large as was asked for, that no other caller holds, whatever is split and
\* merged around it.
THEOREM AllocationsIntact == SizesRound => (HeapSpec => []LiveIntact)
<1> SUFFICES ASSUME SizesRound PROVE HeapSpec => []LiveIntact
  OBVIOUS
<1>1. HeapInit => HeapInv /\ Ample
  BY HeapStarts
<1>2. (HeapInv /\ Ample) /\ [HeapNext]_heapVars => (HeapInv /\ Ample)'
  BY HeapStep
<1>3. HeapInv /\ Ample => LiveIntact
  BY InvLive
<1> QED
  BY <1>1, <1>2, <1>3, PTL DEF HeapSpec
=============================================================================

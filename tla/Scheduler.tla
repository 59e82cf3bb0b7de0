----------------------------- MODULE Scheduler ------------------------------
(***************************************************************************)
(* The task table of 22-os/scheduler/scheduler.cpp with the page-frame     *)
(* allocator (memory/memory.cpp) and the per-process page directories      *)
(* (paging/paging.cpp) it hands out and takes back, and the traps of       *)
(* interrupts.cpp and syscalls.cpp that enter it.                          *)
(*                                                                         *)
(* Interrupt gates clear IF, so a trap handler is one step.  Kernel tasks  *)
(* run with IF set: a call they make into the scheduler takes a step for   *)
(* each access to shared state, and the timer may fall between any two.    *)
(*                                                                         *)
(* A stack pointer is the context it resumes: whose it is and in which     *)
(* ring it runs.  All user mappings of a task lie within one 4 MiB region, *)
(* so a directory has at most one page table of its own.                   *)
(***************************************************************************)
EXTENDS Integers, Sequences, FiniteSets

CONSTANTS
    MaxTasks,       \* MAX_TASKS
    PageCount,      \* pages the allocator has beyond the reserved ones
    BootScript,     \* the kinds of task kernel_main creates, in order
    RunTimeKinds,   \* the kinds of task a kernel task creates later
    ElfPages,       \* PT_LOAD pages of an ELF image
    Supervisors,    \* the pids whose task creates and unblocks others
    MaxPid          \* bound on the pids

Kinds == {"kernel", "user", "elf"}

ASSUME TableAssumption == MaxTasks \in Nat \ {0} /\ PageCount \in Nat
ASSUME ScriptAssumption == BootScript \in Seq(Kinds) /\ RunTimeKinds \subseteq Kinds
ASSUME SchedulerBounds == /\ ElfPages \in Nat /\ MaxPid \in Nat
                          /\ MaxPid >= 1 + Len(BootScript)

VARIABLES
    tasks,          \* the task table
    current,        \* currentTaskIndex
    nextPid,
    used,           \* the pages marked in the allocator's bitmap
    tables,         \* tables[d]: the page tables directory d points to
    cpu,            \* the context the processor executes
    cr3,            \* the directory it has loaded
    job,            \* job[p]: the call context p is in, with its locals
    script,         \* what is left of BootScript
    exited          \* history: the contexts that have ended

memory == <<used, tables>>
vars == <<tasks, current, nextPid, memory, cpu, cr3, job, script, exited>>

Slot == 0..(MaxTasks - 1)
Page == 1..PageCount
KernelSpace == 0

BootPid == 0        \* kernel_main itself, on the boot stack
IdlePid == 1
Pid == IdlePid..MaxPid

Kernel(p) == [pid |-> p, ring |-> 0]
User(p) == [pid |-> p, ring |-> 3]
Nowhere == [pid |-> -1, ring |-> 0]     \* savedEsp of a slot never used

NoCall == [call |-> "none"]

EmptySlot == [pid |-> 0, state |-> "Unused", savedEsp |-> Nowhere,
              isUser |-> FALSE, pages |-> {}, space |-> KernelSpace]

\* The state scheduler_init leaves, before kernel_main creates its tasks.
Init ==
    /\ tasks = [s \in Slot |->
          IF s = 0 THEN [EmptySlot EXCEPT !.pid = IdlePid, !.state = "Ready",
                                          !.savedEsp = Kernel(IdlePid)]
          ELSE EmptySlot]
    /\ current = -1
    /\ nextPid = IdlePid + 1
    /\ used = {}
    /\ tables = [d \in Page |-> {}]
    /\ cpu = Kernel(BootPid)
    /\ cr3 = KernelSpace
    /\ job = [p \in {BootPid} \cup Pid |-> NoCall]
    /\ script = BootScript
    /\ exited = {}

-----------------------------------------------------------------------------
(***************************************************************************)
(* Selection and switching.                                                *)
(***************************************************************************)
inState(t, states) == {s \in Slot : t[s].state \in states}
least(S) == CHOOSE s \in S : \A r \in S : s <= r

findSlot == IF inState(tasks, {"Unused"}) # {} THEN least(inState(tasks, {"Unused"}))
            ELSE least(inState(tasks, {"Dead"}))
someSlot == inState(tasks, {"Unused", "Dead"}) # {}

\* Seeded bug: the search starts at slot 0 instead of behind `from'.
pickNextFromStart(t, from) ==
    IF \E s \in inState(t, {"Ready", "Running"}) : s # 0
    THEN least(inState(t, {"Ready", "Running"}) \ {0}) ELSE 0

\* Seeded bug: a Dead slot is selectable.
pickNextDeadToo(t, from) ==
    LET offsets == {k \in 1..MaxTasks :
                       t[(from + k) % MaxTasks].state \in {"Ready", "Running", "Dead"}}
    IN IF offsets = {} THEN -1 ELSE (from + least(offsets)) % MaxTasks

pickNext(t, from) ==
    LET offsets == {k \in 1..MaxTasks :
                       t[(from + k) % MaxTasks].state \in {"Ready", "Running"}}
    IN IF offsets = {} THEN -1 ELSE (from + least(offsets)) % MaxTasks

\* Seeded bug: CR3 keeps the directory of the task switched away from.
switchToKeepCr3(t, next) ==
    /\ tasks' = [s \in Slot |->
          IF s = next THEN [t[s] EXCEPT !.state = "Running"]
          ELSE IF s = current /\ t[s].state = "Running" THEN [t[s] EXCEPT !.state = "Ready"]
          ELSE t[s]]
    /\ current' = next
    /\ cpu' = t[next].savedEsp
    /\ UNCHANGED cr3

switchTo(t, next) ==
    /\ tasks' = [s \in Slot |->
          IF s = next THEN [t[s] EXCEPT !.state = "Running"]
          ELSE IF s = current /\ t[s].state = "Running" THEN [t[s] EXCEPT !.state = "Ready"]
          ELSE t[s]]
    /\ current' = next
    /\ cpu' = t[next].savedEsp
    /\ cr3' = t[next].space

scheduler_on_timer_tick(t) ==
    LET saved == [t EXCEPT ![current].savedEsp = cpu]
        next == pickNext(saved, current)
    IN \/ /\ current = -1
          /\ switchTo(t, 0)
       \/ /\ current # -1
          /\ next \in {-1, current}
          /\ tasks' = saved
          /\ UNCHANGED <<current, cpu, cr3>>
       \/ /\ current # -1
          /\ next \notin {-1, current}
          /\ switchTo(saved, next)

-----------------------------------------------------------------------------
(***************************************************************************)
(* Traps.  scheduler_yield and SYS_YIELD in a loop are the same step as a  *)
(* timer tick that happens to come there.                                  *)
(***************************************************************************)
me == cpu.pid
inCall(call) == cpu # Nowhere /\ job[me].call = call
returns(j) == job' = [job EXCEPT ![me] = j]

timer ==
    /\ cpu # Nowhere
    /\ job[me].call # "halt"                            \* cli; hlt
    /\ me = BootPid => inCall("none") /\ script = <<>>  \* interrupts_enable
    /\ scheduler_on_timer_tick(tasks)
    /\ UNCHANGED <<nextPid, memory, job, script, exited>>

\* SYS_EXIT, or an exception in ring 3: scheduler_terminate_current.
terminate ==
    /\ cpu.ring = 3
    /\ scheduler_on_timer_tick([tasks EXCEPT ![current].state = "Dead"])
    /\ exited' = exited \cup {me}
    /\ UNCHANGED <<nextPid, memory, job, script>>

\* The int $0x81 at the end of scheduler_exit and scheduler_block_self.
yield ==
    /\ inCall("yield")
    /\ returns([call |-> job[me].then])
    /\ scheduler_on_timer_tick(tasks)
    /\ UNCHANGED <<nextPid, memory, script, exited>>

-----------------------------------------------------------------------------
(***************************************************************************)
(* What a kernel task does.  The idle task only halts.                     *)
(***************************************************************************)
kernelTask == cpu.ring = 0 /\ inCall("none") /\ me \notin {BootPid, IdlePid}
supervisor == kernelTask /\ me \in Supervisors

scheduler_exit ==
    /\ kernelTask
    /\ tasks' = [tasks EXCEPT ![current].state = "Dead"]
    /\ exited' = exited \cup {me}
    /\ returns([call |-> "yield", then |-> "halt"])
    /\ UNCHANGED <<current, nextPid, memory, cpu, cr3, script>>

scheduler_block_self ==
    /\ kernelTask
    /\ tasks' = [tasks EXCEPT ![current].state = "Blocked"]
    /\ returns([call |-> "yield", then |-> "none"])
    /\ UNCHANGED <<current, nextPid, memory, cpu, cr3, script, exited>>

\* scheduler_unblock finds a Blocked task with the pid, and then wakes it.
scheduler_unblock(p) ==
    /\ supervisor
    /\ \E s \in Slot : /\ tasks[s].pid = p
                       /\ tasks[s].state = "Blocked"
                       /\ returns([call |-> "unblock", slot |-> s])
    /\ UNCHANGED <<tasks, current, nextPid, memory, cpu, cr3, script, exited>>

wake ==
    /\ inCall("unblock")
    /\ tasks' = [tasks EXCEPT ![job[me].slot].state = "Ready"]
    /\ returns(NoCall)
    /\ UNCHANGED <<current, nextPid, memory, cpu, cr3, script, exited>>

-----------------------------------------------------------------------------
(***************************************************************************)
(* Task creation: scheduler_create_task, scheduler_create_user_task and    *)
(* scheduler_create_elf_user_task, as lists of the steps they take.  The   *)
(* last two gather pages in local variables first.                         *)
(***************************************************************************)
RECLAIM == <<"reclaim", "publish", "frame">>
segmentSteps == [i \in 1..(2 * ElfPages) |-> IF i % 2 = 1 THEN "page" ELSE "map"]

steps(kind) ==
    CASE kind = "kernel" -> RECLAIM
      [] kind = "user"   -> <<"page", "page", "space", "map", "map">> \o RECLAIM
      [] kind = "elf"    -> <<"space">> \o segmentSteps \o <<"page", "map">> \o RECLAIM

creators == {p \in {BootPid} \cup Pid : job[p].call = "create"}

\* No slot: the call returns -1 and changes nothing.
scheduler_create(kind) ==
    /\ nextPid + Cardinality(creators) <= MaxPid
    /\ IF someSlot
       THEN returns([call |-> "create", kind |-> kind, slot |-> findSlot,
                     todo |-> steps(kind), pages |-> {}, space |-> KernelSpace])
       ELSE UNCHANGED job
    /\ UNCHANGED <<tasks, current, nextPid, memory, cpu, cr3, exited>>

boot ==
    /\ me = BootPid
    /\ inCall("none")
    /\ script # <<>>
    /\ script' = Tail(script)
    /\ scheduler_create(Head(script))

spawn(kind) ==
    /\ supervisor
    /\ kind \in RunTimeKinds
    /\ scheduler_create(kind)
    /\ UNCHANGED script

at(step) == inCall("create") /\ Head(job[me].todo) = step
proceed(j) == returns([j EXCEPT !.todo = Tail(@)])

(***************************************************************************)
(* The allocator: the lowest unmarked page.                                *)
(***************************************************************************)
free == Page \ used

\* Seeded bug: the index of a bit is off by one.
allocPageBelow == least(free) - 1

memory_alloc_page == least(free)

spacePages(d) == IF d = KernelSpace THEN {} ELSE {d} \cup tables[d]

\* Seeded bug: the directory's page table is not freed with it.
destroyLeaksTable(pages, d) ==
    /\ used' = used \ (pages \cup {d})
    /\ tables' = IF d = KernelSpace THEN tables ELSE [tables EXCEPT ![d] = {}]

\* paging_destroy_address_space(d), with the pages its owner frees.
destroy(pages, d) ==
    /\ used' = used \ (pages \cup spacePages(d))
    /\ tables' = IF d = KernelSpace THEN tables ELSE [tables EXCEPT ![d] = {}]

allocPage ==
    /\ at("page")
    /\ free # {}
    /\ used' = used \cup {memory_alloc_page}
    /\ proceed([job[me] EXCEPT !.pages = @ \cup {memory_alloc_page}])
    /\ UNCHANGED <<tasks, current, nextPid, tables, cpu, cr3, script, exited>>

paging_create_address_space ==
    /\ at("space")
    /\ free # {}
    /\ used' = used \cup {memory_alloc_page}
    /\ tables' = [tables EXCEPT ![memory_alloc_page] = {}]
    /\ proceed([job[me] EXCEPT !.space = memory_alloc_page])
    /\ UNCHANGED <<tasks, current, nextPid, cpu, cr3, script, exited>>

paging_map_user_page ==
    /\ at("map")
    /\ \/ /\ tables[job[me].space] # {}
          /\ UNCHANGED memory
       \/ /\ tables[job[me].space] = {}
          /\ free # {}
          /\ used' = used \cup {memory_alloc_page}
          /\ tables' = [tables EXCEPT ![job[me].space] = {memory_alloc_page}]
    /\ proceed(job[me])
    /\ UNCHANGED <<tasks, current, nextPid, cpu, cr3, script, exited>>

\* Out of pages: everything gathered so far goes back, the call returns -1.
rollback ==
    /\ \/ at("page")
       \/ at("space")
       \/ at("map") /\ tables[job[me].space] = {}
    /\ free = {}
    /\ destroy(job[me].pages, job[me].space)
    /\ returns(NoCall)
    /\ UNCHANGED <<tasks, current, nextPid, cpu, cr3, script, exited>>

reclaimSlot ==
    LET s == job[me].slot
    IN
    /\ at("reclaim")
    /\ destroy(tasks[s].pages, IF tasks[s].isUser THEN tasks[s].space ELSE KernelSpace)
    /\ tasks' = [tasks EXCEPT ![s].pages = {}, ![s].isUser = FALSE, ![s].space = KernelSpace]
    /\ proceed(job[me])
    /\ UNCHANGED <<current, nextPid, cpu, cr3, script, exited>>

\* The slot is filled in and Ready; savedEsp is still the old one.
publish ==
    LET j == job[me]
    IN
    /\ at("publish")
    /\ tasks' = [tasks EXCEPT ![j.slot] =
                    [@ EXCEPT !.pid = nextPid, !.state = "Ready", !.isUser = j.kind # "kernel",
                              !.pages = j.pages, !.space = j.space]]
    /\ nextPid' = nextPid + 1
    /\ proceed([j EXCEPT !.pages = {}, !.space = KernelSpace])
    /\ UNCHANGED <<current, memory, cpu, cr3, script, exited>>

\* Seeded bug: a slot that has a stack frame already keeps it.
prepareFrameOnce ==
    LET s == job[me].slot
    IN
    /\ at("frame")
    /\ tasks' = [tasks EXCEPT ![s].savedEsp =
                    IF @ # Nowhere THEN @
                    ELSE IF job[me].kind = "kernel" THEN Kernel(tasks[s].pid)
                    ELSE User(tasks[s].pid)]
    /\ returns(NoCall)
    /\ UNCHANGED <<current, nextPid, memory, cpu, cr3, script, exited>>

\* prepareInitialFrame, prepareUserInitialFrame.
prepareInitialFrame ==
    LET s == job[me].slot
    IN
    /\ at("frame")
    /\ tasks' = [tasks EXCEPT ![s].savedEsp =
                    IF job[me].kind = "kernel" THEN Kernel(tasks[s].pid) ELSE User(tasks[s].pid)]
    /\ returns(NoCall)
    /\ UNCHANGED <<current, nextPid, memory, cpu, cr3, script, exited>>

Next ==
    \/ timer
    \/ terminate
    \/ yield
    \/ scheduler_exit
    \/ scheduler_block_self
    \/ \E p \in Pid : scheduler_unblock(p)
    \/ wake
    \/ boot
    \/ \E kind \in Kinds : spawn(kind)
    \/ allocPage
    \/ paging_create_address_space
    \/ paging_map_user_page
    \/ rollback
    \/ reclaimSlot
    \/ publish
    \/ prepareInitialFrame

Spec == Init /\ [][Next]_vars

\* The timer runs at 100 Hz whatever the tasks do, and the controller keeps its
\* interrupt until it can be taken; the processor executes the call it is in.
callStep ==
    \/ yield \/ wake \/ boot \/ allocPage \/ paging_create_address_space
    \/ paging_map_user_page \/ rollback \/ reclaimSlot \/ publish \/ prepareInitialFrame

FairSpec == Spec /\ SF_vars(timer) /\ WF_vars(callStep)

-----------------------------------------------------------------------------
(***************************************************************************)
(* Properties.                                                             *)
(***************************************************************************)

States == {"Unused", "Ready", "Running", "Blocked", "Dead"}

\* The slots that are filled in and have no stack frame yet.
awaitingFrame == {job[p].slot : p \in {q \in creators : Head(job[q].todo) = "frame"}}

\* The context of the task in slot s.
own(s) == IF tasks[s].isUser THEN User(tasks[s].pid) ELSE Kernel(tasks[s].pid)

\* Every field of the task table and of the allocator has a value of its type;
\* the processor is with a task, kernel_main, or nowhere: where a slot that had
\* no task before is resumed ahead of its frame.
TypeOK ==
    /\ \A s \in Slot : /\ tasks[s].state \in States
                       /\ tasks[s].pid \in 0..MaxPid
                       /\ tasks[s].pages \subseteq Page
                       /\ tasks[s].space \in {KernelSpace} \cup Page
                       /\ tasks[s].isUser \in BOOLEAN
    /\ current \in {-1} \cup Slot
    /\ used \subseteq Page
    /\ cpu = Nowhere \/ cpu.pid \in {BootPid} \cup Pid

\* switchTo leaves one task Running, the current one, with its own directory
\* loaded; and once the timer has ticked some task can always be resumed.
OneRuns ==
    current # -1 =>
        /\ inState(tasks, {"Running"}) \subseteq {current}
        /\ cr3 = tasks[current].space
        /\ pickNext(tasks, current) # -1

\* Whoever runs, and whoever can be resumed later, does so on its own stack
\* frame, whatever tick interrupts whatever call, as soon as the slot has its
\* frame: reusing a slot (reclaimSlot, publish, prepareInitialFrame) leaves
\* nothing of the task that died there, nor of one that a tick resumed before
\* prepareInitialFrame.
OwnContext ==
    /\ \A s \in inState(tasks, {"Ready", "Blocked"}) \ (awaitingFrame \cup {current}) :
          tasks[s].savedEsp = own(s)
    /\ current \notin {-1} \cup awaitingFrame => cpu = own(current)

\* "a Dead task is never scheduled again" (scheduler_exit in scheduler.hpp).
DeadNeverRuns ==
    [][cpu' # cpu => cpu'.pid \notin exited']_vars

\* What holds of it: a context that has ended is resumed only by a tick that
\* finds the slot it died in Ready and still without the new task's frame.
DeadRunsOnlyUnframed ==
    [][cpu' # cpu /\ cpu'.pid \in exited' => current' \in awaitingFrame']_vars

\* Every holder of a page, with the role the page has for it.
Holdings ==
    UNION ({{<<"slot", s>>} \X (({"page"} \X tasks[s].pages)
                                \cup ({"space"} \X spacePages(tasks[s].space))) : s \in Slot}
           \cup {{<<"job", p>>} \X (({"page"} \X job[p].pages)
                                    \cup ({"space"} \X spacePages(job[p].space))) : p \in creators})

\* Pages are neither leaked nor shared: a page is marked in the bitmap exactly
\* when one task, dead or alive, or one unfinished creation holds it, in one
\* role.  rollback and reclaimSlot return each page exactly once.
PagesAccounted ==
    \A q \in Page :
        Cardinality({h \in Holdings : h[2][2] = q}) = IF q \in used THEN 1 ELSE 0

\* Round robin: every Ready task gets to run, however the others behave, unless
\* the processor has stopped: cli; hlt of a task that a tick resumed after its
\* end, or no stack at all.
stopped == cpu = Nowhere \/ inCall("halt")
ReadyRuns ==
    \A s \in Slot : tasks[s].state = "Ready" ~> tasks[s].state # "Ready" \/ stopped
=============================================================================

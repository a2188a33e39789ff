--------------------------------- MODULE Mpe ---------------------------------
(***************************************************************************)
(* The processors of the machine (lab3: mpe.c, trm.c, stdlib.c, ioe.c):    *)
(* processor 0 starts the others one by one, all run the user's entry,     *)
(* and any of them may end the machine with exit_safe or halt.  To start   *)
(* or to stop a processor is the same: it is reset and begins at the boot  *)
(* record, whose first instruction sends it to the boot sector or keeps it *)
(* there.  A reset (INIT and STARTUP of the local APIC) takes effect some  *)
(* time after it was sent.                                                 *)
(***************************************************************************)
EXTENDS Integers, FiniteSets

CONSTANT NCpu   \* __am_ncpu

ASSUME NCpuAssumption == NCpu \in Nat \ {0}

VARIABLES
    pc,         \* where each processor is
    cpu,        \* the loop variable of mpe_init
    ap_ready,
    jmp_code,   \* the first instruction of the boot record
    resets,     \* the processors a reset is on its way to
    next,       \* the loop variable of each __am_stop_the_world
    exit_flag,
    halters,    \* the processors that called halt
    power

vars == <<pc, cpu, ap_ready, jmp_code, resets, next, exit_flag, halters, power>>

Cpus == 0..NCpu - 1

Goto(c, label) == pc' = [pc EXCEPT ![c] = label]

-----------------------------------------------------------------------------
(* Starting *)

\* Mutant: the boot record keeps what the boot loader left there.
MutantMpeInitNoJump ==
    /\ pc[0] = "main"
    /\ Goto(0, "boot")
    /\ UNCHANGED <<cpu, ap_ready, jmp_code, resets, next, exit_flag, halters, power>>

MpeInit ==
    /\ pc[0] = "main"
    /\ Goto(0, "boot")
    /\ jmp_code' = "boot"
    /\ UNCHANGED <<cpu, ap_ready, resets, next, exit_flag, halters, power>>

\* __am_lapic_bootap(cpu): the second of its two STARTUPs finds the
\* processor running and is ignored.
BootAp ==
    /\ pc[0] = "boot"
    /\ cpu < NCpu
    /\ resets' = resets \cup {cpu}
    /\ Goto(0, "wait")
    /\ UNCHANGED <<cpu, ap_ready, jmp_code, next, exit_flag, halters, power>>

\* Mutant: ap_ready is read, not exchanged.
MutantSeeReadyKeeps ==
    /\ pc[0] = "wait"
    /\ ap_ready = 1
    /\ cpu' = cpu + 1
    /\ Goto(0, "boot")
    /\ UNCHANGED <<ap_ready, jmp_code, resets, next, exit_flag, halters, power>>

\* xchg(&ap_ready, 0) has returned 1.
SeeReady ==
    /\ pc[0] = "wait"
    /\ ap_ready = 1
    /\ ap_ready' = 0
    /\ cpu' = cpu + 1
    /\ Goto(0, "boot")
    /\ UNCHANGED <<jmp_code, resets, next, exit_flag, halters, power>>

AllBooted ==
    /\ pc[0] = "boot"
    /\ cpu = NCpu
    /\ Goto(0, "user")
    /\ UNCHANGED <<cpu, ap_ready, jmp_code, resets, next, exit_flag, halters, power>>

\* A reset arrives, whatever the processor is doing.
Reset(c) ==
    /\ c \in resets
    /\ resets' = resets \ {c}
    /\ Goto(c, "fetch")
    /\ UNCHANGED <<cpu, ap_ready, jmp_code, next, exit_flag, halters, power>>

\* Mutant: the processor reports while it is on the boot sector's stack.
MutantFetchReports(c) ==
    /\ pc[c] = "fetch"
    /\ Goto(c, IF jmp_code = "boot" THEN "start" ELSE "spin")
    /\ ap_ready' = 1
    /\ UNCHANGED <<cpu, jmp_code, resets, next, exit_flag, halters, power>>

\* The instruction at the boot record.
Fetch(c) ==
    /\ pc[c] = "fetch"
    /\ Goto(c, IF jmp_code = "boot" THEN "start" ELSE "spin")
    /\ UNCHANGED <<cpu, ap_ready, jmp_code, resets, next, exit_flag, halters, power>>

\* start.S, load_kernel and _start_c run on one stack, at 0xa000, until
\* __am_othercpu_entry switches to the processor's own.
SwitchStack(c) ==
    /\ pc[c] = "start"
    /\ Goto(c, "percpu")
    /\ UNCHANGED <<cpu, ap_ready, jmp_code, resets, next, exit_flag, halters, power>>

\* __am_percpu_init, then xchg(&ap_ready, 1), then the user's entry.
Report(c) ==
    /\ pc[c] = "percpu"
    /\ ap_ready' = 1
    /\ Goto(c, "user")
    /\ UNCHANGED <<cpu, jmp_code, resets, next, exit_flag, halters, power>>

-----------------------------------------------------------------------------
(* Ending *)

Running(c) == pc[c] \in {"main", "user"}

\* exit_safe: called by the program, by a failed assertion or because the
\* user's entry returned.
ExitSafe(c) ==
    /\ Running(c)
    /\ Goto(c, "exit")
    /\ UNCHANGED <<cpu, ap_ready, jmp_code, resets, next, exit_flag, halters, power>>

\* Mutant: the flag is tested but never set.
MutantTakeFlagKeeps(c) ==
    /\ pc[c] = "exit"
    /\ Goto(c, IF exit_flag = 0 THEN "exit_print" ELSE "spin")
    /\ UNCHANGED <<cpu, ap_ready, jmp_code, resets, next, exit_flag, halters, power>>

\* atomic_xchg(&exit_flag, 1)
TakeFlag(c) ==
    /\ pc[c] = "exit"
    /\ exit_flag' = 1
    /\ Goto(c, IF exit_flag = 0 THEN "exit_print" ELSE "spin")
    /\ UNCHANGED <<cpu, ap_ready, jmp_code, resets, next, halters, power>>

\* halt: interrupts off, and whoever is reset from now on stays at the boot
\* record.
Halt(c) ==
    /\ Running(c)
    /\ Goto(c, "halt")
    /\ jmp_code' = "spin"
    /\ next' = [next EXCEPT ![c] = 0]
    /\ halters' = halters \cup {c}
    /\ UNCHANGED <<cpu, ap_ready, resets, exit_flag, power>>

\* Mutant: __am_stop_the_world does not spare the caller.
MutantStopNextAll(c) ==
    /\ pc[c] = "halt"
    /\ next[c] < NCpu
    /\ resets' = resets \cup {next[c]}
    /\ next' = [next EXCEPT ![c] = @ + 1]
    /\ UNCHANGED <<pc, cpu, ap_ready, jmp_code, exit_flag, halters, power>>

\* Mutant: the loop goes on after the last processor.
MutantStopNextPast(c) ==
    /\ pc[c] = "halt"
    /\ next[c] <= NCpu
    /\ resets' = resets \cup ({next[c]} \ {c, NCpu})
    /\ next' = [next EXCEPT ![c] = @ + 1]
    /\ UNCHANGED <<pc, cpu, ap_ready, jmp_code, exit_flag, halters, power>>

\* __am_stop_the_world
StopNext(c) ==
    /\ pc[c] = "halt"
    /\ next[c] < NCpu
    /\ resets' = resets \cup ({next[c]} \ {c})
    /\ next' = [next EXCEPT ![c] = @ + 1]
    /\ UNCHANGED <<pc, cpu, ap_ready, jmp_code, exit_flag, halters, power>>

WorldStopped(c) ==
    /\ pc[c] = "halt"
    /\ next[c] = NCpu
    /\ Goto(c, "halt_print")
    /\ UNCHANGED <<cpu, ap_ready, jmp_code, resets, next, exit_flag, halters, power>>

Announce(c) ==
    /\ pc[c] \in {"exit_print", "halt_print"}
    /\ Goto(c, IF pc[c] = "exit_print" THEN "exit_off" ELSE "halt_off")
    /\ UNCHANGED <<cpu, ap_ready, jmp_code, resets, next, exit_flag, halters, power>>

\* outw(0x604, 0x2000)
PowerOff(c) ==
    /\ pc[c] \in {"exit_off", "halt_off"}
    /\ power' = "off"
    /\ UNCHANGED <<pc, cpu, ap_ready, jmp_code, resets, next, exit_flag, halters>>

-----------------------------------------------------------------------------

Init ==
    /\ pc = [c \in Cpus |-> IF c = 0 THEN "main" ELSE "unstarted"]
    /\ cpu = 1
    /\ ap_ready = 0
    /\ jmp_code = "none"
    /\ resets = {}
    /\ next = [c \in Cpus |-> 0]
    /\ exit_flag = 0
    /\ halters = {}
    /\ power = "on"

\* What the processors do by themselves.
Proceed(c) ==
    /\ power = "on"
    /\ \/ c = 0 /\ (BootAp \/ SeeReady \/ AllBooted)
       \/ Fetch(c) \/ SwitchStack(c) \/ Report(c)
       \/ TakeFlag(c) \/ StopNext(c) \/ WorldStopped(c) \/ Announce(c) \/ PowerOff(c)

\* What the program decides.
Decide(c) == power = "on" /\ (ExitSafe(c) \/ Halt(c) \/ (c = 0 /\ MpeInit))

Arrive(c) == power = "on" /\ Reset(c)

Next == \E c \in Cpus : Proceed(c) \/ Decide(c) \/ Arrive(c)

\* Every processor that is not stopped runs, and a reset arrives in the end.
Fairness == \A c \in Cpus : WF_vars(Proceed(c)) /\ WF_vars(Arrive(c))

Spec == Init /\ [][Next]_vars /\ Fairness

-----------------------------------------------------------------------------
(* Properties *)

TypeOK ==
    /\ pc \in [Cpus -> {"main", "boot", "wait", "unstarted", "fetch", "start", "percpu",
                        "user", "exit", "exit_print", "exit_off", "halt", "halt_print",
                        "halt_off", "spin"}]
    /\ cpu \in 1..NCpu
    /\ ap_ready \in {0, 1}
    /\ jmp_code \in {"none", "boot", "spin"}
    /\ resets \subseteq Cpus
    /\ next \in [Cpus -> 0..NCpu]
    /\ exit_flag \in {0, 1}
    /\ halters \subseteq Cpus
    /\ power \in {"on", "off"}

\* The boot sector's stack has one user at a time: the handshake over
\* ap_ready (mpe.c:18) keeps mpe_init from starting the next processor while
\* one is still on it, and a processor that ran before never comes back to it.
BootStackExclusive ==
    \A c, d \in Cpus : pc[c] = "start" /\ pc[d] = "start" => c = d

\* Processor 0 enters the user's entry after all others have been set up
\* (mpe.c:15-22), unless somebody halts the machine meanwhile.
EntryAfterAllAreReady ==
    pc[0] = "user" /\ halters = {} =>
        \A c \in Cpus : pc[c] \notin {"unstarted", "fetch", "start", "percpu"}

\* exit_safe prints and powers off at most once, whatever the number of
\* processors that call it (stdlib.c:42).
ExitsOnce ==
    \A c, d \in Cpus :
        {pc[c], pc[d]} \subseteq {"exit_print", "exit_off"} => c = d

Ending == \E c \in Cpus :
    pc[c] \in {"exit", "exit_print", "exit_off", "halt", "halt_print", "halt_off"}

\* mpe_init brings every processor into the user's entry (no reset and no
\* report is lost), unless one that is there already ends the machine.
BootCompletes ==
    pc[0] = "boot" ~> (\A c \in Cpus : pc[c] = "user") \/ halters # {} \/ power = "off"

\* A machine that is being ended is powered off, unless two processors
\* called halt: each may be reset by the other one before it got that far
\* (mpe.c:48-55, trm.c:43-57).
EndPowersOff == Ending ~> power = "off" \/ Cardinality(halters) >= 2

=============================================================================

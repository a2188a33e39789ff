------------------------------ MODULE MpeProofs ------------------------------
(***************************************************************************)
(* The start and the halt of the processors are safe for every number of   *)
(* processors: THEOREMs BootStackHasOneUser, EntryComesLast, ExitsAtMostOnce. *)
(*                                                                         *)
(* The invariant says how far mpe_init is.  Until somebody calls halt, the *)
(* loop is at the processor cpu: those before it are in the user's entry,  *)
(* those after it have not been touched, and cpu itself is in exactly one  *)
(* of three states, which ap_ready and the resets tell apart.  After a     *)
(* halt the boot record keeps every processor that is reset, so that       *)
(* nobody comes to the boot stack any more.                                *)
(***************************************************************************)
EXTENDS Mpe, TLAPS

\* The processor has left mpe_init or was never in it.
Entered(c) == pc[c] \in {"user", "exit", "exit_print", "exit_off", "spin"}

Untouched(c) == pc[c] = "unstarted"

\* Nobody has been started.
NothingStarted ==
    /\ cpu = 1 /\ jmp_code = "none" /\ ap_ready = 0 /\ resets = {}
    /\ \A c \in Cpus \ {0} : Untouched(c)

\* mpe_init is about to start the processor cpu, or is done.
BetweenTwo ==
    /\ jmp_code = "boot" /\ ap_ready = 0 /\ resets = {}
    /\ \A c \in Cpus \ {0} : IF c < cpu THEN Entered(c) ELSE Untouched(c)

\* mpe_init waits for the processor cpu.
WaitingForOne ==
    /\ jmp_code = "boot" /\ cpu < NCpu
    /\ \A c \in Cpus \ {0, cpu} : IF c < cpu THEN Entered(c) ELSE Untouched(c)
    /\ \/ resets = {cpu} /\ Untouched(cpu) /\ ap_ready = 0
       \/ resets = {} /\ pc[cpu] \in {"fetch", "start", "percpu"} /\ ap_ready = 0
       \/ resets = {} /\ Entered(cpu) /\ ap_ready = 1

\* Nobody has called halt yet.
Starting ==
    /\ pc[0] = "main" => NothingStarted
    /\ pc[0] = "boot" => BetweenTwo
    /\ pc[0] = "wait" => WaitingForOne
    /\ pc[0] = "user" => BetweenTwo /\ cpu = NCpu
    /\ pc[0] \in {"exit", "exit_print", "exit_off", "spin"} =>
          NothingStarted \/ (BetweenTwo /\ cpu = NCpu)
    /\ pc[0] \in {"main", "boot", "wait"} \/ Entered(0)

Halted == jmp_code = "spin" /\ pc[0] # "main" /\ BootStackExclusive

\* The types, and mpe_init waits only for a processor there is.
TypeInv == TypeOK /\ (pc[0] = "wait" => cpu < NCpu)

PhaseInv == IF halters = {} THEN Starting ELSE Halted

ExitInv ==
    /\ ExitsOnce
    /\ exit_flag = 0 => \A c \in Cpus : pc[c] \notin {"exit_print", "exit_off"}

\* The inductive invariant.
MpeInv == TypeInv /\ PhaseInv /\ ExitInv

-----------------------------------------------------------------------------

\* A step is one of the actions, of one of the processors.
LEMMA Actions ==
    ASSUME Next
    PROVE  \E c \in Cpus :
              \/ MpeInit \/ BootAp \/ SeeReady \/ AllBooted
              \/ Reset(c) \/ Fetch(c) \/ SwitchStack(c) \/ Report(c)
              \/ ExitSafe(c) \/ TakeFlag(c) \/ Halt(c) \/ StopNext(c)
              \/ WorldStopped(c) \/ Announce(c) \/ PowerOff(c)
  BY DEF Next, Proceed, Decide, Arrive

\* The types of the variables.
LEMMA TypeKept ==
    ASSUME TypeInv, Next
    PROVE  TypeInv'
  <1> USE NCpuAssumption DEF TypeInv, TypeOK, Cpus, Goto
  <1> PICK c \in Cpus :
              \/ MpeInit \/ BootAp \/ SeeReady \/ AllBooted
              \/ Reset(c) \/ Fetch(c) \/ SwitchStack(c) \/ Report(c)
              \/ ExitSafe(c) \/ TakeFlag(c) \/ Halt(c) \/ StopNext(c)
              \/ WorldStopped(c) \/ Announce(c) \/ PowerOff(c)
    BY Actions
  <1>1. CASE MpeInit
    BY <1>1 DEF MpeInit
  <1>2. CASE BootAp
    BY <1>2 DEF BootAp
  <1>3. CASE SeeReady
    BY <1>3 DEF SeeReady
  <1>4. CASE AllBooted
    BY <1>4 DEF AllBooted
  <1>5. CASE Reset(c)
    BY <1>5 DEF Reset
  <1>6. CASE Fetch(c)
    BY <1>6 DEF Fetch
  <1>7. CASE SwitchStack(c)
    BY <1>7 DEF SwitchStack
  <1>8. CASE Report(c)
    BY <1>8 DEF Report
  <1>9. CASE ExitSafe(c)
    BY <1>9 DEF ExitSafe, Running
  <1>10. CASE TakeFlag(c)
    BY <1>10 DEF TakeFlag
  <1>11. CASE Halt(c)
    BY <1>11 DEF Halt, Running
  <1>12. CASE StopNext(c)
    <2>1. next[c] \in 0..NCpu /\ next[c] < NCpu
      BY <1>12 DEF StopNext
    <2>2. resets' \subseteq Cpus
      <3>1. next[c] \in Cpus
        BY <2>1
      <3> QED
        BY <1>12, <3>1 DEF StopNext
    <2>3. next' \in [Cpus -> 0..NCpu]
      BY <1>12, <2>1 DEF StopNext
    <2> QED
      BY <1>12, <2>2, <2>3 DEF StopNext
  <1>13. CASE WorldStopped(c)
    BY <1>13 DEF WorldStopped
  <1>14. CASE Announce(c)
    BY <1>14 DEF Announce
  <1>15. CASE PowerOff(c)
    BY <1>15 DEF PowerOff
  <1> QED
    BY <1>1, <1>2, <1>3, <1>4, <1>5, <1>6, <1>7, <1>8, <1>9, <1>10, <1>11, <1>12, <1>13, <1>14, <1>15

\* The flag lets one processor pass.
LEMMA ExitKept ==
    ASSUME TypeOK, ExitInv, Next
    PROVE  ExitInv'
  <1> USE NCpuAssumption DEF TypeOK, Cpus, Goto, ExitInv, ExitsOnce
  <1> PICK c \in Cpus :
              \/ MpeInit \/ BootAp \/ SeeReady \/ AllBooted
              \/ Reset(c) \/ Fetch(c) \/ SwitchStack(c) \/ Report(c)
              \/ ExitSafe(c) \/ TakeFlag(c) \/ Halt(c) \/ StopNext(c)
              \/ WorldStopped(c) \/ Announce(c) \/ PowerOff(c)
    BY Actions
  <1>1. CASE MpeInit
    BY <1>1 DEF MpeInit
  <1>2. CASE BootAp
    BY <1>2 DEF BootAp
  <1>3. CASE SeeReady
    BY <1>3 DEF SeeReady
  <1>4. CASE AllBooted
    BY <1>4 DEF AllBooted
  <1>5. CASE Reset(c)
    BY <1>5 DEF Reset
  <1>6. CASE Fetch(c)
    BY <1>6 DEF Fetch
  <1>7. CASE SwitchStack(c)
    BY <1>7 DEF SwitchStack
  <1>8. CASE Report(c)
    BY <1>8 DEF Report
  <1>9. CASE ExitSafe(c)
    BY <1>9 DEF ExitSafe, Running
  <1>10. CASE TakeFlag(c)
    BY <1>10 DEF TakeFlag
  <1>11. CASE Halt(c)
    BY <1>11 DEF Halt, Running
  <1>12. CASE StopNext(c)
    BY <1>12 DEF StopNext
  <1>13. CASE WorldStopped(c)
    BY <1>13 DEF WorldStopped
  <1>14. CASE Announce(c)
    BY <1>14 DEF Announce
  <1>15. CASE PowerOff(c)
    BY <1>15 DEF PowerOff
  <1> QED
    BY <1>1, <1>2, <1>3, <1>4, <1>5, <1>6, <1>7, <1>8, <1>9, <1>10, <1>11, <1>12, <1>13, <1>14, <1>15

\* Until somebody calls halt, the start goes on processor by processor.
LEMMA StartKept ==
    ASSUME TypeInv, halters = {}, Starting, Next
    PROVE  PhaseInv'
  <1> USE NCpuAssumption DEF TypeInv, TypeOK, Cpus, Goto, PhaseInv, Starting, NothingStarted, BetweenTwo,
             WaitingForOne, Entered, Untouched, Halted, BootStackExclusive
  <1> PICK c \in Cpus :
              \/ MpeInit \/ BootAp \/ SeeReady \/ AllBooted
              \/ Reset(c) \/ Fetch(c) \/ SwitchStack(c) \/ Report(c)
              \/ ExitSafe(c) \/ TakeFlag(c) \/ Halt(c) \/ StopNext(c)
              \/ WorldStopped(c) \/ Announce(c) \/ PowerOff(c)
    BY Actions
  <1>1. CASE MpeInit
    BY <1>1 DEF MpeInit
  <1>2. CASE BootAp
    <2>1. BetweenTwo /\ pc[0] = "boot" /\ cpu \in Cpus \ {0} /\ 0 \in Cpus
      BY <1>2 DEF BootAp
    <2>2. /\ pc'[0] = "wait" /\ \A d \in Cpus \ {0} : pc'[d] = pc[d]
          /\ resets' = {cpu} /\ cpu' = cpu /\ ap_ready' = 0 /\ jmp_code' = "boot"
      BY <1>2, <2>1 DEF BootAp
    <2>3. WaitingForOne'
      BY <1>2, <2>1, <2>2 DEF BootAp
    <2> QED
      BY <1>2, <2>2, <2>3 DEF BootAp
  <1>3. CASE SeeReady
    BY <1>3 DEF SeeReady
  <1>4. CASE AllBooted
    BY <1>4 DEF AllBooted
  <1>5. CASE Reset(c)
    BY <1>5 DEF Reset
  <1>6. CASE Fetch(c)
    BY <1>6 DEF Fetch
  <1>7. CASE SwitchStack(c)
    BY <1>7, SMTT(30) DEF SwitchStack
  <1>8. CASE Report(c)
    BY <1>8 DEF Report
  <1>9. CASE ExitSafe(c)
    BY <1>9 DEF ExitSafe, Running
  <1>10. CASE TakeFlag(c)
    BY <1>10 DEF TakeFlag
  <1>11. CASE Halt(c)
    <2>1. pc[0] # "main" \/ c = 0
      BY <1>11 DEF Halt, Running
    <2>2. BootStackExclusive
      OBVIOUS
    <2>3. halters' # {} /\ jmp_code' = "spin" /\ pc'[0] # "main" /\ BootStackExclusive'
      BY <1>11, <2>1, <2>2 DEF Halt, Running
    <2> QED
      BY <2>3
  <1>12. CASE StopNext(c)
    BY <1>12 DEF StopNext
  <1>13. CASE WorldStopped(c)
    BY <1>13 DEF WorldStopped
  <1>14. CASE Announce(c)
    <2>1. pc[c] = "exit_print"
      BY <1>14 DEF Announce
    <2>2. /\ pc' = [pc EXCEPT ![c] = "exit_off"]
          /\ UNCHANGED <<cpu, ap_ready, jmp_code, resets, halters>>
      BY <1>14, <2>1 DEF Announce
    <2> QED
      BY <2>1, <2>2
  <1>15. CASE PowerOff(c)
    BY <1>15 DEF PowerOff
  <1> QED
    BY <1>1, <1>2, <1>3, <1>4, <1>5, <1>6, <1>7, <1>8, <1>9, <1>10, <1>11, <1>12, <1>13, <1>14, <1>15

\* After a halt nobody comes to the boot stack.
LEMMA HaltKept ==
    ASSUME TypeInv, halters # {}, Halted, Next
    PROVE  halters' # {} /\ Halted'
  <1> USE NCpuAssumption DEF TypeInv, TypeOK, Cpus, Goto, Halted, BootStackExclusive
  <1> PICK c \in Cpus :
              \/ MpeInit \/ BootAp \/ SeeReady \/ AllBooted
              \/ Reset(c) \/ Fetch(c) \/ SwitchStack(c) \/ Report(c)
              \/ ExitSafe(c) \/ TakeFlag(c) \/ Halt(c) \/ StopNext(c)
              \/ WorldStopped(c) \/ Announce(c) \/ PowerOff(c)
    BY Actions
  <1>1. CASE MpeInit
    BY <1>1 DEF MpeInit
  <1>2. CASE BootAp
    BY <1>2 DEF BootAp
  <1>3. CASE SeeReady
    BY <1>3 DEF SeeReady
  <1>4. CASE AllBooted
    BY <1>4 DEF AllBooted
  <1>5. CASE Reset(c)
    BY <1>5 DEF Reset
  <1>6. CASE Fetch(c)
    BY <1>6 DEF Fetch
  <1>7. CASE SwitchStack(c)
    BY <1>7 DEF SwitchStack
  <1>8. CASE Report(c)
    BY <1>8 DEF Report
  <1>9. CASE ExitSafe(c)
    BY <1>9 DEF ExitSafe, Running
  <1>10. CASE TakeFlag(c)
    BY <1>10 DEF TakeFlag
  <1>11. CASE Halt(c)
    BY <1>11 DEF Halt, Running
  <1>12. CASE StopNext(c)
    BY <1>12 DEF StopNext
  <1>13. CASE WorldStopped(c)
    BY <1>13 DEF WorldStopped
  <1>14. CASE Announce(c)
    BY <1>14 DEF Announce
  <1>15. CASE PowerOff(c)
    BY <1>15 DEF PowerOff
  <1> QED
    BY <1>1, <1>2, <1>3, <1>4, <1>5, <1>6, <1>7, <1>8, <1>9, <1>10, <1>11, <1>12, <1>13, <1>14, <1>15

LEMMA InitOK == Init => MpeInv
  BY NCpuAssumption DEF Init, MpeInv, TypeInv, TypeOK, PhaseInv, Starting, NothingStarted,
     Untouched, ExitInv, ExitsOnce, Cpus

LEMMA Inductive == MpeInv /\ [Next]_vars => MpeInv'
  <1> SUFFICES ASSUME MpeInv, [Next]_vars
               PROVE  MpeInv'
    OBVIOUS
  <1>1. CASE Next
    BY <1>1, TypeKept, ExitKept, StartKept, HaltKept DEF MpeInv, TypeInv, PhaseInv
  <1>2. CASE UNCHANGED vars
    BY <1>2 DEF vars, MpeInv, TypeInv, TypeOK, PhaseInv, Starting, NothingStarted, BetweenTwo,
       WaitingForOne, Entered, Untouched, Halted, BootStackExclusive, ExitInv, ExitsOnce
  <1> QED
    BY <1>1, <1>2

LEMMA InvariantHolds == Spec => []MpeInv
  <1> QED
    BY InitOK, Inductive, PTL DEF Spec

\* Every variable keeps its type (all of mpe.c, trm.c and exit_safe).
THEOREM TypeCorrect == Spec => []TypeOK
  <1>1. MpeInv => TypeOK
    BY DEF MpeInv, TypeInv
  <1> QED
    BY <1>1, InvariantHolds, PTL

\* The stack of the boot sector never has two users: mpe_init starts a
\* processor only after the one before it has left that stack, and a halt
\* sends none of the processors it resets back to it.
THEOREM BootStackHasOneUser == Spec => []BootStackExclusive
  <1>1. MpeInv => BootStackExclusive
    BY DEF MpeInv, TypeInv, TypeOK, PhaseInv, Starting, NothingStarted, BetweenTwo,
       WaitingForOne, Entered, Untouched, Halted, BootStackExclusive, Cpus
  <1> QED
    BY <1>1, InvariantHolds, PTL

\* Processor 0 leaves mpe_init after all others have been set up.
THEOREM EntryComesLast == Spec => []EntryAfterAllAreReady
  <1>1. MpeInv => EntryAfterAllAreReady
    BY NCpuAssumption, SMTT(30) DEF MpeInv, TypeInv, TypeOK, PhaseInv, Starting, BetweenTwo,
       Entered, EntryAfterAllAreReady, Cpus
  <1> QED
    BY <1>1, InvariantHolds, PTL

\* However many processors call exit_safe, one of them prints and powers off.
THEOREM ExitsAtMostOnce == Spec => []ExitsOnce
  <1>1. MpeInv => ExitsOnce
    BY DEF MpeInv, ExitInv
  <1> QED
    BY <1>1, InvariantHolds, PTL

=============================================================================

---------------------------- MODULE SleepDilation ----------------------------
(***************************************************************************)
(* The kernel module that stretches sleeps                                 *)
(* (src/src/kernel_dilation/sleep_dilation.c) and the thread of the        *)
(* consumer that sets its factor (ControlThread in                         *)
(* src/src/consumer/consumer.cpp): loading with its partial failures,      *)
(* unloading, the two kprobe handlers and the sysfs knobs.                 *)
(*                                                                         *)
(* Data.  Times and factors are small integers; Denominator stands for     *)
(* 1000 and LongMax for 2^63 - 1, so that products overflow as they do in  *)
(* the kernel.                                                             *)
(***************************************************************************)
EXTENDS Integers

CONSTANTS
    Procs,          \* processes that sleep
    Denominator,    \* DILATION_DENOMINATOR
    Half,           \* 2^63: LongMax is Half - 1
    MaxFactor,      \* bound: largest factor the consumer computes
    Requests        \* sleep times asked for

ASSUME DilationAssumption ==
    /\ Denominator \in Nat \ {0}
    /\ Half \in Nat \ {0}
    /\ MaxFactor \in Nat /\ MaxFactor >= Denominator
    /\ Requests \subseteq 0..(Half - 1)

VARIABLES
    mod,        \* where the module's init or exit function is
    kobj,       \* does /sys/kernel/sleep_dilation exist
    group,      \* do the two attributes exist
    probes,     \* kprobes registered
    dilation_factor, target_pid,
    cons,       \* the control thread: "off", "run" or "write"
    computed,   \* its own dilation_factor
    pc,         \* each process: "awake", "handler" or "asleep"
    kind,       \* the kernel function it sleeps in
    req, got,   \* the time asked for and the time it sleeps
    used        \* history: factor its sleep was stretched with, or None

moduleVars == <<mod, kobj, group, probes>>
knobVars == <<dilation_factor, target_pid>>
consVars == <<cons, computed>>
sleepVars == <<pc, kind, req, got, used>>
vars == <<mod, kobj, group, probes, dilation_factor, target_pid, cons, computed,
          pc, kind, req, got, used>>

LongMax == Half - 1     \* also MAX_SCHEDULE_TIMEOUT and KTIME_MAX
None == -1
NoPid == "0"            \* target_pid 0: all processes
Kinds == {"schedule_timeout", "hrtimer_nanosleep"}

\* "out": not loaded; "group" to "nano": init, named for the call that is next;
\* "live": loaded; "exit" and "remove": on the way out, one or no probe armed.
ModulePC == {"out", "group", "sched", "nano", "live", "exit", "remove"}

Init ==
    /\ mod = "out" /\ kobj = FALSE /\ group = FALSE /\ probes = {}
    /\ dilation_factor = Denominator /\ target_pid = NoPid
    /\ cons = "off" /\ computed = Denominator
    /\ pc = [p \in Procs |-> "awake"]
    /\ kind = [p \in Procs |-> "schedule_timeout"]
    /\ req = [p \in Procs |-> 0] /\ got = [p \in Procs |-> 0]
    /\ used = [p \in Procs |-> None]

-----------------------------------------------------------------------------
(* sleep_dilation_init and sleep_dilation_exit. *)

\* insmod: the data of the module is as compiled.  A failing
\* kobject_create_and_add leaves things as they were.
CreateKobject ==
    /\ mod = "out"
    /\ mod' = "group"
    /\ kobj' = TRUE
    /\ dilation_factor' = Denominator
    /\ target_pid' = NoPid
    /\ UNCHANGED <<group, probes, consVars, sleepVars>>

CreateGroup ==
    /\ mod = "group"
    /\ mod' = "sched"
    /\ group' = TRUE
    /\ UNCHANGED <<kobj, probes, knobVars, consVars, sleepVars>>

CreateGroupFails ==
    /\ mod = "group"
    /\ mod' = "out"
    /\ kobj' = FALSE
    /\ UNCHANGED <<group, probes, knobVars, consVars, sleepVars>>

RegisterSched ==
    /\ mod = "sched"
    /\ mod' = "nano"
    /\ probes' = {"schedule_timeout"}
    /\ UNCHANGED <<kobj, group, knobVars, consVars, sleepVars>>

RegisterSchedFails ==
    /\ mod = "sched"
    /\ mod' = "remove"
    /\ UNCHANGED <<kobj, group, probes, knobVars, consVars, sleepVars>>

RegisterNano ==
    /\ mod = "nano"
    /\ mod' = "live"
    /\ probes' = Kinds
    /\ UNCHANGED <<kobj, group, knobVars, consVars, sleepVars>>

\* Mutant of RegisterNanoFails: kp_sched_timeout stays registered.
RegisterNanoForgets ==
    /\ mod = "nano"
    /\ mod' = "remove"
    /\ UNCHANGED <<kobj, group, probes, knobVars, consVars, sleepVars>>

\* The other probe has to be taken back.
RegisterNanoFails ==
    /\ mod = "nano"
    /\ mod' = "exit"
    /\ UNCHANGED <<kobj, group, probes, knobVars, consVars, sleepVars>>

\* External: unregister_kprobe disarms a probe, and returns when no handler of it
\* runs any more.
Quiet(k) == \A p \in Procs : ~(pc[p] = "handler" /\ kind[p] = k)

\* rmmod
UnregisterNano ==
    /\ mod = "live"
    /\ mod' = "exit"
    /\ probes' = probes \ {"hrtimer_nanosleep"}
    /\ UNCHANGED <<kobj, group, knobVars, consVars, sleepVars>>

\* Mutant of UnregisterSched: it waits for the sleeps, not for the handlers.
UnregisterSchedWaits ==
    /\ mod = "exit"
    /\ \A p \in Procs : pc[p] = "awake"
    /\ mod' = "remove"
    /\ probes' = probes \ {"schedule_timeout"}
    /\ UNCHANGED <<kobj, group, knobVars, consVars, sleepVars>>

UnregisterSched ==
    /\ mod = "exit"
    /\ Quiet("hrtimer_nanosleep")
    /\ mod' = "remove"
    /\ probes' = probes \ {"schedule_timeout"}
    /\ UNCHANGED <<kobj, group, knobVars, consVars, sleepVars>>

\* sysfs_remove_group and kobject_put.
RemoveSysfs ==
    /\ mod = "remove"
    /\ Quiet("schedule_timeout")
    /\ mod' = "out"
    /\ group' = FALSE
    /\ kobj' = FALSE
    /\ UNCHANGED <<probes, knobVars, consVars, sleepVars>>

-----------------------------------------------------------------------------
(* The knobs. *)

\* dilation_factor_store, of a number that is an unsigned int.
DilationFactorStore(val) == dilation_factor' = val

\* An operator writes target_pid.
StoreTarget ==
    /\ group
    /\ target_pid' \in Procs \union {NoPid}
    /\ UNCHANGED <<moduleVars, dilation_factor, consVars, sleepVars>>

\* main of the consumer starts the control thread only if the knob is readable.
StartConsumer ==
    /\ cons = "off"
    /\ group
    /\ cons' = "run"
    /\ computed' = Denominator
    /\ UNCHANGED <<moduleVars, knobVars, sleepVars>>

\* Mutant of AtLeastOne: the factor may fall below 1000.
AnyFactor(raw) == raw

\* std::max(dilation_factor, 1000u)
AtLeastOne(raw) == IF raw < Denominator THEN Denominator ELSE raw

\* A period ends.  The conversion of the product of doubles to unsigned int is
\* undefined for large values: any result.
Compute ==
    /\ cons = "run"
    /\ cons' = "write"
    /\ \E raw \in 0..MaxFactor : computed' = AtLeastOne(raw)
    /\ UNCHANGED <<moduleVars, knobVars, sleepVars>>

\* Mutant of WriteKnob: a factor of 1.0 is not written.
WriteKnobUnlessOne ==
    /\ cons = "write"
    /\ cons' = "run"
    /\ dilation_factor' = IF group /\ computed # Denominator
                          THEN computed ELSE dilation_factor
    /\ UNCHANGED <<moduleVars, target_pid, computed, sleepVars>>

\* The factor is written to sysfs.  If the knob is gone the control thread says
\* so and goes on.
WriteKnob ==
    /\ cons = "write"
    /\ cons' = "run"
    /\ IF group THEN DilationFactorStore(computed) ELSE UNCHANGED dilation_factor
    /\ UNCHANGED <<moduleVars, target_pid, computed, sleepVars>>

\* stop, or the consumer is killed.  The knob keeps its value.
StopConsumer ==
    /\ cons # "off"
    /\ cons' = "off"
    /\ UNCHANGED <<moduleVars, knobVars, computed, sleepVars>>

-----------------------------------------------------------------------------
(* The kprobe handlers. *)

\* A signed machine integer.
ToLong(x) == ((x + Half) % (2 * Half)) - Half

\* Mutant of MultFrac: the result is wider than regs->di.
MultFracWide(x, n, d) == (x \div d) * n + ((x % d) * n) \div d

\* Mutant of MultFrac: one product, then the quotient.
MultThenDivide(x, n, d) == ToLong(x * n) \div d

\* mult_frac of linux/math.h for x >= 0: quotient and remainder apart.
MultFrac(x, n, d) == ToLong((x \div d) * n + ((x % d) * n) \div d)

\* Do the tests of a handler let it go on?  intr: is the sleep interruptible.
Dilates(p, k, x, intr) ==
    /\ k \in probes
    /\ CASE k = "schedule_timeout" -> x # LongMax /\ intr
         [] k = "hrtimer_nanosleep" -> target_pid \in {NoPid, p}
    /\ dilation_factor # Denominator
    /\ x > 0

\* A process calls one of the kernel functions; with a probe there, its handler
\* makes its tests.
Call(p, k, x, intr) ==
    /\ pc[p] = "awake"
    /\ pc' = [pc EXCEPT ![p] = IF Dilates(p, k, x, intr) THEN "handler" ELSE "asleep"]
    /\ kind' = [kind EXCEPT ![p] = k]
    /\ req' = [req EXCEPT ![p] = x]
    /\ got' = [got EXCEPT ![p] = x]
    /\ used' = [used EXCEPT ![p] = None]
    /\ UNCHANGED <<moduleVars, knobVars, consVars>>

\* The handler reads dilation_factor once more and changes regs->di.
Dilate(p) ==
    /\ pc[p] = "handler"
    /\ pc' = [pc EXCEPT ![p] = "asleep"]
    /\ got' = [got EXCEPT ![p] = MultFrac(req[p], dilation_factor, Denominator)]
    /\ used' = [used EXCEPT ![p] = dilation_factor]
    /\ UNCHANGED <<kind, req, moduleVars, knobVars, consVars>>

\* The sleep is over; what is known of it is forgotten.
Wake(p) ==
    /\ pc[p] = "asleep"
    /\ pc' = [pc EXCEPT ![p] = "awake"]
    /\ kind' = [kind EXCEPT ![p] = "schedule_timeout"]
    /\ req' = [req EXCEPT ![p] = 0]
    /\ got' = [got EXCEPT ![p] = 0]
    /\ used' = [used EXCEPT ![p] = None]
    /\ UNCHANGED <<moduleVars, knobVars, consVars>>

-----------------------------------------------------------------------------
Load ==
    \/ CreateKobject \/ CreateGroup \/ CreateGroupFails
    \/ RegisterSched \/ RegisterSchedFails \/ RegisterNano \/ RegisterNanoFails

Unload == UnregisterNano \/ UnregisterSched \/ RemoveSysfs

ControlThread == Compute \/ WriteKnob

Next ==
    \/ Load \/ Unload \/ StoreTarget
    \/ StartConsumer \/ ControlThread \/ StopConsumer
    \/ \E p \in Procs :
         \/ \E k \in Kinds, x \in Requests, intr \in BOOLEAN : Call(p, k, x, intr)
         \/ Dilate(p) \/ Wake(p)

Spec == Init /\ [][Next]_vars

\* The control thread is scheduled, handlers run to their end, and rmmod and a
\* failed insmod finish.  Nobody need load or unload the module.
Fairness ==
    /\ WF_vars(ControlThread)
    /\ WF_vars(UnregisterSched \/ RemoveSysfs)
    /\ \A p \in Procs : WF_vars(Dilate(p))

FairSpec == Spec /\ Fairness

-----------------------------------------------------------------------------
(* Properties. *)

\* Type invariant: the values the variables range over.
TypeOK ==
    /\ mod \in ModulePC
    /\ kobj \in BOOLEAN /\ group \in BOOLEAN
    /\ probes \subseteq Kinds
    /\ dilation_factor \in 0..MaxFactor
    /\ target_pid \in Procs \union {NoPid}
    /\ cons \in {"off", "run", "write"}
    /\ computed \in 0..MaxFactor
    /\ pc \in [Procs -> {"awake", "handler", "asleep"}]
    /\ kind \in [Procs -> Kinds]
    /\ req \in [Procs -> 0..LongMax]
    /\ got \in [Procs -> (-Half)..LongMax]
    /\ used \in [Procs -> {None} \union 0..MaxFactor]

\* However far loading got before it failed, and after an unload, nothing of the
\* module is left in the kernel; while a probe is planted or a handler runs the
\* knobs it depends on are there.
NothingDangles ==
    /\ mod = "out" => ~kobj /\ ~group /\ probes = {}
    /\ probes # {} => group /\ kobj
    /\ \A p \in Procs : pc[p] = "handler" => group

\* Is the stretched time a machine integer?
Fits(p) == (req[p] * used[p]) \div Denominator <= LongMax

\* A stretched sleep is the time asked for times the factor, rounded down, also
\* where the product itself would overflow.
DilationExact ==
    \A p \in Procs : used[p] # None /\ Fits(p) =>
        got[p] = (req[p] * used[p]) \div Denominator

\* With the consumer as the only writer of the knob no sleep gets shorter,
\* though the handler reads the factor twice and it may change in between.
NeverShorter ==
    \A p \in Procs : pc[p] = "asleep" /\ (used[p] # None => Fits(p)) =>
        got[p] >= req[p]

\* While the module stays loaded and the consumer runs, the kernel's factor gets
\* to the consumer's again and again, also after a reload has reset it.
FactorFollows ==
    <>[](mod = "live" /\ cons # "off") => []<>(dilation_factor = computed)

\* An unload, and a load that failed, comes to its end.
UnloadEnds == mod \in {"exit", "remove"} ~> mod = "out"

=============================================================================

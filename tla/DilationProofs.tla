--------------------------- MODULE DilationProofs ----------------------------
(***************************************************************************)
(* Proofs for SleepDilation: for any processes, times, factors and width   *)
(* of the machine integer.                                                 *)
(***************************************************************************)
EXTENDS SleepDilation, Division, TLAPS

-----------------------------------------------------------------------------
(* The inductive invariant behind the safety properties, in three parts. *)

\* What is in the kernel at each point of init and exit, and which handlers may
\* still run there.
Lifecycle ==
    /\ kobj <=> mod # "out"
    /\ group <=> mod \notin {"out", "group"}
    /\ probes = CASE mod \in {"out", "group", "sched", "remove"} -> {}
                  [] mod \in {"nano", "exit"} -> {"schedule_timeout"}
                  [] mod = "live" -> Kinds
    /\ \A p \in Procs : pc[p] = "handler" =>
         mod \in IF kind[p] = "schedule_timeout"
                THEN {"nano", "live", "exit", "remove"} ELSE {"live", "exit"}

\* Nobody writes a factor below 1.0.
FactorBound == dilation_factor >= Denominator /\ computed >= Denominator

\* A sleep that no handler has changed is as asked for; one that was changed is
\* what mult_frac gave for a factor that was in force.
SleepShape(p) ==
    \/ used[p] = None /\ got[p] = req[p]
    \/ /\ used[p] # None /\ used[p] >= Denominator
       /\ got[p] = MultFrac(req[p], used[p], Denominator)

IndInv ==
    /\ TypeOK
    /\ Lifecycle
    /\ FactorBound
    /\ \A p \in Procs : SleepShape(p)

-----------------------------------------------------------------------------
(* mult_frac. *)

\* The exact value of x * n / d, rounded down, without the product x * n.
LEMMA FracExact ==
    ASSUME NEW x \in Nat, NEW n \in Nat, NEW d \in Nat \ {0}
    PROVE  (x \div d) * n + ((x % d) * n) \div d = (x * n) \div d
<1> DEFINE q == x \div d
           r == x % d
           s == (r * n) \div d
<1>1. q \in Nat /\ r \in Nat /\ x = d * q + r
  BY DivMod
<1>2. r * n \in Nat /\ x * n \in Nat /\ q * n \in Nat
  BY <1>1, Z3
<1>3. s \in Nat /\ d * s <= r * n /\ r * n < d * s + d
  BY <1>2, DivMod
<1>4. x * n = d * (q * n) + r * n
  BY <1>1, Z3
<1>5. d * (q * n + s) = d * (q * n) + d * s
  BY <1>2, <1>3, Z3
<1>6. d * (q * n) \in Nat /\ d * s \in Nat
  BY <1>2, <1>3, Z3
<1>7. q * n + s \in Nat /\ d * (q * n + s) <= x * n /\ x * n < d * (q * n + s) + d
  BY <1>2, <1>3, <1>4, <1>5, <1>6
<1>8. (x * n) \div d = q * n + s
  BY <1>2, <1>7, DivUnique
<1> QED BY <1>8

\* A number that fits is itself as a machine integer.
LEMMA ToLongFits ==
    ASSUME NEW x \in 0..LongMax
    PROVE  ToLong(x) = x
<1>1. Half \in Nat \ {0} /\ x \in Nat /\ x < Half
  BY DilationAssumption DEF LongMax
<1>2. x + Half \in 0..(2 * Half - 1)
  BY <1>1
<1> DEFINE y == x + Half
           m == 2 * Half
<1>3. y \in Nat /\ m \in Nat \ {0} /\ y < m
  BY <1>1
<1>4. y \div m = 0
  BY <1>3, DivUnique
<1>5. y = m * (y \div m) + (y % m)
  BY <1>3, DivMod
<1>6. y % m = y
  <2> HIDE DEF y, m
  <2> QED BY <1>3, <1>4, <1>5, DivMod
<1> QED BY <1>1, <1>6 DEF ToLong

\* Any result is a machine integer.
LEMMA ToLongType ==
    ASSUME NEW x \in Nat
    PROVE  ToLong(x) \in (-Half)..LongMax
<1>1. Half \in Nat \ {0}
  BY DilationAssumption
<1>2. x + Half \in Nat /\ 2 * Half \in Nat \ {0}
  BY <1>1
<1>3. (x + Half) % (2 * Half) \in 0..(2 * Half - 1)
  BY <1>2, DivMod
<1> QED BY <1>1, <1>3 DEF ToLong, LongMax

\* mult_frac gives a machine integer, and the exact one when that fits.
LEMMA MultFracExact ==
    ASSUME NEW x \in Nat, NEW n \in Nat
    PROVE  /\ MultFrac(x, n, Denominator) \in (-Half)..LongMax
           /\ (x * n) \div Denominator <= LongMax =>
                MultFrac(x, n, Denominator) = (x * n) \div Denominator
<1>1. Denominator \in Nat \ {0} /\ Half \in Nat \ {0}
  BY DilationAssumption
<1>2. (x \div Denominator) * n + ((x % Denominator) * n) \div Denominator
        = (x * n) \div Denominator
  BY <1>1, FracExact
<1>3. x * n \in Nat
  BY Z3
<1>4. (x * n) \div Denominator \in Nat
  BY <1>1, <1>3, DivMod
<1>5. MultFrac(x, n, Denominator) = ToLong((x * n) \div Denominator)
  BY <1>2 DEF MultFrac
<1> QED BY <1>1, <1>4, <1>5, ToLongFits, ToLongType DEF LongMax

\* A factor of at least 1.0 makes nothing smaller.
LEMMA NotSmaller ==
    ASSUME NEW x \in Nat, NEW n \in Nat, n >= Denominator
    PROVE  (x * n) \div Denominator >= x
<1> DEFINE d == Denominator
           q == (x * n) \div d
<1>1. d \in Nat \ {0}
  BY DilationAssumption
<1>2. x * n \in Nat /\ x * n >= d * x /\ d * x \in Nat
  BY <1>1, Z3
<1>3. q \in Nat /\ x * n < d * q + d
  BY <1>1, <1>2, DivBound
<1>4. CASE q < x
  <2>1. d * x = d * q + d * (x - q)
    BY <1>1, <1>3, Z3
  <2>2. d * (x - q) >= d
    BY <1>1, <1>3, <1>4, Z3
  <2>3. d * q \in Nat
    BY <1>1, <1>3, Z3
  <2> QED BY <1>1, <1>2, <1>3, <2>1, <2>2, <2>3
<1> QED BY <1>3, <1>4

-----------------------------------------------------------------------------
(* The invariant. *)

LEMMA InitInv == Init => IndInv
<1> SUFFICES ASSUME Init PROVE IndInv
  OBVIOUS
<1> USE DilationAssumption
<1>1. TypeOK
  <2>1. mod \in ModulePC /\ kobj \in BOOLEAN /\ group \in BOOLEAN /\ probes \subseteq Kinds
    BY Zenon DEF Init, ModulePC
  <2>2. 0 \in 0..LongMax /\ 0 \in (-Half)..LongMax
    BY DEF LongMax
  <2>3. dilation_factor \in 0..MaxFactor /\ computed \in 0..MaxFactor
    BY DEF Init
  <2> QED BY <2>1, <2>2, <2>3 DEF Init, TypeOK, Kinds
<1>2. Lifecycle
  BY DEF Init, Lifecycle, Kinds
<1>3. FactorBound
  BY DEF Init, FactorBound
<1>4. \A p \in Procs : SleepShape(p)
  BY DEF Init, SleepShape
<1> QED BY <1>1, <1>2, <1>3, <1>4 DEF IndInv

\* A step of init or exit.
LEMMA ModuleStep ==
    ASSUME IndInv, Load \/ Unload
    PROVE  IndInv'
<1> USE DilationAssumption DEF IndInv
<1>1. TypeOK'
  <2> USE DEF Load, Unload, CreateKobject, CreateGroup, CreateGroupFails,
         RegisterSched, RegisterSchedFails, RegisterNano, RegisterNanoFails,
         UnregisterNano, UnregisterSched, RemoveSysfs
  <2>1. mod' \in ModulePC
    BY DEF ModulePC
  <2>2. kobj' \in BOOLEAN
    BY Zenon DEF TypeOK
  <2>3. group' \in BOOLEAN
    BY Zenon DEF TypeOK
  <2>4. probes' \subseteq Kinds
    BY DEF TypeOK, Kinds
  <2>5. dilation_factor' \in 0..MaxFactor /\ target_pid' \in Procs \union {NoPid}
    BY DEF TypeOK, knobVars
  <2>6. UNCHANGED consVars /\ UNCHANGED sleepVars
    OBVIOUS
  <2> QED BY <2>1, <2>2, <2>3, <2>4, <2>5, <2>6 DEF TypeOK, consVars, sleepVars
<1>2. Lifecycle'
  <2> USE DEF TypeOK, Lifecycle, Kinds, sleepVars
  <2>1. CASE CreateKobject     BY <2>1 DEF CreateKobject
  <2>2. CASE CreateGroup       BY <2>2 DEF CreateGroup
  <2>3. CASE CreateGroupFails  BY <2>3 DEF CreateGroupFails
  <2>4. CASE RegisterSched     BY <2>4 DEF RegisterSched
  <2>5. CASE RegisterSchedFails BY <2>5 DEF RegisterSchedFails
  <2>6. CASE RegisterNano      BY <2>6 DEF RegisterNano
  <2>7. CASE RegisterNanoFails BY <2>7 DEF RegisterNanoFails
  <2>8. CASE UnregisterNano    BY <2>8 DEF UnregisterNano
  <2>9. CASE UnregisterSched   BY <2>9 DEF UnregisterSched, Quiet
  <2>10. CASE RemoveSysfs      BY <2>10 DEF RemoveSysfs, Quiet
  <2> QED BY <2>1, <2>2, <2>3, <2>4, <2>5, <2>6, <2>7, <2>8, <2>9, <2>10
          DEF Load, Unload
<1>3. FactorBound'
  BY DEF FactorBound, consVars, knobVars,
         Load, Unload, CreateKobject, CreateGroup, CreateGroupFails,
         RegisterSched, RegisterSchedFails, RegisterNano, RegisterNanoFails,
         UnregisterNano, UnregisterSched, RemoveSysfs
<1>4. UNCHANGED sleepVars
  BY DEF Load, Unload, CreateKobject, CreateGroup, CreateGroupFails,
         RegisterSched, RegisterSchedFails, RegisterNano, RegisterNanoFails,
         UnregisterNano, UnregisterSched, RemoveSysfs
<1>5. \A p \in Procs : SleepShape(p)'
  BY <1>4 DEF SleepShape, sleepVars
<1> QED BY <1>1, <1>2, <1>3, <1>5

\* A step of the operator or of the consumer.
LEMMA KnobStep ==
    ASSUME IndInv, StoreTarget \/ StartConsumer \/ ControlThread \/ StopConsumer
    PROVE  IndInv'
<1> USE DilationAssumption DEF IndInv
<1>1. \A raw \in 0..MaxFactor : AtLeastOne(raw) \in Denominator..MaxFactor
  BY DEF AtLeastOne
<1>2. UNCHANGED sleepVars /\ UNCHANGED moduleVars
  BY DEF StoreTarget, StartConsumer, ControlThread, StopConsumer, Compute, WriteKnob,
      DilationFactorStore
<1>3. TypeOK' /\ FactorBound'
  <2> USE <1>2 DEF TypeOK, FactorBound, sleepVars, moduleVars
  <2>1. CASE StoreTarget   BY <2>1 DEF StoreTarget, consVars
  <2>2. CASE StartConsumer BY <2>2 DEF StartConsumer, knobVars
  <2>3. CASE Compute       BY <1>1, <2>3 DEF Compute, knobVars
  <2>4. CASE WriteKnob     BY <2>4 DEF WriteKnob, DilationFactorStore
  <2>5. CASE StopConsumer  BY <2>5 DEF StopConsumer, knobVars
  <2> QED BY <2>1, <2>2, <2>3, <2>4, <2>5 DEF ControlThread
<1>4. Lifecycle'
  BY <1>2 DEF Lifecycle, sleepVars, moduleVars
<1>5. \A p \in Procs : SleepShape(p)'
  BY <1>2 DEF SleepShape, sleepVars
<1> QED BY <1>3, <1>4, <1>5

\* A sleep begins: its handler runs only where a probe is planted.
LEMMA CallStep ==
    ASSUME IndInv, NEW p \in Procs, NEW k \in Kinds, NEW x \in Requests,
           NEW intr \in BOOLEAN, Call(p, k, x, intr)
    PROVE  IndInv'
<1> USE DilationAssumption DEF IndInv
<1>1. x \in 0..LongMax
  BY DEF LongMax
<1>2. TypeOK'
  BY <1>1 DEF TypeOK, Call, moduleVars, knobVars, consVars, LongMax
<1>3. Lifecycle'
  <2>1. SUFFICES ASSUME NEW q \in Procs, pc'[q] = "handler"
                 PROVE  mod \in IF kind'[q] = "schedule_timeout"
                               THEN {"nano", "live", "exit", "remove"} ELSE {"live", "exit"}
    BY <1>2 DEF Lifecycle, Call, moduleVars
  <2>2. CASE q = p
    <3>1. k \in probes /\ kind'[p] = k
      BY <2>1, <2>2 DEF Call, Dilates, TypeOK
    <3> QED BY <2>2, <3>1 DEF Lifecycle, Kinds, TypeOK, ModulePC
  <2>3. CASE q # p
    BY <2>1, <2>3 DEF Lifecycle, Call, TypeOK
  <2> QED BY <2>2, <2>3
<1>4. FactorBound'
  BY DEF FactorBound, Call, knobVars, consVars
<1>5. \A q \in Procs : SleepShape(q)'
  BY DEF SleepShape, Call, TypeOK
<1> QED BY <1>2, <1>3, <1>4, <1>5

\* The handler changes the time: the factor it uses is at least 1.0.
LEMMA DilateStep ==
    ASSUME IndInv, NEW p \in Procs, Dilate(p)
    PROVE  IndInv'
<1> USE DilationAssumption DEF IndInv
<1> DEFINE t == MultFrac(req[p], dilation_factor, Denominator)
<1>1. t \in (-Half)..LongMax
  <2>1. req[p] \in Nat /\ dilation_factor \in Nat
    BY DEF TypeOK, LongMax
  <2> QED BY <2>1, MultFracExact
<1>2. got' = [got EXCEPT ![p] = t] /\ used' = [used EXCEPT ![p] = dilation_factor]
  BY DEF Dilate
<1>3. TypeOK'
  <2> HIDE DEF t
  <2> QED BY <1>1, <1>2 DEF TypeOK, Dilate, moduleVars, knobVars, consVars
<1>4. Lifecycle'
  BY DEF Lifecycle, Dilate, TypeOK, moduleVars
<1>5. FactorBound'
  BY DEF FactorBound, Dilate, knobVars, consVars
<1>6. dilation_factor # None /\ dilation_factor >= Denominator
  BY DEF TypeOK, FactorBound, None
<1>7. \A q \in Procs : SleepShape(q)'
  <2> SUFFICES ASSUME NEW q \in Procs PROVE SleepShape(q)'
    OBVIOUS
  <2>1. req' = req
    BY DEF Dilate
  <2>2. CASE q = p
    <3>1. got'[p] = t /\ used'[p] = dilation_factor
      BY <1>2 DEF TypeOK
    <3> QED BY <1>6, <2>1, <2>2, <3>1 DEF SleepShape
  <2>3. CASE q # p
    <3>1. got'[q] = got[q] /\ used'[q] = used[q]
      BY <1>2, <2>3 DEF TypeOK
    <3> QED BY <2>1, <3>1 DEF SleepShape
  <2> QED BY <2>2, <2>3
<1> QED BY <1>3, <1>4, <1>5, <1>7

LEMMA WakeStep ==
    ASSUME IndInv, NEW p \in Procs, Wake(p)
    PROVE  IndInv'
<1> USE DilationAssumption DEF IndInv
<1>1. TypeOK'
  BY DEF TypeOK, Wake, moduleVars, knobVars, consVars, LongMax, Kinds
<1>2. Lifecycle'
  BY DEF Lifecycle, Wake, TypeOK, moduleVars
<1>3. FactorBound'
  BY DEF FactorBound, Wake, knobVars, consVars
<1>4. \A q \in Procs : SleepShape(q)'
  BY DEF SleepShape, Wake, TypeOK
<1> QED BY <1>1, <1>2, <1>3, <1>4

LEMMA StutterStep ==
    ASSUME IndInv, UNCHANGED vars
    PROVE  IndInv'
BY DEF IndInv, TypeOK, Lifecycle, FactorBound, SleepShape, vars

\* The invariant of loading, knobs and sleeps holds in every reachable state of
\* sleep_dilation.c and the control thread, failed loads included.
THEOREM DilationInductive == Spec => []IndInv
<1>1. ASSUME IndInv, [Next]_vars PROVE IndInv'
  <2>1. CASE UNCHANGED vars
    BY <1>1, <2>1, StutterStep
  <2>2. CASE Next
    BY <1>1, <2>2, ModuleStep, KnobStep, CallStep, DilateStep, WakeStep DEF Next
  <2> QED BY <1>1, <2>1, <2>2
<1> QED BY <1>1, InitInv, PTL DEF Spec

-----------------------------------------------------------------------------
(* What follows from it. *)

\* The variables keep their types: in particular what the handlers put into
\* regs->di is a machine integer.
THEOREM DilationTypes == Spec => []TypeOK
<1>1. IndInv => TypeOK
  BY DEF IndInv
<1> QED BY <1>1, DilationInductive, PTL

\* sleep_dilation_init and sleep_dilation_exit leave nothing behind, and no
\* handler runs without the knobs.
THEOREM CleanUnload == Spec => []NothingDangles
<1>1. IndInv => NothingDangles
  BY DEF IndInv, TypeOK, ModulePC, Lifecycle, NothingDangles, Kinds
<1> QED BY <1>1, DilationInductive, PTL

\* A sleep is stretched by exactly the factor, for any factor and any width of
\* the machine integer the result fits in.
THEOREM StretchExact == Spec => []DilationExact
<1>1. ASSUME IndInv PROVE DilationExact
  <2> SUFFICES ASSUME NEW p \in Procs, used[p] # None, Fits(p)
               PROVE  got[p] = (req[p] * used[p]) \div Denominator
    BY DEF DilationExact
  <2>1. req[p] \in Nat /\ used[p] \in Nat
    BY <1>1, DilationAssumption DEF IndInv, TypeOK, None, LongMax
  <2>2. got[p] = MultFrac(req[p], used[p], Denominator)
    BY <1>1 DEF IndInv, SleepShape
  <2> QED BY <2>1, <2>2, MultFracExact DEF Fits
<1> QED BY <1>1, DilationInductive, PTL

\* No sleep is made shorter than asked for, whatever the consumer writes between
\* the handler's two reads of the factor.
THEOREM NoSleepShorter == Spec => []NeverShorter
<1>1. ASSUME IndInv PROVE NeverShorter
  <2> SUFFICES ASSUME NEW p \in Procs, used[p] # None => Fits(p)
               PROVE  got[p] >= req[p]
    BY DEF NeverShorter
  <2>1. req[p] \in Nat
    BY <1>1, DilationAssumption DEF IndInv, TypeOK, LongMax
  <2>2. CASE used[p] = None
    <3>1. got[p] = req[p]
      BY <1>1, <2>2 DEF IndInv, SleepShape
    <3> QED BY <2>1, <3>1
  <2>3. CASE used[p] # None
    <3>1. used[p] \in Nat /\ used[p] >= Denominator
      BY <1>1, <2>3, DilationAssumption DEF IndInv, TypeOK, None, SleepShape
    <3>2. got[p] = MultFrac(req[p], used[p], Denominator)
      BY <1>1, <2>3 DEF IndInv, SleepShape
    <3>3. got[p] = (req[p] * used[p]) \div Denominator
      BY <2>1, <2>3, <3>1, <3>2, MultFracExact DEF Fits
    <3> QED BY <2>1, <3>1, <3>3, NotSmaller
  <2> QED BY <2>2, <2>3
<1> QED BY <1>1, DilationInductive, PTL
=============================================================================
